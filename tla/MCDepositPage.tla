---------------------------- MODULE MCDepositPage ----------------------------
(***************************************************************************)
(* One pool whose active bin moves across the border of two bin arrays, two *)
(* wallets, a thin and a strong mixer pool, two runs.                       *)
(***************************************************************************)
EXTENDS DepositPage, TLC

\* 78 - 8 is the first bin of an array; 73 is five bins from 78, the most that
\* add-liquidity bears since use-pool.
MCActiveBins == {73, 78}
MCDragged == {[lower |-> 60, upper |-> 69]}

MCTestRange == [lower |-> -10, upper |-> 9]
MCNoBin == -1

Symmetry == Permutations(Wallets)
=============================================================================
