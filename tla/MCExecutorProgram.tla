-------------------------- MODULE MCExecutorProgram --------------------------
(* Instances of ExecutorProgram for TLC: one stealth wallet, and the account of *)
(* a pool as the other key that a caller may name as a payee or recipient.     *)
EXTENDS ExecutorProgram, TLC

CONSTANTS p1, p2

\* SOL is token X of the first pool and token Y of the second.
MCSolIsTokenX == (p1 :> TRUE) @@ (p2 :> FALSE)

\* Ten bins at the end of a bin array, and a whole bin array.
MCAsked == {BinRange(60, 10), BinRange(0, 70)}

\* Ten bins at the start of one.
MCTenBins == {BinRange(0, 10)}

\* Below both ranges, inside them, above them.
MCActiveBins == {-5, 64, 80}

Interchangeable == Permutations(PositionKeys)
==============================================================================
