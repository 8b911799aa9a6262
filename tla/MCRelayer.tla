------------------------------ MODULE MCRelayer ------------------------------
(* Instances of Relayer for TLC. *)
EXTENDS Relayer, TLC

CONSTANTS n1, n2, root1, alice, bob, dec1, hex1, dec2

\* The first nullifier is spelled in two ways.
MCBigInt == (dec1 :> n1) @@ (hex1 :> n1) @@ (dec2 :> n2)
MCDecimal == (n1 :> dec1) @@ (n2 :> dec2)

Ask(h, who) == [nullifierHash |-> h, root |-> root1, recipient |-> who]

\* Two notes, one of them asked for in two spellings, for a recipient each.
MCAsks == {Ask(dec1, alice), Ask(hex1, bob), Ask(dec2, alice)}

\* One note asked for two recipients in one spelling: who joins may want the other.
MCOneNote == {Ask(dec1, alice), Ask(dec1, bob)}

Interchangeable == Permutations(Requests)
==============================================================================
