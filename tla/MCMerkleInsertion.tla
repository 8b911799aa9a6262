-------------------------- MODULE MCMerkleInsertion --------------------------
(* An instance of MerkleInsertion for TLC: a free hash, so that two hashes *)
(* are equal only when their inputs are.                                   *)
EXTENDS MerkleInsertion, TLC

CONSTANTS c1, c2, c3, c4

FreeHash(left, right) == <<left, right>>

\* Commitments are only compared and hashed, so any of them may be swapped.
Interchangeable == Permutations({c1, c2, c3, c4})
==============================================================================
