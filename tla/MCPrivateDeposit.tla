-------------------------- MODULE MCPrivateDeposit --------------------------
(* Instances of PrivateDeposit for TLC. *)
EXTENDS PrivateDeposit, TLC

Interchangeable == Permutations(Runs)
=============================================================================
