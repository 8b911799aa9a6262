----------------------------- MODULE MCApiServer -----------------------------
(* Instances of ApiServer for TLC. *)
EXTENDS ApiServer, TLC

CONSTANTS alice, bob

Interchangeable == Permutations(Requests) \cup Permutations(Wallets)
==============================================================================
