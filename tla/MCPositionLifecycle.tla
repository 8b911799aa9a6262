------------------------- MODULE MCPositionLifecycle -------------------------
(* Instances of PositionLifecycle for TLC. *)
EXTENDS PositionLifecycle, TLC


\* Slots for requests are interchangeable (no liveness is checked with it).
Interchangeable == Permutations(Requests)
==============================================================================
