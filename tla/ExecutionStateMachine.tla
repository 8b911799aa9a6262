----------------------- MODULE ExecutionStateMachine -----------------------
(***************************************************************************)
(* The table of domain/execution-state-machine.ts: the eleven states of a  *)
(* position and the moves the domain allows between them.  As a            *)
(* specification it is what the README calls the strict transition guard;  *)
(* PositionLifecycle says when the stored session follows it.              *)
(***************************************************************************)
States == {"draft", "awaiting_signature", "funding_in_progress",
           "executing_on_meteora", "indexing", "active", "claiming",
           "withdrawing", "closing", "completed", "failed"}

\* "none": the row has not been written yet.
NoState == "none"

Transitions == [s \in States |->
    CASE s = "draft"                -> {"awaiting_signature"}
      [] s = "awaiting_signature"   -> {"funding_in_progress", "failed"}
      [] s = "funding_in_progress"  -> {"executing_on_meteora", "failed"}
      [] s = "executing_on_meteora" -> {"indexing", "failed"}
      [] s = "indexing"             -> {"active", "completed", "failed"}
      [] s = "active"               -> {"claiming", "withdrawing", "closing"}
      [] s = "claiming"             -> {"indexing", "completed", "failed"}
      [] s = "withdrawing"          -> {"closing", "failed"}
      [] s = "closing"              -> {"indexing", "completed", "failed"}
      [] s \in {"completed", "failed"} -> {}]

\* canTransition
CanTransition(from, to) == from \in States /\ to \in Transitions[from]

VARIABLE state

Init == state = NoState

\* The row is created awaiting a signature; every later move is in the table.
Create == state = NoState /\ state' = "awaiting_signature"
Advance == \E s \in States : CanTransition(state, s) /\ state' = s

Next == Create \/ Advance
Spec == Init /\ [][Next]_state
=============================================================================
