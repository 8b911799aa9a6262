--------------------------- MODULE MCStealthFlows ---------------------------
(* Instances of StealthFlows for TLC: one unit is the reserve.             *)
EXTENDS StealthFlows
=============================================================================
