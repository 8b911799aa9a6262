SPECIFICATION Spec
CONSTANTS
  Runs = {r1}
  Outcomes = {"landed"}
  FailsAt = {"init"}
  PrivacyDelay = FALSE
  RootHistorySize = 3
  HydrateMayMiss = FALSE
  MaxRestarts = 0
CHECK_DEADLOCK FALSE
INVARIANT StealthRecoverable
