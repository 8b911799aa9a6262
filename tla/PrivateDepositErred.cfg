SPECIFICATION Spec
CONSTANTS
  Runs = {r1}
  Outcomes = {"landed", "erred", "expired"}
  FailsAt = {}
  PrivacyDelay = FALSE
  RootHistorySize = 3
  HydrateMayMiss = FALSE
  MaxRestarts = 0
CHECK_DEADLOCK FALSE
INVARIANT StoredIsTrue
