SPECIFICATION Spec
CONSTANTS
  Runs = {r1, r2}
  Outcomes = {"landed"}
  FailsAt = {}
  PrivacyDelay = FALSE
  RootHistorySize = 3
  HydrateMayMiss = FALSE
  MaxRestarts = 0
CHECK_DEADLOCK FALSE
INVARIANT CacheTrue
