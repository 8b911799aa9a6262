SPECIFICATION FairSpec
CONSTANTS
  Runs = {r1}
  Outcomes = {"landed"}
  FailsAt = {}
  PrivacyDelay = TRUE
  RootHistorySize = 3
  HydrateMayMiss = FALSE
  MaxRestarts = 0
CHECK_DEADLOCK FALSE
PROPERTY Served
