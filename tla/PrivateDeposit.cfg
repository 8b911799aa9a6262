SPECIFICATION Spec
CONSTANTS
  Runs = {r1, r2, r3}
  Outcomes = {"landed", "erred", "expired"}
  FailsAt <- Steps
  PrivacyDelay = TRUE
  RootHistorySize = 2
  HydrateMayMiss = TRUE
  MaxRestarts = 1
CHECK_DEADLOCK FALSE
SYMMETRY Interchangeable
INVARIANTS
  ServedInOrder
  StoredIsOpen
