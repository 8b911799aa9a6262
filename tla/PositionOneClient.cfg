SPECIFICATION Spec
CONSTANTS
  Requests = {r1}
  WorkerEnabled = FALSE
  SavesInOrder = FALSE
  MaxCrashes = 1
  AwaitsMayThrow = TRUE
INVARIANTS
  AtMostOnce
  StageIsTrue
PROPERTIES
  FollowsMachine
  TerminalIsFinal
