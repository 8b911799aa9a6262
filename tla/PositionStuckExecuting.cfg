SPECIFICATION FairSpec
CONSTANTS
  Requests = {r1}
  WorkerEnabled = TRUE
  SavesInOrder = TRUE
  MaxCrashes = 1
  AwaitsMayThrow = FALSE
PROPERTY ExecutingResolves
