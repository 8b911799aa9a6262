SPECIFICATION FairSpec
CONSTANTS
  Requests = {r1}
  WorkerEnabled = TRUE
  SavesInOrder = TRUE
  MaxCrashes = 0
  AwaitsMayThrow = FALSE
PROPERTY IndexingResolves
