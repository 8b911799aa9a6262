SPECIFICATION Spec
CONSTANTS
  Requests = {r1, r2}
  WorkerEnabled = TRUE
  SavesInOrder = TRUE
  MaxCrashes = 1
  AwaitsMayThrow = TRUE
SYMMETRY Interchangeable
INVARIANTS
  MoneyInOrder
  LandedOnlyIfAdded
  CompletedOnlyIfExited
  NoExecutingRow
PROPERTY AbandonedIsInert
