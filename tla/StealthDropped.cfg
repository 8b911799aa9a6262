SPECIFICATION Spec
CONSTANTS
  Denoms = {3, 5}
  RelayerFee = 1
  Reserve = 2
  SweepFee = 1
  TopUp = 2
  Slip = 1
  Funded = 4
  FailsOnChain = TRUE
  Version = "v2"
  MaxTrades = 1
  MaxRuns = 3
  MaxShared = 0
  MaxLate = 1
CHECK_DEADLOCK FALSE
INVARIANT DroppedIsEmpty
