SPECIFICATION Spec
CONSTANTS
  Denoms = {3, 5}
  RelayerFee = 1
  Reserve = 2
  SweepFee = 1
  TopUp = 2
  Slip = 1
  Funded = 4
  FailsOnChain = FALSE
  Version = "v2"
  MaxTrades = 0
  MaxRuns = 3
  MaxShared = 3
  MaxLate = 0
CHECK_DEADLOCK FALSE
INVARIANT ClosedStaysClosed
