SPECIFICATION Spec
CONSTANTS
  alice = alice
  bob = bob
  Wallets = {alice, bob}
  Approved = {alice, bob}
  Requests = {r1}
  Amounts = {2, 3}
  MaxPositionSol = 2
  MaxPositionsPerWallet = 1
  MaxGlobalTvl = 3
  NonceTtl = 1
  MaxNonces = 3
  MaxPositions = 3
  MaxTime = 2
  MaxCrashes = 1
CHECK_DEADLOCK FALSE
SYMMETRY Interchangeable
INVARIANT WithinBetaCaps
