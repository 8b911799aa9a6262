SPECIFICATION FairSpec
CONSTANTS
  n1 = n1
  n2 = n2
  root1 = root1
  alice = alice
  bob = bob
  dec1 = dec1
  hex1 = hex1
  dec2 = dec2
  Requests = {q1, q2}
  Nullifiers = {n1, n2}
  Hashes = {dec1, hex1, dec2}
  Roots = {root1}
  Recipients = {alice, bob}
  BigInt <- MCBigInt
  Decimal <- MCDecimal
  Asks <- MCOneNote
  MaxAttempts = 2
  MinAnonymitySet = 0
  InitialLeaves = 1
  MaxLeaves = 2
  MaxSlot = 2
  MaxCrashes = 1
  SelfWithdrawals = TRUE
  HydrateMayMiss = FALSE
  Lag = 0
  Delay = 2
  Nobody = nobody
CHECK_DEADLOCK FALSE
INVARIANT PaidAsAnswered
PROPERTY Answered
