SPECIFICATION Spec
CONSTANTS
  n1 = n1
  n2 = n2
  root1 = root1
  alice = alice
  bob = bob
  dec1 = dec1
  hex1 = hex1
  dec2 = dec2
  Requests = {q1, q2}
  Nullifiers = {n1, n2}
  Hashes = {dec1, hex1, dec2}
  Roots = {root1}
  Recipients = {alice, bob}
  BigInt <- MCBigInt
  Decimal <- MCDecimal
  Asks <- MCAsks
  MaxAttempts = 2
  MinAnonymitySet = 1
  InitialLeaves = 2
  MaxLeaves = 2
  MaxSlot = 2
  MaxCrashes = 1
  SelfWithdrawals = TRUE
  HydrateMayMiss = TRUE
  Lag = 1
  Delay = 2
  Nobody = nobody
CHECK_DEADLOCK FALSE
SYMMETRY Interchangeable
INVARIANTS
  OneServed
  SpentMemoryTrue
  PaidAsAnswered
  DelayHeld
