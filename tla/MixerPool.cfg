SPECIFICATION Spec
CONSTANTS
  n1 = n1
  n2 = n2
  n3 = n3
  x = x
  y = y
  user = user
  relay = relay
  Notes = {n1, n2, n3}
  Nullifiers = {x, y}
  NullifierOf <- MCNullifierOf
  Wallets = {user, relay}
  Pool = pool
  Admin = user
  NoKey = nokey
  Denomination = 3
  RentMin = 1
  InitialLamports = 7
  Gifts = {2}
  Terms <- MCTerms
  U64 = 4
  Shifts = {0, 1}
  RootHistorySize = 2
  MaxLeaves = 3
  MaxProofs = 2
CHECK_DEADLOCK FALSE
INVARIANTS
  TypeOK
  Solvent
  NoDoubleSpend
  PaidAsProved
  RecentRootsKnown
  NoNoteLocked
PROPERTY ImplementsLedger
