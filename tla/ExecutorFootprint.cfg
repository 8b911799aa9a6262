SPECIFICATION Spec
CONSTANTS
  p1 = p1
  p2 = p2
  Stealths = {s1}
  Others = {p1}
  Pools = {p1, p2}
  SolIsTokenX <- MCSolIsTokenX
  PositionKeys = {n1, n2}
  Admin = admin
  Asked <- MCTenBins
  ActiveBins <- MCActiveBins
  Amounts = {1}
  Purse = 1
  NoAuthority = noauthority
  NoPosition = noposition
  Nobody = nobody
  MaxTrades = 1
INVARIANT DepositAsAsked
