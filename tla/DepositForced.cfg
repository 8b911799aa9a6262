SPECIFICATION Spec
CONSTANTS
  Wallets = {w1, w2}
  NoWallet = NoWallet
  ActiveBins <- MCActiveBins
  NoBin <- MCNoBin
  Dragged <- MCDragged
  Devnet = TRUE
  TestRange <- MCTestRange
  MaxRuns = 2
  MaxPicks = 2
SYMMETRY Symmetry
INVARIANT NeverForced
