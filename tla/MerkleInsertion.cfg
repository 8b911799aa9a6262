SPECIFICATION Insertion
CONSTANTS
  c1 = c1
  c2 = c2
  c3 = c3
  c4 = c4
  Commitments = {c1, c2, c3, c4, c5, c6, c7, c8, c9}
  Zero = zero
  Levels = 3
  Hash <- FreeHash
CHECK_DEADLOCK FALSE
SYMMETRY Interchangeable
INVARIANTS
  CacheMatchesTree
  EveryLeafProvable
