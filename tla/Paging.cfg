CONSTANTS
  Pages = {g1, g2, g3, g4, g5}
  PageSize = 2
  Entries = 2
  Tables = 8
  kmap <- MCkmap
SPECIFICATION FairSpec
CHECK_DEADLOCK FALSE
INVARIANTS TypeOK OnePurpose
PROPERTY Returns
