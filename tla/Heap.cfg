CONSTANTS
  MaxHeap = 17
  SizeBits = 6
  Sizes = {1, 2, 7, 13, 20}
  Fitting = TRUE
  MaxLive = 3
SPECIFICATION FairSpec
CHECK_DEADLOCK FALSE
INVARIANTS TypeOK LiveDisjoint HeapSound Coalesced
PROPERTY CallsReturn
