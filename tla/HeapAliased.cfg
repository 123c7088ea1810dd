CONSTANTS
  MaxHeap = 17
  SizeBits = 6
  Sizes = {1, 2}
  Fitting = FALSE
  MaxLive = 3
SPECIFICATION Spec
CHECK_DEADLOCK FALSE
INVARIANT LiveDisjoint
