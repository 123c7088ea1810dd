CONSTANTS
  WordBits = 12
  Vectors = {0, 1, 2, 3, 4, 5, 6, 7, 8, 9, 10, 11, 12, 13, 14, 15, 16, 17}
  Addresses = {0, 10, 256, 4095}
  Times <- MCTimes
  Numbers <- MCNumbers
SPECIFICATION FairSpec
CHECK_DEADLOCK FALSE
INVARIANTS TypeOK TextExact FrameRestored
PROPERTY ReportsEnd
