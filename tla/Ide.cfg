CONSTANTS
  BARs <- Standard
  Drives <- OneDrive
  Pairs <- LastPair
  Values <- TwoBytes
  Errors <- SomeErrors
SPECIFICATION FairSpec
INVARIANTS TypeOK TaskFileExact AnswerFresh
PROPERTY PollReturns
