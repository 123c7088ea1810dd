CONSTANTS
  Lines <- PitKbdRtc
  Events <- Update
  SleepTicks = 3
  TickMod = 16
  StubAt <- Stubs
SPECIFICATION FairSpec
INVARIANTS TypeOK ControlLands InServiceExact NoNesting TicksCounted SleepLongEnough
PROPERTIES ReachesPaging LineServed
