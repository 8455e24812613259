SPECIFICATION MarketSpec
CONSTANTS
  Records <- MCRecords
  MaxWire = 2
  MaxFiles = 3
INVARIANTS OnlyLostStreamsLeak DrainedBeforeTick
PROPERTIES TicksGoOn QuitEnds
