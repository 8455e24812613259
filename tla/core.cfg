SPECIFICATION Spec
CONSTANTS
  NSlots = 2
  PoolCap = 2
  BufCap = 2
  Prices = {1, 2}
  Spacings = {0, 2}
  Configs <- MCConfigs
  WarmupTicks = 1
  MinSamples = 1
  Window = 1
  MaxAge = 1
  LowGain = {TRUE, FALSE}
  Restored <- MCRestored
  RestoredLag = {1}
  RestoredStats <- MCRestoredStats
  MaxBuys = 2
INVARIANTS LotsAccounted NewFillVisible DistinctEntries
PROPERTIES CountersBalance RefinesLedger FillsRespectCap
