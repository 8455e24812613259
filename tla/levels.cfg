SPECIFICATION Spec
CONSTANTS
  Slots = {0}
  Prices = {90, 100, 106}
  Volatilities = {0, 2, 5}
  Configs <- MCConfigs
  Window = 2
  Buffer = 1
INVARIANTS StopBelowTarget OnlyWidenedTrail TargetPays
