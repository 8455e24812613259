SPECIFICATION Spec
CONSTANTS
  Configs <- MCConfigs
  Keys = {"pause", "regime_cycle", "reload"}
  Detections <- MCRegimes
  LongTrend = {TRUE, FALSE}
  Cold = 2
  MaxCount = 2
  Restored = {"TRENDING"}
  MaxHeld = 1
INVARIANTS ZeroPriceClosesGate
