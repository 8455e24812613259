SPECIFICATION FairSpec
CONSTANTS
  Configs <- MCConfigs
  Keys = {"pause", "regime_cycle", "reload"}
  Detections = {"TRENDING", "TRENDING_DOWN"}
  LongTrend = {TRUE, FALSE}
  Cold = 2
  MaxCount = 2
  Restored = {"TRENDING"}
  MaxHeld = 1
INVARIANT StrategyFollowsRegime
PROPERTIES HysteresisRespected BuyingResumes
