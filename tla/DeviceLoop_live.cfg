SPECIFICATION FairSpec
CONSTANTS
  Configs <- MCConfigs
  DefaultConfig <- Scheduled
  SlotsPerDay = 2
  DayModulus = 256
  MaxWall = 0
  WireCap = 1
  FifoCap = 1
  MaxCuts = 1
  FsMayFail = FALSE
PROPERTIES
  BootUnlockFinishes
  LinesServed
