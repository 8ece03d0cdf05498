SPECIFICATION Spec
CONSTANTS
  Configs <- MCConfigs
  DefaultConfig <- Scheduled
  SlotsPerDay = 2
  DayModulus = 256
  MaxWall = 2
  WireCap = 1
  FifoCap = 1
  MaxCuts = 0
  FsMayFail = TRUE
INVARIANT TypeOK
PROPERTIES
  BootQuietOnceHeard
  BootTypingsWithinRetry
  OneWakePerDay

