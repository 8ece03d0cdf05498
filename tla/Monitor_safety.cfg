SPECIFICATION Spec
CONSTANTS
  Configs <- MCConfigs
  MaxPlugs = 3
  MaxCrashes = 1
  Stops = 0
  HandshakeMayFail = TRUE
  TasksMayFail = TRUE
  PartsMayFail = TRUE
  PartsMayLinger = TRUE
  WatcherMayLinger = FALSE
INVARIANTS
  TypeOK
  RunningIsHeld
  ArmedTells
