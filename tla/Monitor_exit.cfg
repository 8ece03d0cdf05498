SPECIFICATION FairSpec
CONSTANTS
  Configs <- MCConfigs
  MaxPlugs = 2
  MaxCrashes = 0
  Stops = 2
  HandshakeMayFail = FALSE
  TasksMayFail = FALSE
  PartsMayFail = TRUE
  PartsMayLinger = TRUE
  WatcherMayLinger = FALSE
INVARIANTS
  ExitLeavesNoTask
PROPERTIES
  UnpluggedIsDisarmed
  PluggedIsServed
CHECK_DEADLOCK FALSE
