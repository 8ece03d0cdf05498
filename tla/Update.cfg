SPECIFICATION UpdateSpec
CONSTANTS
  MaxRelease = 3
  MaxExits = 2
INVARIANTS
  UpdateTypeOK
  WholeCopy
  TakenOrFailed
CHECK_DEADLOCK FALSE
