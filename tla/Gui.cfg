SPECIFICATION FairSpec
CONSTANTS
  Polls = {p1, p2}
  Jobs = {j1, j2}
  MaxPlugs = 3
INVARIANTS
  TypeOK
PROPERTIES
  ScreenFollowsDevice
CHECK_DEADLOCK FALSE
