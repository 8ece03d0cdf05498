SPECIFICATION Spec
CONSTANTS
  Clients = {hello, lock}
  Hello = hello
  MaxCalls = 1
  TimeoutsHappen = TRUE
  refused = refused
  fresh = fresh
  other = other
  Apps <- MCApps
  Listed = {}
  Refused = {refused}
  None = none
  Room = 1
  MaxDialogs = 2
  MaxAsked = 3
  MaxLate = 2
SYMMETRY MCSymmetry
INVARIANTS
  TypeOK
  OwnUntilOverdue
  OwnWhenAlone
  NotedReachesDevice
  PinsWithinEscapes
PROPERTIES
  PinForAllowed
CHECK_DEADLOCK FALSE
