SPECIFICATION FairPushSpec
CONSTANTS
  Clients = {updater, lock}
  Pusher = updater
  MaxCalls = 3
  TimeoutsHappen = TRUE
  Chunks = 2
  Hash = 2
INVARIANTS
  PushTypeOK
  DeafForAHash
PROPERTIES
  PushEnds
  CallsReturn
CHECK_DEADLOCK FALSE
