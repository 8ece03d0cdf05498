SPECIFICATION Spec
CONSTANTS
  Clients = {lock, hello}
  Detector = lock
  MaxCalls = 1
  TimeoutsHappen = TRUE
  ScheduledOnly = TRUE
  RetryCount = 2
  UserUnlocks = TRUE
  MaxLocks = 2
INVARIANTS
  TypeOK
  UnlocksWithinRetry
CHECK_DEADLOCK FALSE
