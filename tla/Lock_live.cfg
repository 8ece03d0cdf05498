SPECIFICATION FairSpec
CONSTANTS
  Clients = {lock, hello}
  Detector = lock
  MaxCalls = 1
  TimeoutsHappen = FALSE
  ScheduledOnly = FALSE
  RetryCount = 2
  UserUnlocks = FALSE
  MaxLocks = 1
PROPERTIES
  LockGetsUnlock
  RetriesOnlyIfLocked
CHECK_DEADLOCK FALSE
