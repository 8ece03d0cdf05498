SPECIFICATION StorageSpec
CONSTANTS
  Event = {boot, unlock}
  BootEvent = boot
  Blank = blank
  Capacity = 2
  CloseMayFail = FALSE
INVARIANTS
  StorageTypeOK
  StoredIsRunning
  PinAgrees
PROPERTIES
  WrittenSurvives
  RefinesHistory
