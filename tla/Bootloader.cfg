SPECIFICATION Spec
CONSTANTS
  old = old
  new = new
  Firmware <- Two
  Size <- Fitting
  Pages = 6
  SectorPages = 2
  MaxCuts = 3
INVARIANTS
  TypeOK
  UnconfirmedRunsOnce
  IntactUnlessFromB
PROPERTY RollbackOnlyUnconfirmed
