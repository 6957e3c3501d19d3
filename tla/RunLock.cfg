SPECIFICATION FairSpec
CONSTANTS
  p1 = p1
  p2 = p2
  p3 = p3
  p4 = p4
  Processes <- FourProcesses
  Nobody = Nobody
  SoleTakeover = TRUE
  MaxCrashes = 2
CHECK_DEADLOCK FALSE
INVARIANTS
  NothingLeftBehind
PROPERTIES
  KeepsMutex
  AloneGetsIn
  TryEnds
