SPECIFICATION Spec
CONSTANTS
  p1 = p1
  p2 = p2
  p3 = p3
  p4 = p4
  Processes <- ThreeProcesses
  Nobody = Nobody
  SoleTakeover = FALSE
  MaxCrashes = 1
CHECK_DEADLOCK FALSE
INVARIANT
  MutualExclusion
