SPECIFICATION Spec
CONSTANTS
  w1 = w1
  w2 = w2
  w3 = w3
  e1 = e1
  e2 = e2
  Workers <- ThreeWorkers
  Entries <- TwoEntries
  NoWorker = NoWorker
  NoEntry = NoEntry
  MaxRetired = 2
  MaxGeneration = 1
  SwallowsCancel = TRUE
SYMMETRY Alike
INVARIANTS
  LeasesAccounted
PROPERTIES
  AdmittedInOneEpoch
