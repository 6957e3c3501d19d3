SPECIFICATION Spec
CONSTANTS
  w1 = w1
  w2 = w2
  p1 = p1
  Workers <- TwoWorkers
  Readers <- NoReaders
  Pages <- OnePage
  Methods <- AllButList
  MaxEpoch = 2
  LateEvents = TRUE
  SharedSlots = FALSE
  NoWorker = NoWorker
  NoPage = NoPage
SYMMETRY AlikeWorkers
INVARIANTS
  NoLostWakeup
  WorkflowTrust
PROPERTIES
  FailClosed
  FreshPerception
  KeepsEpochs
\* Once every worker has ended there is nothing left to do.
CHECK_DEADLOCK FALSE
