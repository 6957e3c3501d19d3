SPECIFICATION FairSpec
CONSTANTS
  w1 = w1
  w2 = w2
  p1 = p1
  Workers <- TwoWorkers
  Readers <- OneWorker
  Pages <- OnePage
  Methods <- ReadingMethods
  MaxEpoch = 1
  LateEvents = FALSE
  SharedSlots = FALSE
  NoWorker = NoWorker
  NoPage = NoPage
INVARIANTS
  ResolverAlive
PROPERTIES
  ReperceptionEnds
\* Once every worker has ended there is nothing left to do.
CHECK_DEADLOCK FALSE
