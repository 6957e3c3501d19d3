SPECIFICATION FairSpec
CONSTANTS
  t1 = t1
  t2 = t2
  t3 = t3
  w1 = w1
  w2 = w2
  p1 = p1
  p2 = p2
  f1 = f1
  f2 = f2
  Tasks <- ThreeTasks
  Workers <- TwoWorkers
  Pages <- TwoPages
  Fleets <- OneFleet
  WorkerOf <- MCWorkerOf
  HomeFleet <- AllHome
  SeedPages <- FirstPage
  StrayPages <- NoPages
  NestKinds <- NestWorkflow
  BusyRelease = FALSE
  NoTask = NoTask
  NoWorker = NoWorker
  NoFleet = NoFleet
INVARIANTS
  Exclusive
  NoLostWakeup
  NothingLeaks
PROPERTIES
  WorkflowGetsIn
  CreationExclusive
