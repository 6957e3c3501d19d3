SPECIFICATION MemorySpec
CONSTANTS
    a = a
    b = b
    t1 = t1
    t2 = t2
    Workers <- MCWorkers
    Tasks <- MCTasks
    Contracts <- MCContracts
    OldWorker = OldWorker
    OldTask = OldTask
    Skew <- MCSkew
    TTL = 2
    RunningCap = 1
    HistoryCap = 2
    MaxTime = 3
    MaxFaults = 1
    Origins <- MCOrigins
    LaxCreate = FALSE
INVARIANTS
    LiveLeaseClosesFleet
    NeverPromoted
    TerminalStands
PROPERTY CompletedStands
\* Once every worker is over and the clock stops, nothing is left to do.
CHECK_DEADLOCK FALSE
