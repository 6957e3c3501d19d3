SPECIFICATION StorageSpec
CONSTANTS
    p1 = p1
    p2 = p2
    p3 = p3
    Plan <- MCPlan
    First = p1
    MaxVersion <- MCMaxVersion
    MaxWork <- MCMaxWork
    MaxRuns <- MCMaxRuns
    ModeChange <- MCForward
INVARIANTS
    RunsOnLastSave
    PlanIsOfState
PROPERTY HistoryIsImmutable
CHECK_DEADLOCK FALSE
