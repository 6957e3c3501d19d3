SPECIFICATION FairSpec
CONSTANTS
    Budget <- MCBudget
    MaxRounds <- MCMaxRounds
    MaxCalls <- MCMaxCalls
    MaxPolls <- MCMaxPolls
    MaxTries <- MCMaxTries
INVARIANTS
    GoesOnSafely
    OperatorHeard
PROPERTIES
    LiftedOnEvidence
    WaitReturns
CHECK_DEADLOCK FALSE
