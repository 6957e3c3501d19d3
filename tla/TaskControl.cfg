\* Three assignments, three workers, two processes and one lost file.
SPECIFICATION Spec
CONSTANTS
  MaxPhases = 3
  MaxWorkers = 3
  MaxRuns = 2
  MaxLost = 1
  Limits = {2}
  NoLimit = 0
  Outcomes <- MCOutcomes
  ReviewEnabled = TRUE
  MaxStartFailures = 2
INVARIANTS
  RunningIsReal
  EvidenceStands
  LineageBudget
PROPERTIES
  DecisionsHold
  HistoryKept
\* A task that is over stays stopped.
CHECK_DEADLOCK FALSE
