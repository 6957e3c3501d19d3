SPECIFICATION Spec
CONSTANTS
  None = None
  PageLimit = 1
  PageBudget = 2
  MaxEvents = 3
  MaxClients = 4
CHECK_DEADLOCK FALSE
INVARIANTS
  NothingMissed
PROPERTIES
  CursorForward
