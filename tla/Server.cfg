SPECIFICATION Spec
CONSTANTS
  NULL = NULL
  Requests = {r1, r2}
  Connections = {n1}
  Faults = TRUE
CHECK_DEADLOCK FALSE
INVARIANT TypeOK
INVARIANT FailedLeavesNothing
INVARIANT NobodyCutOff
INVARIANT ConnectionsOfTransactions
PROPERTY EveryRequestAnswered
PROPERTY InterruptEnds
