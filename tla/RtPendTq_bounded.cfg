SPECIFICATION Spec
CONSTANTS
  Size = 3
  MaxCalls = 9
  MaxWaiting = 3
INVARIANT
  RunsInOrder
PROPERTY
  EveryAcceptedRuns
CHECK_DEADLOCK FALSE
