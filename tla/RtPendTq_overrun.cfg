SPECIFICATION Spec
CONSTANTS
  Size = 3
  MaxCalls = 9
  MaxWaiting = 4
INVARIANT
  RunsInOrder
CHECK_DEADLOCK FALSE
