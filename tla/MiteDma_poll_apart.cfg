SPECIFICATION Spec
CONSTANTS
  Half = 8
  BufSz = 2
  FifoSz = 2
  AiFifoSz = 2
  Unit = 2
  MaxLead = 1
  StopCount = 3
  Forever = Forever
  ConcurrentPoll = FALSE
INVARIANTS
  OnlyTransferredIsFreed
  AllocatedIsFree
  CleanEndIsComplete
PROPERTIES
  OverrunIsReported
  OverrunEndsCommand
CHECK_DEADLOCK FALSE
