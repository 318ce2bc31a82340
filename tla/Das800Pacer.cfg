SPECIFICATION Spec
CONSTANTS
  Half = 128
  Base = 4
  MaxCount = 16
  Speed = 16
  MaxTests = 2
CONSTANTS
  Requests <- MCRequests
  Others <- MCOthers
INVARIANTS
  PeriodIsBest
  SecondTestAccepts
  BoardKeepsPace
