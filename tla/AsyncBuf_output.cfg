SPECIFICATION Spec
CONSTANTS
  Half = 8
  BufSz = 6
  SampleSz = 2
  ChanLen = 3
  Munges = TRUE
  MaxReq = 7
  WriteUnit = 1
  ReadUnit = 2
INVARIANTS
  DataIntact
  NothingLeftUnmunged
  SampleAccessInBounds
PROPERTY
  ImplementsByteStream
