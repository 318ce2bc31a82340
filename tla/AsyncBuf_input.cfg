SPECIFICATION Spec
CONSTANTS
  Half = 8
  BufSz = 6
  SampleSz = 2
  ChanLen = 3
  Munges = TRUE
  MaxReq = 7
  WriteUnit = 2
  ReadUnit = 1
INVARIANTS
  TypeOK
  CountsOrdered
  WriterWithinBounds
  PointersTrackCounts
  DataIntact
  NothingLeftUnmunged
  SampleAccessInBounds
  FreeSpaceExact
PROPERTY
  ImplementsByteStream
