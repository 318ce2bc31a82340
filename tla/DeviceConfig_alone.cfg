SPECIFICATION MemorySpec
CONSTANTS
  Devices = {d1, d2}
  Drivers = {m1, m2}
  None = None
  MaxOpen = 2
  ConfigAlone = TRUE
  AutoDevices = {d2}
  Pages = {p1, p2, p3}
  DefaultPages = 1
  MaxPages = 2
  MaxMaps = 2
  NumMinors = 1
  ProbeAlone = TRUE
SYMMETRY Symmetry
INVARIANTS
  TypeOK
  RefsCountOpens
  UnusedIsClosed
  MappedStaysAllocated
  DmaStaysInBuffer
  MinorsFollowDevices
PROPERTY
  NoDetachInUse
