SPECIFICATION Spec
CONSTANTS
  Directions = {"input"}
  t1 = t1
  t2 = t2
  t3 = t3
  f1 = f1
  f2 = f2
  Threads = {t1}
  Files = {f1, f2}
  FileOf <- ReaderFile
  Uses <- ReaderUses
  Cap = 2
  None = None
  ParseInsn = ParseInsn
PROPERTY
  CommandEndsDrained
