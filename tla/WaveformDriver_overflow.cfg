SPECIFICATION Spec
CONSTANTS
  Directions = {"input"}
  t1 = t1
  f1 = f1
  Threads = {t1}
  Files = {f1}
  FileOf <- ReaderFile
  Uses <- ReaderUses
  Cap = 2
  None = None
  ParseInsn = ParseInsn
INVARIANT
  IdleWhenNotBusy
