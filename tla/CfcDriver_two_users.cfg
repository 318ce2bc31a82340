SPECIFICATION Spec
CONSTANTS
  Directions = {"input"}
  t1 = t1
  t2 = t2
  t3 = t3
  f1 = f1
  f2 = f2
  Threads = {t1, t2}
  Files = {f1, f2}
  FileOf <- TwoUsersFile
  Uses <- TwoUsersUses
  Cap = 2
  None = None
  ParseInsn = ParseInsn
INVARIANT
  IdleWhenNotBusy
