SPECIFICATION Spec
CONSTANTS
  Directions = {"input", "output"}
  t1 = t1
  t2 = t2
  t3 = t3
  f1 = f1
  f2 = f2
  Threads = {t1, t2, t3}
  Files = {f1, f2}
  FileOf <- OneUserFile
  Uses <- OneUserUses
  Cap = 2
  None = None
  ParseInsn = ParseInsn
INVARIANTS
  TypeOK
  IdleWhenNotBusy
  AcquiringHasChanlist
  LockExcludesOthers
  InsnExcludesCommand
  NoSleeperLeftBehind
  BoardFollowsRunning
PROPERTIES
  ErrorIsReported
  SleeperReturns
