CONSTANTS
  Threads = {t1}
  Mutexes = {m1}
  Objects = {o1}
  NoThread = NoThread
  NULL = NULL
  DESTROYED = DESTROYED
  StaticKinds = {0}
  AttrKinds = {4}
  MaxDepth = 1
  AllocFails = FALSE
SPECIFICATION Spec
INVARIANT NoAbort
CHECK_DEADLOCK FALSE
