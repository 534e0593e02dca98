CONSTANTS
  Threads = {t1, t2, t3}
  Mutexes = {m1}
  Objects = {o1, o2}
  NoThread = NoThread
  NULL = NULL
  DESTROYED = DESTROYED
  StaticKinds = {0, 1}
  AttrKinds = {1, 4}
  MaxDepth = 2
  AllocFails = FALSE
SPECIFICATION FairSpec
PROPERTIES ImplementsPosix LazyInitTerminates
CHECK_DEADLOCK FALSE
