CONSTANTS
  Threads = {t1, t2}
  Mutexes = {m1, m2}
  Objects = {o1, o2, o3}
  NoThread = NoThread
  NULL = NULL
  DESTROYED = DESTROYED
  StaticKinds = {0, 1}
  AttrKinds = {1, 4}
  MaxDepth = 2
  AllocFails = TRUE
SPECIFICATION Spec
SYMMETRY Symmetry
INVARIANTS IInv MutualExclusion OwnershipAgrees KindFidelity NoOrphanObject
PROPERTY PointerStays
CHECK_DEADLOCK FALSE
