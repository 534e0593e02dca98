CONSTANTS
  Threads = {t1, t2}
  Streams = {s1, s2}
  Dirs = {d1, d2}
  Cells = {c1, c2, c3}
  Last = 2
  Block = 1
  NoThread = NoThread
  NULL = NULL
SPECIFICATION Spec
INVARIANTS IInv NoLeak HandedIntact
SYMMETRY Symmetry
CHECK_DEADLOCK FALSE
