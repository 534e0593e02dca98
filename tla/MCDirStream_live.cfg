CONSTANTS
  Threads = {t1, t2}
  Streams = {s1, s2}
  Dirs = {d1}
  Cells = {c1, c2}
  Last = 2
  Block = 2
  NoThread = NoThread
  NULL = NULL
SPECIFICATION FairSpec
PROPERTIES ClosedirEnds
CHECK_DEADLOCK FALSE
