CONSTANTS
  Fds = {fd1, fd2}
  Descs = {d1, d2}
  PIPE = PIPE
  NONE = NONE
  Paths <- SomePaths
  Objects = {shm}
  FlagSets <- SomeFlagSets
  Locked <- SomeLocked
SPECIFICATION Spec
INVARIANT TypeOK
PROPERTY ImplementsLinux
CHECK_DEADLOCK FALSE
SYMMETRY Symmetry
