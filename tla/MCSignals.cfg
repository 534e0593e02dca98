CONSTANTS
  Signals <- SomeSignals
  Handlers = {h}
  DFL = DFL
  IGN = IGN
  NONE = NONE
  FlagSets <- SomeFlagSets
  MaxDepth = 1
  SignalFaults = FALSE
SPECIFICATION Spec
INVARIANT TypeOK
PROPERTY ImplementsLinux
CHECK_DEADLOCK FALSE
