CONSTANTS
  Signals <- SomeSignals
  Handlers = {h}
  DFL = DFL
  IGN = IGN
  NONE = NONE
  FlagSets <- SomeFlagSets
  MaxDepth = 1
  SignalFaults = TRUE
SPECIFICATION Spec
INVARIANT FaultsAreDefault 

CHECK_DEADLOCK FALSE
