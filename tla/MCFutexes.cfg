CONSTANTS
  Threads = {t1, t2, t3}
  Uppers <- SomeUppers
SPECIFICATION FairSpec
INVARIANTS NoLostWakeUp WaitsAreUnderstood
PROPERTIES SleepersGo
CHECK_DEADLOCK FALSE
