SPECIFICATION Spec
CONSTANTS
  Lifespan = 2
  Offsets <- SomeOffsets
  Validities <- SomeValidities
  Steps <- SomeSteps
  MaxTime = 4500
  TimerRange = 1000000
CHECK_DEADLOCK FALSE
INVARIANTS ValidLongEnough RefreshedWhenNeeded CalledOnTime
