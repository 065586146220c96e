SPECIFICATION RunsFairSpec
CONSTANTS
  Process = {1, 2}
  Run = {r}
  MaxAttempts = 2
  MaxSteers = 1
INVARIANTS RunningHasWorker SteeredOnce
PROPERTY RunEnds
CHECK_DEADLOCK FALSE
