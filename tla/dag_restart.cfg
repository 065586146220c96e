\* One pi process, one crash and restart, two retries; the coordinator as it is.
SPECIFICATION FairSpec
CONSTANTS
  Step <- Steps4
  DependsOn <- Deps4
  Gate <- Gate4
  Refs <- Refs4
  FailFast = TRUE
  MaxRetries = 2
  Proc = {"p1"}
  MaxStarts = 2
CHECK_DEADLOCK FALSE
INVARIANTS
  TypeOK
  WaveBarrier
  NeedsGate
  SkipJustified
  VerdictSound
  RetryBudget
  ProgressHonest
  OwnedWhileRunning
  CancelledIsClean
PROPERTIES
  SettledIsFinal
  CancelStopsLaunches
  ImplementsContract
  DagSettles
