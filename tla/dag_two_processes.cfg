\* A second pi process starts while the first executes the DAG.
SPECIFICATION FairSpec
CONSTANTS
  Step <- Steps1
  DependsOn <- Deps1
  Gate <- Gate1
  Refs <- Refs1
  FailFast = TRUE
  MaxRetries = 0
  Proc = {"p1", "p2"}
  MaxStarts = 2
CHECK_DEADLOCK FALSE
PROPERTY
  ResetOnlyInterrupted
