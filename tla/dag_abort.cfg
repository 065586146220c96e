\* One process cancels a DAG of one step whose agent is at work.
SPECIFICATION FairSpec
CONSTANTS
  Step <- Steps1
  DependsOn <- Deps1
  Gate <- Gate1
  Refs <- Refs1
  FailFast = TRUE
  MaxRetries = 1
  Proc = {"p1"}
  MaxStarts = 1
CHECK_DEADLOCK FALSE
PROPERTY
  AbortedEndsCancelled
