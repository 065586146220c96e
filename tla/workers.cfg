SPECIFICATION Spec
CONSTANTS
  Worker = {1, 2}
  Task = {1, 2}
  IdleReports = TRUE
  Talkative = {1}
  MaxEdits = 1
INVARIANTS  HeldByOne
CHECK_DEADLOCK FALSE
