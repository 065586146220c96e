\* Two DAGs of two steps, one process, one operation cut short.
SPECIFICATION Spec
CONSTANTS
  Dag = {"d1", "d2"}
  Step = {"a", "b"}
  Proc = {"p1"}
  MaxCrashes = 1
CHECK_DEADLOCK FALSE
INVARIANTS
  IndexNeverAhead
  ExactWhileUnharmed
