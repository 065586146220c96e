\* All 4096 dependency relations over three tasks and one unknown id.
SPECIFICATION AdmissionSpec
CONSTANTS
  Task = {"a", "b", "c"}
  Unknown = {"x"}
CHECK_DEADLOCK FALSE
INVARIANTS
  RejectsExactlyTheInvalid
  SortedIsLayering
PROPERTY
  SubmissionAnswered
