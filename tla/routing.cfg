SPECIFICATION FairSpec
CONSTANTS
  a1 = a1
  a2 = a2
  a3 = a3
  Call = {c1, c2}
  Request = {c1}
  Alias <- MCAlias
  MaxFailures = 2
  MaxAgentFailures = 1
INVARIANTS BreakerConsistent AnswersCount
PROPERTY EveryCallReturns
CHECK_DEADLOCK FALSE
