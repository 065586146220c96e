SPECIFICATION FairSpec
CONSTANT Caller = {c1, c2, c3}
INVARIANTS SharedOnlyAfterAbort FoundIsConnected LeakNeedsFailedCreation
PROPERTY EveryCallSettles
CHECK_DEADLOCK FALSE
