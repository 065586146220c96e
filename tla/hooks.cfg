SPECIFICATION HooksFairSpec
CONSTANTS
  Event = {1, 2}
  Kind <- KindOf
  Slot = {s1, s2, s3}
  MaxSocketRetries = 2
  MaxReconnectAttempts = 1
  RingSize = 1
  CriticalCap = 2
  MaxFaults = 1
  MaxSent = 2
  Scripted = {1}
  Stubborn = {1}
CHECK_DEADLOCK FALSE
INVARIANTS NeverDeaf OneMessageWithoutFaults
PROPERTY CompletionHandled
