SPECIFICATION Spec
CONSTANTS
  m1 = m1
  m2 = m2
  Messages <- TwoMessages
  N = 2
  QueueCap = 4
  MaxRetry = 2
  FloatLimit = 2
  MaxFaults = 2
INVARIANT NoVerifiedEventLost
CHECK_DEADLOCK FALSE
