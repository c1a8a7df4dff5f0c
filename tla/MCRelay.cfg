SPECIFICATION FairSpec
CONSTANTS
  m1 = m1
  m2 = m2
  Messages <- TwoMessages
  N = 2
  QueueCap = 2
  MaxRetry = 2
  FloatLimit = 2
  MaxFaults = 2
INVARIANTS RelayInv NeverForgotten CopiesBounded
PROPERTY DeliveredUnlessRefused
CHECK_DEADLOCK FALSE
