CONSTANTS
  n1 = n1
  t1 = t1
  Nodes <- MCNodes
  TaskIds <- MCOneTask
  KeepLast = 1
  MaxId = 2
  MaxFaults = 2
SPECIFICATION Spec
INVARIANTS
  VaultInv
  AckedDurable
  TaskFilesMatchState
  AuditIsPrefix
  DamageDetected
  NoFalseAlarm
  SnapshotUnlessInterrupted
PROPERTIES
  TaskNeverLost
  RevocationSticks
  ImplementsAuditedLog
