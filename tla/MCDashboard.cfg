SPECIFICATION FairSpec
CONSTANTS
  b1 = b1
  t1 = t1
  a1 = a1
  NoHash = NoHash
  Browsers = {b1}
  Tasks = {t1}
  Agents = {a1}
  Owner <- MCOwner
  KeepMax = 2
  KeepLast = 1
  OldFiles <- MCOldFiles
  OldEntries = 2
  Budgets <- MCBudgets
INVARIANTS TypeOK DiscussionInStep NoChangeUntold
PROPERTIES BoardConverges EventsShown
CHECK_DEADLOCK FALSE
