SPECIFICATION Spec
CONSTANTS
  n1 = n1
  n2 = n2
  c1 = c1
  c2 = c2
  t1 = t1
  t2 = t2
  AnyNode = AnyNode
  NoCall = NoCall
  Nodes <- MCNodes
  Codes <- MCCodes
  Tokens <- MCTokens
  MaxFaults = 3
SYMMETRY Sym
INVARIANTS MembershipInv CodeSpentOnce RevokedNeverReturns StruckIsOut MemberStaysIn
CHECK_DEADLOCK FALSE
