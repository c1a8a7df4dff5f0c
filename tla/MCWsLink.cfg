SPECIFICATION FairSpec
CONSTANTS
  s1 = s1
  s2 = s2
  s3 = s3
  e1 = e1
  Self = Self
  NoNode = NoNode
  NoWs = NoWs
  Conns = {s1, s2, s3}
  MaxConns = 1
  Events = {e1}
  Many = 2
  MaxFaults = 2
INVARIANT LinkInv
PROPERTIES LinkRecovers RefusedForOpenSockets
CHECK_DEADLOCK FALSE
