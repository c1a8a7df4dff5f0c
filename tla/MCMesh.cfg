SPECIFICATION Spec
CONSTANTS
  n1 = n1
  n2 = n2
  n3 = n3
  e1 = e1
  Http = Http
  Nodes <- MCNodes
  Events <- MCOneEvent
  Topologies <- MCTopologies
  NonceLimit = 1
  MaxEnvelopes = 4
  MaxLedger = 2
  MaxFaults = 1
INVARIANTS MeshInv CopiesAreRoutes
PROPERTIES OneChance NodesKeepLogs
CHECK_DEADLOCK FALSE
