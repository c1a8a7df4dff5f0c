SPECIFICATION Spec
CONSTANTS
  n1 = n1
  n2 = n2
  c1 = c1
  c2 = c2
  c3 = c3
  r1 = r1
  h1 = h1
  Nodes <- OneNode
  Conns <- ThreeConns
  Requests = {r1}
  Challenges = {h1}
  NoNode = NoNode
  MaxConns = 1
INVARIANTS CapHolds
