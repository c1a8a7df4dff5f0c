CONSTANTS
  a = a
  b = b
  c = c
  NaN = NaN
  Nonces <- MCThreeNonces
  Window = 1
  NonceLimit = 2
  MaxTime = 6
  MaxBack = 3
  MaxEnvelopes = 3
  MaxFaults = 1
SYMMETRY Sym3
SPECIFICATION Spec
INVARIANTS
  TrustInv
  NoReplay
