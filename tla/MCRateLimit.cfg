SPECIFICATION RateSpec
CONSTANTS
  p1 = p1
  p2 = p2
  b1 = b1
  b2 = b2
  NoCall = NoCall
  Callers = {p1, p2}
  Buckets = {b1, b2}
  Limit = 2
  WindowSeconds = 3
  Lag = 1
  MaxClock = 5
SYMMETRY Sym
INVARIANTS RateInv WindowLimit NoEarlyRefusal
CHECK_DEADLOCK FALSE
