SPECIFICATION Spec
CONSTANTS
  c1 = c1  c2 = c2 
  k1 = k1  k2 = k2
  Callers = {c1, c2}
  Closers = {k1, k2}
  Roots = {r1}
  MaxSignals = 1
  PhotoshopConnected = TRUE
  Nobody = Nobody
INVARIANTS OneSessionPerRoot UseKeepsSession CloseLeavesNothing
PROPERTIES CallsReturnUnlessWedged
CHECK_DEADLOCK FALSE
