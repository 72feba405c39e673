SPECIFICATION FairSpec
CONSTANTS
  s1 = s1  s2 = s2  b1 = b1  l1 = l1  l2 = l2  c1 = c1  c2 = c2  w1 = w1
  Ops = {b1}
  BatchOps = {b1}
  ItemCount = 2
  Lanes = {l1, l2}
  Cancellers = {c1}
  Waiters = {w1}
  MaxTerminal = 1
  Worker = Worker  Shutdown = Shutdown  Nobody = Nobody
INVARIANTS BatchAccounting WaiterHearsEverything
PROPERTIES NoCommitAfterCancellation BatchSettlesUnlessCancelledLast
CHECK_DEADLOCK FALSE
