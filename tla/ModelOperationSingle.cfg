SPECIFICATION FairSpec
CONSTANTS
  s1 = s1  s2 = s2  b1 = b1  l1 = l1  l2 = l2  c1 = c1  c2 = c2  w1 = w1
  Ops = {s1, s2}
  BatchOps = {}
  ItemCount = 1
  Lanes = {l1}
  Cancellers = {c1, c2}
  Waiters = {}
  MaxTerminal = 1
  Worker = Worker  Shutdown = Shutdown  Nobody = Nobody
INVARIANTS SinglePublishesIffSucceeds
PROPERTIES EveryOperationSettles ShutdownReturns
CHECK_DEADLOCK FALSE
