SPECIFICATION FairSpec
CONSTANTS
  c1 = c1  c2 = c2  r1 = r1  r2 = r2  b1 = b1  b2 = b2  b3 = b3  q1 = q1
  Conns = {c1, c2}
  Roots = {r1}
  Binds = {b1, b2}
  Requests = {}
  QueueCapacity = 1
  Lagging = {c1}
  Leaving = {c1}
  ShutsDown = FALSE
  Changing = {r1}
  MaxRevision = 3
  Nobody = Nobody
INVARIANTS NoGap
PROPERTIES DisplacedIsTold StreamKeepsUp EveryBindReturns
CHECK_DEADLOCK FALSE
