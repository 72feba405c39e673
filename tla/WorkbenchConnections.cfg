SPECIFICATION Spec
CONSTANTS
  c1 = c1  c2 = c2  r1 = r1  r2 = r2  b1 = b1  b2 = b2  b3 = b3  q1 = q1
  Conns = {c1, c2}
  Roots = {r1, r2}
  Binds = {b1, b2, b3}
  Requests = {q1}
  QueueCapacity = 1
  Lagging = {}
  Leaving = {}
  ShutsDown = TRUE
  Changing = {}
  MaxRevision = 1
  Nobody = Nobody
INVARIANTS BindingsAgree LeaseKeepsBinding
SYMMETRY Symmetry
CHECK_DEADLOCK FALSE
