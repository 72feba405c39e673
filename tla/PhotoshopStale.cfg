SPECIFICATION Spec
CONSTANTS
  Sessions = {s1}
  Places = {p1}
  Exports = {}
  MaxToggles = 0
  Observed = TRUE
  Nobody = Nobody
INVARIANTS ClosedIsWithdrawn
CHECK_DEADLOCK FALSE
