SPECIFICATION Spec
CONSTANTS
  Sessions = {s1, s2}
  Places = {p1}
  Exports = {e1}
  MaxToggles = 2
  Observed = FALSE
  Nobody = Nobody
INVARIANTS NoPanic OffRetainsNothing
PROPERTY CallersAreAnswered
CHECK_DEADLOCK FALSE
