SPECIFICATION RemovalSpec

CONSTANTS
  Workers = {w1}
  Updates = {u1}
  ControlRemovers = {c1}
  HttpRemovers = {h1}
  Quitters = {q1}
  Activations = {a1}
  Connections = {k1}
  Nobody = Nobody
  MaxFaults = 1

INVARIANTS
  CommitRunsAlone
  EveryConnectionHears
  RemovalLosesNothing

PROPERTY
  RequestsSettleUnlessBlocked

CHECK_DEADLOCK FALSE
