SPECIFICATION StreamSpec
CONSTANTS
  Threads = {t1, t2, t3}
  Snapshots = {queued, succeeded}
  MaxRevision = 3
  Operation = operation
  Terminal = {succeeded}
  Callers = {c1, c2}
  Capacity = 2
INVARIANTS NothingStranded StreamIsContiguous RemovedStaysAway
PROPERTIES ImplementsLog ActivityCatchesUp
CHECK_DEADLOCK FALSE
