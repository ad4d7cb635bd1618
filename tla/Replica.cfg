SPECIFICATION Spec
CONSTANTS
  t1 = t1
  t2 = t2
  Threads = {t1, t2}
  None = None
  TailSize = 2
  PageSize = 2
  Capacity = 1
  InitLen <- MCInitLen
  InitSaved <- MCInitSaved
  MaxAppends = 2
  MaxUses = 1
  MaxFaults = 1
CHECK_DEADLOCK FALSE
INVARIANTS
  ReplicaIsPiece
  ShowsSelectedThread
