SPECIFICATION Spec
CONSTANTS
  r1 = r1
  Runs = {r1}
  Workers = {w1, w2}
  Callers = {c1, c2}
  Tasks <- Two
  MaxActive = 2
  MaxPerParent = 2
  MaxOps = 2
  MaxRestarts = 1
  MaxFaults = 1
  None = None
SYMMETRY Symmetric
CHECK_DEADLOCK FALSE
INVARIANTS
  HandlesAreLive
  RunningHasTask
PROPERTIES
  EndedStays
