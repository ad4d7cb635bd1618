SPECIFICATION Spec
CONSTANTS
  Calls = {c1, c2}
  Clients = {a, b}
  Keys = {k1, k2}
  NoKey = NoKey
  NoCall = NoCall
  MaxRules = 1
  MaxRestarts = 1
SYMMETRY Symmetry
CHECK_DEADLOCK FALSE
INVARIANTS
  AppliedMeansReceived
  RanIsAuthorised
  NothingOpenAfterRun
PROPERTY ImplementsOneDecision
