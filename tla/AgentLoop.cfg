SPECIFICATION Spec
CONSTANTS
  Keys = {k1}
  MaxCalls <- CallsPerStep
  MaxIterations = 3
  MaxRetries = 1
  MaxLength = 1
  MaxStops = 1
  KeepResults = 1
  KeepTurns = 2
  KeepTurnsForced = 1
  WrapUp = TRUE
CHECK_DEADLOCK FALSE
INVARIANTS
  RequestsAreAnswered
  RequestIsKept
  LedgerIsExact
  NotesAreSent
  RanIsRecorded
PROPERTIES
  LoopEnds
