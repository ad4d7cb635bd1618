SPECIFICATION Spec
CONSTANTS
  Exchanges = {e1}
  Runs = {r1, r2}
  OriginRuns = {o1, o2}
  Cancellable = {}
  MaxRestarts = 0
  NoMail = NoMail
  NoRun = NoRun
INVARIANTS
  RunningMailHasRun
