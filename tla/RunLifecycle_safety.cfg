SPECIFICATION Spec
SYMMETRY Symmetry
CONSTANTS
  Threads = {t1}
  Runs = {r1, r2}
  Inputs = {i1, i2, i3}
  Deletable = {t1}
  NoThread = NoThread
  NoRun = NoRun
  NoInput = NoInput
INVARIANTS
  SlotOwnsUnfinishedRun
  WorkingTaskHoldsSlot
  SteersTargetLiveRun
  InterruptStopsActiveRun
  HandedOverOnce
  ClaimedInputsAccountedFor
PROPERTIES
  TerminalStatusIsFinal
