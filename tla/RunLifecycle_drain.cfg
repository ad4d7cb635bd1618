SPECIFICATION Spec
SYMMETRY Symmetry
CONSTANTS
  Threads = {t1}
  Runs = {r1, r2}
  Inputs = {i1, i2, i3}
  Deletable = {}
  NoThread = NoThread
  NoRun = NoRun
  NoInput = NoInput
PROPERTIES
  FinishedRunDrainsQueue
