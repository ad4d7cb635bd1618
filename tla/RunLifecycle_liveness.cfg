SPECIFICATION FairSpec
CONSTANTS
  Threads = {t1}
  Runs = {r1, r2}
  Inputs = {i1, i2}
  Deletable = {t1}
  NoThread = NoThread
  NoRun = NoRun
  NoInput = NoInput
PROPERTIES
  StoppedRunsReleaseTheirThread
