CONSTANTS
  j1 = j1
  j2 = j2
  Job = {j1, j2}
  Environment = {1, 2}
  EnvironmentOf <- MCEnvironmentOf
  Worker = {w1}
  NoJob = NoJob
  NoWorker = NoWorker
  MaxAttempts = 2
  LeaseSeconds = 1
  Delays = {0, 1}
  Stall = FALSE
  MaxNow = 2
  Overrun = TRUE
  Mortal = {}
SPECIFICATION Spec
CHECK_DEADLOCK FALSE
PROPERTY OfferedIsTaken
