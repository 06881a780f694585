CONSTANTS
  j1 = j1
  j2 = j2
  Job = {j1, j2}
  Environment = {1, 2}
  EnvironmentOf <- MCEnvironmentOf
  Worker = {w1, w2}
  NoJob = NoJob
  NoWorker = NoWorker
  MaxAttempts = 2
  LeaseSeconds = 1
  Delays = {0}
  Stall = FALSE
  MaxNow = 1
  Overrun = TRUE
  Mortal = {w1}
SPECIFICATION Spec
CHECK_DEADLOCK FALSE
INVARIANT LeasedIsInHand
PROPERTIES EnvironmentsServed StopDrains OfferedIsTakenByLiveWorker
