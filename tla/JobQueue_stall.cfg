CONSTANTS
  Job = {j1, j2}
  Environment = {1}
  EnvironmentOf <- MCEnvironmentOf
  Worker = {w1, w2}
  NoJob = NoJob
  NoWorker = NoWorker
  MaxAttempts = 2
  LeaseSeconds = 2
  Delays = {0, 1}
  Stall = TRUE
  MaxNow = 3
SPECIFICATION Spec
SYMMETRY Symmetry
INVARIANTS LeaseIsRecoverable AttemptHandedOnce DeadLetterRecorded
