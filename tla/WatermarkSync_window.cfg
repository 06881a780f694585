CONSTANTS
  Job = {j1, j2}
  NoJob = NoJob
  Worker = {w1, w2}
  NoWorker = NoWorker
  Events = 3
  Created <- MCCreated
  Second = 3
  Horizon = 3
  Coming = {2, 3}
SPECIFICATION Spec
SYMMETRY Symmetry
INVARIANTS TypeOK NothingPassedOver WindowCovered
PROPERTIES WindowPinned
\* When every job is over and every event shown, nothing is left to do.
CHECK_DEADLOCK FALSE
