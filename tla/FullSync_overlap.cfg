CONSTANTS
  Job = {j1, j2}
  NoJob = NoJob
  NoSync = NoSync
  NoRow = NoRow
  Worker = {w1, w2}
  NoWorker = NoWorker
  o1 = o1
  o2 = o2
  Object = {o1, o2}
  Changing = {}
  Pages = 2
  PageOf <- MCPageOf
  PerObject = FALSE
SPECIFICATION Spec
SYMMETRY Symmetry
PROPERTY NoLostObjects
CHECK_DEADLOCK FALSE
