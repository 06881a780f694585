CONSTANTS
  Request = {r1, r2, r3}
  NoRequest = NoRequest
  Member = {m1, m2}
  NoMember = NoMember
  Operation = {o1, o2}
  NoOperation = NoOperation
  Worker = {w1, w2}
  NoWorker = NoWorker
SPECIFICATION Spec
SYMMETRY Symmetry
INVARIANTS TypeOK OneJobPerOperation RunsOnLiveScope
