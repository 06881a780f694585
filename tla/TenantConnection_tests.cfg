CONSTANTS
  Request = {r1, r2}
  Worker = {w1}
  Versions = 2
SPECIFICATION FairSpec
INVARIANTS TypeOK UsableWasConfirmed
PROPERTIES ActiveIsNotCutOff RepeatedTestsRecover
