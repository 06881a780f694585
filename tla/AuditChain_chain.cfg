CONSTANTS
  Writer = {w1, w2}
  NoWriter = NoWriter
  Anchorer = {a1, a2}
  MaxEntries = 3
  MaxAnchors = 2
SPECIFICATION Spec
SYMMETRY Symmetry
INVARIANTS TypeOK ChainIntact AppendFits AnchorsVerify AnchorsBind OnlyReferrersDeadlock
PROPERTY VerdictExplained
