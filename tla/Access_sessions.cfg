CONSTANTS
  Principal = {u1, u2}
  Nobody = Nobody
  Local = u1
  Identity = {i1}
  Browser = {b1, b2}
  Change = {c1, c2}
  MaxVersion = 2
  MaxWrong = 3
  MAX_FAILED_LOGIN = 2
SPECIFICATION Spec
SYMMETRY Symmetry
INVARIANTS TypeOK SessionIsOwn ChangeIsEffective FailuresCounted
