\* Two browsers and three forms race over two password changes and a reset link.
SPECIFICATION Spec
CONSTANTS
  Browsers = {b1, b2}
  Requests = {r1, r2, r3}
  Links = {l1}
  Nobody = Nobody
  MaxChanges = 2
SYMMETRY Interchangeable
INVARIANTS
  TypeOK
  SessionProved
PROPERTIES
  OthersSignedOut
  LinksDie
CHECK_DEADLOCK FALSE
