SPECIFICATION Spec
CONSTANTS
  User = {u1, u2}
  Proc = {p1, p2}
  Password = {w1, w2}
  None = None
SYMMETRY Symmetry
INVARIANTS
  IInv
  NothingLost
  SuperadminStays
