SPECIFICATION Spec
CONSTANTS
  User = {u1, u2}
  Proc = {p1, p2}
  Password = {w1}
  None = None
SYMMETRY Symmetry
INVARIANT SomeSuperadmin
