SPECIFICATION Spec
CONSTANTS
  Onu = {u1, u2}
  Name = {n1}
  Req = {r1, r2}
  Poll = {}
  NPoll = {}
  Absent = Absent
  Blank = Blank
  None = None
  Err = Err
  MaxChanges = 1
SYMMETRY Symmetry
INVARIANTS
  ListAfterProvision
  FreshUnlessLate
