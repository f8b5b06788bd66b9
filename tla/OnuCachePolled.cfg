SPECIFICATION FairSpec
CONSTANTS
  Onu = {u1}
  Name = {n1, n2}
  Req = {r1}
  Poll = {o1}
  NPoll = {q1}
  Absent = Absent
  Blank = Blank
  None = None
  Err = Err
  MaxChanges = 1
INVARIANTS
  IInv
  UnregisterClears
PROPERTY EventuallyCurrent
