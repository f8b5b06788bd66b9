SPECIFICATION Spec
CONSTANTS
  Id = {i1}
  SN = {s1, s2}
  Proc = {p1, p2}
  None = None
  MaxStray = 1
SYMMETRY Symmetry
CONSTRAINT StraysOfOne
INVARIANTS
  IInv
  SuccessMeansApplied
  ProvisionedIsMine
  ForeignSettingsReported
  RebootNotDeclined
