SPECIFICATION Spec
CONSTANTS
  OLT = {o1, o2}
  Proc = {p1, p2}
  Host = {h1, h2}
  NoHost = NoHost
  None = None
SYMMETRY Symmetry
INVARIANTS
  IInv
  Remembered
  GhostOnlyByOverlap
