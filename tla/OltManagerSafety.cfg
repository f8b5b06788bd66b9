SPECIFICATION Spec
CONSTANTS
  OLT = {o1, o2}
  Proc = {p1, p2}
  Client = {c1, c2, c3, c4}
  Lock = {l1, l2, l3, l4}
  None = None
SYMMETRY Symmetry
INVARIANTS
  IInv
  ChannelOwnership
  OverlapOnlyAcrossRetire
  RegisteredClientUsable
PROPERTIES
  NoCloseInFlight
  NoClientDropped
