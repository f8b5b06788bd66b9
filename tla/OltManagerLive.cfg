SPECIFICATION FairSpec
CONSTANTS
  OLT = {o1}
  Proc = {p1, p2}
  Client = {c1, c2, c3}
  Lock = {l1, l2, l3}
  None = None
PROPERTIES
  EveryCallReturns
  ImplementsGate
