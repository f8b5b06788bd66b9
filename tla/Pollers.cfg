SPECIFICATION FairSpec
CONSTANTS
  OLT = {o1, o2}
  Optical = optical
  Names = names
  Width = 1
  MaxPon = 2
INVARIANTS
  IInv
  QuietAfterStop
  ClientOutlivesWalks
PROPERTIES
  ShutdownEnds
  PolledForEver
