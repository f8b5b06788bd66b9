SPECIFICATION FairSpec
CONSTANTS
  OLT = {o1, o2}
  Ticker = ticker
  Trig = {t1}
  Absent = Absent
  Listed = Listed
  Client = Client
  Failed = Failed
  MaxChanges = 2
  MaxFaults = 1
INVARIANTS
  IInv
  DeletedLeavesSearch
PROPERTIES
  OlderOnlyByOverlap
  EventuallyIndexed
  CreatedIsIndexed
