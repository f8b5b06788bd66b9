SPECIFICATION Spec
CONSTANTS
  User = {u1}
  Empty = Empty
  Client = {c1}
  Proc = {p1, p2, p3}
  loginFailLimit = 2
  lockoutDuration = 3
  rateLimitWindow = 1
  rateLimitMaxHits = 3
  MaxTime = 5
SYMMETRY Symmetry
INVARIANTS
  IInv
  RateBounded
  RefusedOnlyAtLimit
  FailuresBounded
  LockedOnlyAfterFailures
PROPERTY LiftedOnlyByEarlier
