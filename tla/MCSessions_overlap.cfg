SPECIFICATION Spec
CONSTANTS
  Requests = {1, 2, 3, 4}
  Kinds <- OverlapKinds
  FirstKinds = {"login"}
  MaxConcurrent = 2
  Absent = absent
INVARIANTS
  SessionsFollowAccount
  SessionsEnd
