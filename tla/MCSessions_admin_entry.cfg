SPECIFICATION Spec
CONSTANTS
  Requests = {1, 2}
  Kinds = {"login", "role"}
  FirstKinds = {"login"}
  MaxConcurrent = 1
  Absent = absent
INVARIANTS
  LoggedOutEverywhere
