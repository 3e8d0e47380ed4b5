SPECIFICATION Spec
CONSTANTS
  Requests = {1, 2, 3}
  Absent = absent
  Impatient = FALSE
  Kinds = {"login", "sync", "dismiss"}
  MaxConcurrent = 2
  MaxFailures = 0
INVARIANTS
  DeactivationSticks
