SPECIFICATION Spec
CONSTANTS
  Requests = {1, 2, 3}
  Kinds = {"wecom", "deactivate", "role"}
  FirstKinds = {"wecom", "deactivate", "role"}
  MaxConcurrent = 1
  Absent = absent
INVARIANTS
  OnlyActiveAdmitted
