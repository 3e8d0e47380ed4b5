SPECIFICATION Safety
CONSTANTS
  Voters = {v1}
  Requests = {1}
  ObjectType = "comment"
  VoteRank <- NoRanks
  DailyLimit = 100
  InitialRank = 1
  Impatient = FALSE
  Asked = {"up", "down"}
  MaxConcurrent = 1
  MaxFailures = 0
  Owner = owner
  None = none
PROPERTIES
  VoteReplacesOpposite
