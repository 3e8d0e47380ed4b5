SPECIFICATION Safety
CONSTANTS
  Voters = {v1, v2}
  Requests = {1, 2, 3, 4, 5}
  ObjectType = "answer"
  VoteRank <- UpRanks
  DailyLimit = 2
  InitialRank = 10
  Impatient = TRUE
  Asked = {"up"}
  MaxConcurrent = 2
  MaxFailures = 0
  Owner = owner
  None = none
SYMMETRY Symmetry
INVARIANTS
  RollbackIsWorth
