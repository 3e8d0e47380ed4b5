SPECIFICATION Safety
CONSTANTS
  Voters = {v1, v2}
  Requests = {1, 2, 3}
  ObjectType = "answer"
  VoteRank <- AnswerRanks
  DailyLimit = 3
  InitialRank = 10
  Impatient = FALSE
  Asked = {"up", "down"}
  MaxConcurrent = 2
  MaxFailures = 1
  Owner = owner
  None = none
SYMMETRY Symmetry
INVARIANTS
  BothSidesAgree
  RanksMatchRows
PROPERTIES
  VoteReplacesOpposite
  DailyLimitHeld
