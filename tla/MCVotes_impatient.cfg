SPECIFICATION Safety
CONSTANTS
  Voters = {v1, v2}
  Requests = {1, 2, 3}
  ObjectType = "answer"
  VoteRank <- AnswerRanks
  DailyLimit = 100
  InitialRank = 1
  Impatient = TRUE
  Asked = {"up", "down"}
  MaxConcurrent = 2
  MaxFailures = 1
  Owner = owner
  None = none
SYMMETRY Symmetry
INVARIANTS
  RankAtLeastOne
  NoDuplicateRows
  NotifiedOnce
