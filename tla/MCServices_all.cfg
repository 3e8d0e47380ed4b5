SPECIFICATION Spec
CONSTANTS
  KVCallers = {c1, c2}
  KVGroups = {g1}
  KVNames = {k1, k2}
  KVValues = {x, y}
  NoRow = norow
  MaxKVCalls = 3
  MaxKVFaults = 1
  Accounts = {u1, u2}
  Addresses = {m1, m2}
  NoAddress = noaddress
  NoAccount = noaccount
  Clients = {r1, r2}
  MaxCodes = 2
  MaxRequests = 3
  FirstAccount = u1
  Readers = {me, you}
  Me = me
  Followers = {you}
  NoticeRoom = 1
  Tabs = {t1}
  MaxEvents = 2
  MaxTabs = 2
  MaxRank = 1
  MaxLosses = 1
  FileCount = 2
  AvatarFiles = {1}
  PageSize = 1
  MaxMishaps = 1
  MaxChanges = 2
  a1 = a1
  a2 = a2
  asker = asker
  other = other
  q1 = q1
  q2 = q2
  AnswerIds = {a1, a2}
  Writers = {asker, other}
  AuthorOf <- Authors
  Asker = asker
  Acceptors = {asker, other}
  NoAnswer = noanswer
  Workers = {w1, w2}
  RankOfAccept = 1
  RankOfAccepted = 3
  MaxWork = 3
  MaxBreaks = 1
  QuestionIds = {q1, q2}
  Tags = {go}
  NoQuestion = noquestion
  NoTag = notag
  Editors = {e1, e2}
  MaxEdits = 2
  MaxLapses = 1
  s1 = s1
  s2 = s2
  Subjects = {s1, s2}
  KindOf <- SubjectKinds
  NoSubject = nosubject
  Texts = {1, 2}
  Labels = {1, 2}
  NoText = 2
  NoLabel = 2
  Suggesters = {asker}
  Desks = {d1, d2}
  MaxDeskWork = 3
  MaxSlips = 1
  p1 = p1
  p2 = p2
  Fans = {p1, p2}
  Topics = {t1, t2}
  NoTopic = notopic
  Calls = {d1, d2}
  MaxCalls = 2
  MaxDrops = 1
  Winners = {p1, p2}
  AwardKeys = {a1, a2}
  NoWinner = nowinner
  NoKey = nokey
  Admins = {d1, d2}
  MaxAwardEvents = 3
  MaxSwitches = 2
INVARIANTS
  CacheCoherent
  AddressProven
  OneNoticePerObject
  RankShown
  AvailableInPlace
  ReferencedKept
  AcceptanceAgrees
  GainMatchesRows
  CountAgrees
  PendingReviewed
  PinnedVisible
  TagCountsAgree
  TextDecided
  RewardedOnce
  FollowsAsAsked
  AwardedOnce
PROPERTIES
  AllTold
  OrphansCleared
CHECK_DEADLOCK FALSE
