------------------------------- MODULE Votes -------------------------------
(***************************************************************************)
(* Voting on one object: VoteUp and VoteDown of                            *)
(* internal/service/content/vote_service.go, CancelVote, Vote and          *)
(* GetAndSaveVoteResult of internal/repo/activity/vote_repo.go and         *)
(* ChangeUserRank of internal/repo/rank/user_rank_repo.go.                 *)
(*                                                                         *)
(* A vote is kept as rows of the activity table, one for the voter         *)
(* ("vote") and one for the creator of the object ("voted"), each with the *)
(* rank it was worth; ranks are kept in the user table and the result in   *)
(* the object's vote_count.  Every request runs several statements.  Those *)
(* outside a transaction see what is committed at that moment; the two     *)
(* transactions begin by SELECT ... FOR UPDATE on the users whose rank     *)
(* they may change.  The database takes those row locks in the order of    *)
(* the index, so that taking them all is one action.                       *)
(***************************************************************************)
EXTENDS Integers, FiniteSets, FiniteSetsExt

CONSTANTS Voters,         (* users other than the object's creator           *)
          Owner,          (* the object's creator                            *)
          Requests,       (* the HTTP requests, each with its own goroutine,
                             numbered in the order they arrive                *)
          None,           (* no request                                      *)
          ObjectType,     (* "answer" (a question is alike) or "comment"     *)
          VoteRank,       (* the configured rank of each direction and side  *)
          DailyLimit,     (* daily_rank_limit                                *)
          InitialRank,    (* rank of every user at the start                 *)
          Impatient,      (* a voter may send a request while another one of
                             the same voter is in progress                   *)
          Asked,          (* bound: the directions the requests ask for      *)
          MaxConcurrent,  (* bound: requests in progress at a time           *)
          MaxFailures     (* bound: failing statements                       *)

Directions == {"up", "down"}
Sides == {"vote", "voted"}
Users == Voters \cup {Owner}
Activities == Voters \X Directions \X Sides

ASSUME VotesAssumption ==
  /\ IsFiniteSet(Voters)
  /\ Owner \notin Voters
  /\ Requests \subseteq Nat
  /\ None \notin Requests
  /\ ObjectType \in {"answer", "comment"}
  /\ VoteRank \in [Directions \X Sides -> Int]
  /\ DailyLimit \in Nat
  /\ InitialRank \in Nat \ {0}
  /\ Impatient \in BOOLEAN
  /\ Asked \subseteq Directions
  /\ MaxConcurrent \in Nat \ {0}
  /\ MaxFailures \in Nat

VARIABLES exists,     (* the activities that have a row                         *)
          active,     (* those of them that are not cancelled                   *)
          gain,       (* column rank of the rows                                *)
          rank,       (* column rank of the users                               *)
          voteCount,  (* column vote_count of the object                        *)
          deleted,    (* the object is deleted                                  *)
          locked,     (* the request that locked a user's row FOR UPDATE        *)
          pc,         (* the next statement of each request                     *)
          job,        (* what each request was asked for                        *)
          seen,       (* user ranks read by FOR UPDATE                          *)
          unread,     (* the activities getExistActivity has yet to look up     *)
          found,      (* the rows it found                                      *)
          live,       (* those of them that were not cancelled when read        *)
          worth,      (* their ranks; then the ranks that Vote is about to give *)
          missing,    (* the rows Vote found to be missing                      *)
          counted,    (* the votes counted in each direction                    *)
          inserts,    (* history: how often a row was inserted for an activity  *)
          inbox,      (* history: inbox notifications sent for a voter's vote   *)
          failures    (* how many statements have failed                        *)

table == <<exists, active, gain, inserts>>
lookup == <<unread, found, live>>
local == <<seen, lookup, worth, missing, counted>>
vars == <<table, rank, voteCount, deleted, locked, pc, job, local, inbox, failures>>

Jobs == [voter : Users, dir : Directions, cancel : BOOLEAN]

PCs == {"new", "cancel", "cancel_lock", "cancel_commit",
        "vote", "vote_lock", "vote_check", "vote_commit",
        "count_up", "count_down", "save", "done", "failed"}

Locking == {"cancel_commit", "vote_check", "vote_commit"}

TypeOK ==
  /\ exists \subseteq Activities
  /\ active \subseteq exists
  /\ gain \in [Activities -> Int]
  /\ rank \in [Users -> Int]
  /\ voteCount \in Int
  /\ deleted \in BOOLEAN
  /\ locked \in [Users -> Requests \cup {None}]
  /\ pc \in [Requests -> PCs]
  /\ job \in [Requests -> Jobs]
  /\ seen \in [Requests -> [Users -> Int]]
  /\ unread \in [Requests -> SUBSET Activities]
  /\ found \in [Requests -> SUBSET Activities]
  /\ live \in [Requests -> SUBSET Activities]
  /\ worth \in [Requests -> [Activities -> Int]]
  /\ missing \in [Requests -> SUBSET Activities]
  /\ counted \in [Requests -> [Directions -> Nat]]
  /\ inserts \in [Activities -> Nat]
  /\ inbox \in [Voters \X Directions -> Nat]
  /\ failures \in 0..MaxFailures

Init ==
  /\ exists = {} /\ active = {}
  /\ gain = [a \in Activities |-> 0]
  /\ rank = [u \in Users |-> InitialRank]
  /\ voteCount = 0
  /\ deleted = FALSE
  /\ locked = [u \in Users |-> None]
  /\ pc = [r \in Requests |-> "new"]
  /\ job = [r \in Requests |-> [voter |-> Owner, dir |-> "up", cancel |-> FALSE]]
  /\ seen = [r \in Requests |-> [u \in Users |-> 0]]
  /\ unread = [r \in Requests |-> {}]
  /\ found = [r \in Requests |-> {}]
  /\ live = [r \in Requests |-> {}]
  /\ worth = [r \in Requests |-> [a \in Activities |-> 0]]
  /\ missing = [r \in Requests |-> {}]
  /\ counted = [r \in Requests |-> [d \in Directions |-> 0]]
  /\ inserts = [a \in Activities |-> 0]
  /\ inbox = [p \in Voters \X Directions |-> 0]
  /\ failures = 0

-----------------------------------------------------------------------------
(* Mutant: the vote in the same direction is cancelled. *)
SameDirection(d) == d

Opposite(d) == IF d = "up" THEN "down" ELSE "up"

(* Mutant: getActivities forgets the creator of the object. *)
VoterRowOnly(v, d) ==
  IF ObjectType = "comment" THEN {<<v, "up", "vote">>}
                            ELSE {<<v, d, s>> : s \in IF d = "up" THEN Sides ELSE {"vote"}}

(* getActivities: a comment has one activity type, whatever the direction. *)
Op(v, d) ==
  IF ObjectType = "comment" THEN {<<v, "up", "vote">>}
                            ELSE {<<v, d, s>> : s \in Sides}

UserOf(a) == IF a[3] = "voted" THEN Owner ELSE a[1]

VoteOp(r) == Op(job[r].voter, job[r].dir)

Earned(u) == MapThenSumSet(LAMBDA a : gain[a], {a \in active : UserOf(a) = u})

(* Mutant: off by one. *)
CheckPassedLimit(u) == Earned(u) > DailyLimit

CheckReachLimit(u) == Earned(u) >= DailyLimit

(* Mutants: no lower bound; a rank is never taken back. *)
ChangeUserRankUnbounded(old, current, delta) == old + delta
ChangeUserRankUpwards(old, current, delta) == IF delta < 0 THEN old ELSE old + delta

(* The table is incremented by delta, cut off by the rank that was read. *)
ChangeUserRank(old, current, delta) ==
  old + IF delta < 0 /\ current + delta < 1 THEN 1 - current ELSE delta

(* Rows of op whose rank is to be booked on users locked by r. *)
Booked(r, op, u) == {a \in op : UserOf(a) = u /\ locked[u] = r}

(* Mutant: SELECT without FOR UPDATE. *)
ReadUserInfo(r, users) ==
  /\ locked' = locked
  /\ seen' = [seen EXCEPT ![r] = rank]

AcquireUserInfo(r, users) ==
  /\ \A u \in users : locked[u] = None
  /\ locked' = [u \in Users |-> IF u \in users THEN r ELSE locked[u]]
  /\ seen' = [seen EXCEPT ![r] = rank]

(* Commit or rollback: the locks are given back and the variables of the
   transaction go out of scope. *)
EndTransaction(r) ==
  /\ locked' = [u \in Users |-> IF locked[u] = r THEN None ELSE locked[u]]
  /\ seen' = [seen EXCEPT ![r] = [u \in Users |-> 0]]
  /\ worth' = [worth EXCEPT ![r] = [a \in Activities |-> 0]]
  /\ missing' = [missing EXCEPT ![r] = {}]

Goto(r, from, to) ==
  /\ pc[r] = from
  /\ pc' = [pc EXCEPT ![r] = to]

InProgress == {r \in Requests : pc[r] \notin {"new", "done", "failed"}}

-----------------------------------------------------------------------------
(* VoteUp, VoteDown: a deleted object and one's own object are refused. *)
Begin(r, v, d, c) ==
  /\ \A q \in Requests : q < r => pc[q] # "new"
  /\ Cardinality(InProgress) < MaxConcurrent
  /\ Impatient \/ \A q \in InProgress : job[q].voter # v
  /\ Goto(r, "new", IF deleted \/ v = Owner THEN "failed" ELSE "cancel")
  /\ job' = [job EXCEPT ![r] = [voter |-> v, dir |-> d, cancel |-> c]]
  /\ unread' = [unread EXCEPT ![r] = IF v = Owner THEN {} ELSE Op(v, IF c THEN d ELSE Opposite(d))]
  /\ UNCHANGED <<table, rank, voteCount, deleted, locked, seen, found, live, worth, missing,
                 counted, inbox, failures>>

(* getExistActivity: one query per activity, the voter's own first. *)
LookUp(r, a) ==
  /\ a \in unread[r]
  /\ a[3] = "voted" => unread[r] = {a}
  /\ unread' = [unread EXCEPT ![r] = @ \ {a}]

AfterCancel(r) == IF job[r].cancel THEN "count_up" ELSE "vote"

(* The look-ups of votePreCheck begin. *)
TurnToVote(r) ==
  /\ unread' = [unread EXCEPT ![r] = IF job[r].cancel THEN {} ELSE VoteOp(r)]
  /\ found' = [found EXCEPT ![r] = {}]
  /\ live' = [live EXCEPT ![r] = {}]

(* CancelVote: the look-ups come before the transaction; without a row that
   is not cancelled there is nothing to do. *)
CancelRead(r) ==
  \E a \in unread[r] :
    LET alive == live[r] \cup ({a} \cap active)
        last == unread[r] = {a}
    IN
    /\ \/ /\ last /\ alive = {}
          /\ Goto(r, "cancel", AfterCancel(r))
          /\ TurnToVote(r)
          /\ worth' = [worth EXCEPT ![r] = [b \in Activities |-> 0]]
       \/ /\ ~(last /\ alive = {})
          /\ Goto(r, "cancel", IF last THEN "cancel_lock" ELSE "cancel")
          /\ LookUp(r, a)
          /\ found' = [found EXCEPT ![r] = @ \cup ({a} \cap exists)]
          /\ live' = [live EXCEPT ![r] = alive]
          /\ worth' = [worth EXCEPT ![r][a] = gain[a]]
    /\ UNCHANGED <<table, rank, voteCount, deleted, locked, job, seen, missing, counted,
                   inbox, failures>>

(* Only the users of rows that were not cancelled when read are locked. *)
CancelLock(r) ==
  /\ Goto(r, "cancel_lock", "cancel_commit")
  /\ AcquireUserInfo(r, {UserOf(a) : a \in live[r]})
  /\ UNCHANGED <<table, rank, voteCount, deleted, job, lookup, worth, missing, counted,
                 inbox, failures>>

(* cancelActivities reads cancelled again, but not the rank; rollbackUserRank. *)
CancelCommit(r) ==
  LET taken(u) == Booked(r, found[r] \cap active, u) IN
  /\ Goto(r, "cancel_commit", AfterCancel(r))
  /\ active' = active \ found[r]
  /\ rank' = [u \in Users |->
                IF taken(u) = {} THEN rank[u]
                ELSE ChangeUserRank(rank[u], seen[r][u], -worth[r][CHOOSE a \in taken(u) : TRUE])]
  /\ EndTransaction(r)
  /\ TurnToVote(r)
  /\ UNCHANGED <<exists, gain, inserts, voteCount, deleted, job, counted, inbox, failures>>

(* Vote, votePreCheck: nothing to do when every row is there and alive. *)
VotePreCheck(r) ==
  \E a \in unread[r] :
    LET alive == live[r] \cup ({a} \cap active)
        last == unread[r] = {a}
    IN
    /\ Goto(r, "vote", IF ~last THEN "vote"
                       ELSE IF alive = VoteOp(r) THEN "count_up" ELSE "vote_lock")
    /\ LookUp(r, a)
    /\ live' = [live EXCEPT ![r] = IF last THEN {} ELSE alive]
    /\ UNCHANGED <<table, rank, voteCount, deleted, locked, job, seen, found, worth, missing,
                   counted, inbox, failures>>

VoteLock(r) ==
  /\ Goto(r, "vote_lock", "vote_check")
  /\ AcquireUserInfo(r, {UserOf(a) : a \in VoteOp(r)})
  /\ UNCHANGED <<table, rank, voteCount, deleted, job, lookup, worth, missing, counted,
                 inbox, failures>>

(* setActivityRankToZeroIfUserReachLimit, and the rank 0 that
   saveActivitiesAvailable gives to a row that is available already. *)
Granted(r, a) ==
  LET u == UserOf(a)
      configured == VoteRank[<<a[2], a[3]>>]
  IN  IF a \in active THEN 0
      ELSE IF configured > 0 THEN IF CheckReachLimit(u) THEN 0 ELSE configured
      ELSE IF seen[r][u] + configured < 1 THEN 1 - seen[r][u]
      ELSE configured

(* Mutant: a row that was cancelled counts as missing. *)
VoteCheckCancelled(r) ==
  /\ Goto(r, "vote_check", "vote_commit")
  /\ worth' = [worth EXCEPT ![r] =
                 [a \in Activities |-> IF a \in VoteOp(r) THEN Granted(r, a) ELSE 0]]
  /\ missing' = [missing EXCEPT ![r] = VoteOp(r) \ active]
  /\ UNCHANGED <<table, rank, voteCount, deleted, locked, job, seen, lookup, counted,
                 inbox, failures>>

(* What the transaction reads before it writes. *)
VoteCheck(r) ==
  /\ Goto(r, "vote_check", "vote_commit")
  /\ worth' = [worth EXCEPT ![r] =
                 [a \in Activities |-> IF a \in VoteOp(r) THEN Granted(r, a) ELSE 0]]
  /\ missing' = [missing EXCEPT ![r] = VoteOp(r) \ exists]
  /\ UNCHANGED <<table, rank, voteCount, deleted, locked, job, seen, lookup, counted,
                 inbox, failures>>

(* sendVoteInboxNotification: a new row, but not of a vote down on a comment. *)
Noticed(r) == missing[r] # {} /\ (ObjectType = "answer" \/ job[r].dir = "up")

(* saveActivitiesAvailable, changeUserRank, commit; then the notification. *)
VoteCommit(r) ==
  LET op == VoteOp(r) IN
  /\ Goto(r, "vote_commit", "count_up")
  /\ exists' = exists \cup missing[r]
  /\ inserts' = [a \in Activities |-> IF a \in missing[r] THEN inserts[a] + 1 ELSE inserts[a]]
  /\ active' = active \cup op
  /\ gain' = [a \in Activities |-> IF a \in op \ active THEN worth[r][a] ELSE gain[a]]
  /\ rank' = [u \in Users |->
                LET mine == Booked(r, op, u) IN
                IF mine = {} THEN rank[u]
                ELSE ChangeUserRank(rank[u], seen[r][u], worth[r][CHOOSE a \in mine : TRUE])]
  /\ inbox' = IF Noticed(r) THEN [inbox EXCEPT ![<<job[r].voter, job[r].dir>>] = @ + 1] ELSE inbox
  /\ EndTransaction(r)
  /\ UNCHANGED <<voteCount, deleted, job, lookup, counted, failures>>

(* countVote: there is no activity type for a vote down on a comment. *)
Count(d) ==
  IF ObjectType = "comment" /\ d = "down" THEN 0
  ELSE Cardinality({v \in Voters : <<v, d, "vote">> \in active})

CountVoteUp(r) ==
  /\ Goto(r, "count_up", "count_down")
  /\ counted' = [counted EXCEPT ![r]["up"] = Count("up")]
  /\ UNCHANGED <<table, rank, voteCount, deleted, locked, job, seen, lookup, worth, missing,
                 inbox, failures>>

CountVoteDown(r) ==
  /\ Goto(r, "count_down", "save")
  /\ counted' = [counted EXCEPT ![r]["down"] = Count("down")]
  /\ UNCHANGED <<table, rank, voteCount, deleted, locked, job, seen, lookup, worth, missing,
                 inbox, failures>>

UpdateVotes(r) ==
  /\ Goto(r, "save", "done")
  /\ voteCount' = counted[r]["up"] - counted[r]["down"]
  /\ counted' = [counted EXCEPT ![r] = [d \in Directions |-> 0]]
  /\ UNCHANGED <<table, rank, deleted, locked, job, seen, lookup, worth, missing, inbox, failures>>

(* A statement fails.  Inside a transaction that rolls it back; before the
   counting the request is answered with the error. *)
Fail(r) ==
  /\ failures < MaxFailures
  /\ pc[r] \in {"cancel", "cancel_lock", "vote", "vote_lock"} \cup Locking
  /\ pc' = [pc EXCEPT ![r] = "failed"]
  /\ failures' = failures + 1
  /\ EndTransaction(r)
  /\ unread' = [unread EXCEPT ![r] = {}]
  /\ found' = [found EXCEPT ![r] = {}]
  /\ live' = [live EXCEPT ![r] = {}]
  /\ UNCHANGED <<table, rank, voteCount, deleted, job, counted, inbox>>

(* A failing count is logged and taken as 0; a failing update is logged. *)
FailCounting(r) ==
  /\ failures < MaxFailures
  /\ failures' = failures + 1
  /\ \/ /\ Goto(r, "count_up", "count_down")
        /\ counted' = [counted EXCEPT ![r]["up"] = 0]
     \/ /\ Goto(r, "count_down", "save")
        /\ counted' = [counted EXCEPT ![r]["down"] = 0]
     \/ /\ Goto(r, "save", "done")
        /\ counted' = [counted EXCEPT ![r] = [d \in Directions |-> 0]]
  /\ UNCHANGED <<table, rank, voteCount, deleted, locked, job, seen, lookup, worth, missing,
                 inbox>>

(* Somebody deletes the object; a request that has passed Begin goes on. *)
DeleteObject ==
  /\ ~deleted
  /\ deleted' = TRUE
  /\ UNCHANGED <<table, rank, voteCount, locked, pc, job, local, inbox, failures>>

Step(r) ==
  \/ CancelRead(r) \/ CancelLock(r) \/ CancelCommit(r)
  \/ VotePreCheck(r) \/ VoteLock(r) \/ VoteCheck(r) \/ VoteCommit(r)
  \/ CountVoteUp(r) \/ CountVoteDown(r) \/ UpdateVotes(r)

(* Every request has been answered. *)
AllAnswered == InProgress = {} /\ UNCHANGED vars

Next ==
  \/ \E r \in Requests, v \in Users, d \in Asked, c \in BOOLEAN : Begin(r, v, d, c)
  \/ \E r \in Requests : Step(r) \/ Fail(r) \/ FailCounting(r)
  \/ DeleteObject
  \/ AllAnswered

Safety == Init /\ [][Next]_vars

-----------------------------------------------------------------------------
(* Properties *)

Ups == {v \in Voters : <<v, "up", "vote">> \in active}
Downs == {v \in Voters : <<v, "down", "vote">> \in active}

(* No sequence of concurrent votes, cancellations and failures takes a user's
   rank below 1 (ChangeUserRank: "user rank will be set to 1 only"). *)
RankAtLeastOne == \A u \in Users : rank[u] >= 1

(* Two requests that vote for the same user at the same time do not both
   insert the row that each of them found missing. *)
NoDuplicateRows == \A a \in Activities : inserts[a] <= 1

(* A voter's row and the creator's row of the same vote stand and fall
   together, also when a transaction fails. *)
BothSidesAgree ==
  ObjectType = "answer" =>
    \A v \in Voters, d \in Directions :
      <<v, d, "vote">> \in active <=> <<v, d, "voted">> \in active

(* Every rank a user has, beyond the initial one, stems from rows that are not
   cancelled: nothing is booked twice and nothing is kept after its vote was
   cancelled.  (For instances where no rank is cut off at 1 or at the limit.) *)
RanksMatchRows ==
  \A u \in Users : locked[u] = None => rank[u] = InitialRank + Earned(u)

(* However many requests arrive at a time, a row earns its user nothing more
   once the rows of the day add up to the limit. *)
DailyLimitHeld ==
  [][\A a \in active' \ active :
       Earned(UserOf(a)) >= DailyLimit => gain'[a] <= 0]_vars

(* The creator is told of a voter's vote at most once, however often the voter
   takes it back and repeats it. *)
NotifiedOnce == \A p \in DOMAIN inbox : inbox[p] <= 1

(* VoteUp: "cancel vote down if exist"; VoteDown: "cancel vote up if exist".
   A voter whose vote was answered has a vote in that direction and none in the
   other one.  (For voters that wait for each answer.) *)
VoteReplacesOpposite ==
  [][\A r \in Requests :
       pc[r] = "save" /\ pc'[r] = "done" /\ ~job[r].cancel =>
         job[r].voter \in IF job[r].dir = "up" THEN Ups' \ Downs' ELSE Downs' \ Ups']_vars

(* The rank that a cancellation is about to take back is the rank its row is
   worth (cancelActivities: "after this function, the activity rank will be correct
   for update user rank"). *)
RollbackIsWorth ==
  \A r \in Requests : pc[r] = "cancel_commit" =>
    \A a \in found[r] \cap active : locked[UserOf(a)] = r => worth[r][a] = gain[a]

-----------------------------------------------------------------------------
(* The inductive invariant: what the row locks protect while they are held. *)

(* Between FOR UPDATE and the end of the transaction the rank that was read is
   the rank in the table. *)
LockDiscipline ==
  /\ \A u \in Users, r \in Requests :
       locked[u] = r => pc[r] \in Locking /\ seen[r][u] = rank[u]
  /\ \A r \in Requests : pc[r] \in {"vote_check", "vote_commit"} =>
       \A a \in VoteOp(r) : locked[UserOf(a)] = r

(* ... and a row that was found to be missing is missing. *)
MissingRows ==
  /\ \A a \in Activities : inserts[a] = IF a \in exists THEN 1 ELSE 0
  /\ \A r \in Requests : pc[r] = "vote_commit" => missing[r] = VoteOp(r) \ exists

VotersVote ==
  \A r \in Requests : pc[r] \notin {"new", "failed"} => job[r].voter \in Voters

Notified ==
  \A v \in Voters, d \in Directions :
    inbox[<<v, d>>] = 0 \/ (inbox[<<v, d>>] = 1 /\ Op(v, d) \subseteq exists)

Inv ==
  /\ TypeOK
  /\ VotersVote
  /\ LockDiscipline
  /\ MissingRows
  /\ RankAtLeastOne
  /\ Notified
=============================================================================
