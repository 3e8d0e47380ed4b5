---------------------------- MODULE VotesProofs ----------------------------
(***************************************************************************)
(* Theorems about Votes, for every set of voters and requests, every       *)
(* configuration of the ranks and every daily limit; and about Follows,    *)
(* for any finite number of users and tags and any number of requests and  *)
(* failures.                                                               *)
(*                                                                         *)
(* Votes.  Of voters that wait for each answer a voter has one request at  *)
(* a time, so that what it has read of the voter's own rows stays true     *)
(* until it writes, and both rows of a vote are there or none (Patience).  *)
(* Of the ranks there is a ledger (Books): each is the initial one and     *)
(* what the rows of the user add up to; what a request is about to book    *)
(* is what its rows are worth, and the users it books on are locked.       *)
(* A rank that is cut off at 1 breaks the ledger, so that this part        *)
(* assumes that no user's possible losses exceed the initial rank.         *)
(*                                                                         *)
(* Follows.  Two requests about the same user and tag are known to the     *)
(* history, so that a request in progress is alone with what it is about:  *)
(* the row it has found is still there, and all that it has yet to do is   *)
(* what the user has asked for.  A merge is about all users and two tags,  *)
(* of which both are in doubt or neither.                                  *)
(***************************************************************************)
EXTENDS Votes, Follows, Sums, FiniteSetTheorems, TLAPS

USE VotesAssumption DEF VotesAssumption

(* The rows of a vote are activities, and their users exist. *)
LEMMA OpType ==
  ASSUME NEW v \in Voters, NEW d \in Directions
  PROVE  /\ Op(v, d) \subseteq Activities
         /\ \A a \in Op(v, d) : UserOf(a) \in Users
BY DEF Op, UserOf, Activities, Directions, Sides, Users

(* Every activity belongs to a user. *)
LEMMA UserOfType == \A a \in Activities : UserOf(a) \in Users
BY DEF UserOf, Activities, Users, Sides

(* A rank that was at least 1 stays so. *)
LEMMA ChangeUserRankBound ==
  ASSUME NEW old \in Int, NEW current \in Int, NEW delta \in Int
  PROVE  /\ ChangeUserRank(old, current, delta) \in Int
         /\ old = current /\ current >= 1 => ChangeUserRank(old, current, delta) >= 1
BY DEF ChangeUserRank

(* Nobody has voted and nothing is locked. *)
LEMMA InitInv == Init => Inv
<1> SUFFICES ASSUME Init PROVE Inv
  OBVIOUS
<1> USE DEF Init
<1>1. TypeOK
  <2>1. job \in [Requests -> Jobs]
    BY DEF Jobs, Users, Directions
  <2>2. pc \in [Requests -> PCs]
    BY DEF PCs
  <2>3. /\ seen \in [Requests -> [Users -> Int]]
        /\ worth \in [Requests -> [Activities -> Int]]
        /\ counted \in [Requests -> [Directions -> Nat]]
        /\ found \in [Requests -> SUBSET Activities]
        /\ live \in [Requests -> SUBSET Activities]
        /\ unread \in [Requests -> SUBSET Activities]
        /\ missing \in [Requests -> SUBSET Activities]
    OBVIOUS
  <2>4. /\ gain \in [Activities -> Int] /\ inserts \in [Activities -> Nat]
        /\ rank \in [Users -> Int]
        /\ inbox \in [Voters \X Directions -> Nat]
        /\ locked \in [Users -> Requests \cup {None}]
    OBVIOUS
  <2>5. /\ exists \subseteq Activities /\ active \subseteq exists
    OBVIOUS
  <2>6. voteCount \in Int /\ failures \in 0..MaxFailures
    OBVIOUS
  <2>7. deleted \in BOOLEAN
    OBVIOUS
  <2> QED
    BY <2>1, <2>2, <2>3, <2>4, <2>5, <2>6, <2>7 DEF TypeOK
<1>2. VotersVote
  BY DEF VotersVote
<1>3. LockDiscipline
  BY DEF LockDiscipline
<1>4. MissingRows
  BY DEF MissingRows
<1>5. RankAtLeastOne
  BY DEF RankAtLeastOne
<1>6. Notified
  BY DEF Notified
<1> QED
  BY <1>1, <1>2, <1>3, <1>4, <1>5, <1>6 DEF Inv

(* Every step keeps the types.  The parts of the actions first. *)
LEMMA GotoType ==
  ASSUME TypeOK, NEW r \in Requests, NEW from, NEW to \in PCs, Goto(r, from, to)
  PROVE  pc' \in [Requests -> PCs]
BY DEF TypeOK, Goto

(* FOR UPDATE keeps the types. *)
LEMMA AcquireType ==
  ASSUME TypeOK, NEW r \in Requests, NEW users, AcquireUserInfo(r, users)
  PROVE  /\ locked' \in [Users -> Requests \cup {None}]
         /\ seen' \in [Requests -> [Users -> Int]]
BY DEF TypeOK, AcquireUserInfo

(* The end of a transaction keeps the types. *)
LEMMA EndType ==
  ASSUME TypeOK, NEW r \in Requests, EndTransaction(r)
  PROVE  /\ locked' \in [Users -> Requests \cup {None}]
         /\ seen' \in [Requests -> [Users -> Int]]
         /\ worth' \in [Requests -> [Activities -> Int]]
         /\ missing' \in [Requests -> SUBSET Activities]
<1>1. [u \in Users |-> 0] \in [Users -> Int]
  OBVIOUS
<1>2. [a \in Activities |-> 0] \in [Activities -> Int]
  OBVIOUS
<1> QED
  BY <1>1, <1>2 DEF TypeOK, EndTransaction

(* The rows of a request's vote are activities. *)
LEMMA VoteOpType ==
  ASSUME TypeOK, VotersVote, NEW r \in Requests, pc[r] \notin {"new", "failed"}
  PROVE  /\ VoteOp(r) \subseteq Activities
         /\ \A a \in VoteOp(r) : UserOf(a) \in Users
<1>1. job[r].voter \in Voters /\ job[r].dir \in Directions
  BY DEF TypeOK, VotersVote, Jobs
<1> QED
  BY <1>1, OpType DEF VoteOp

(* The turn from cancelling to voting keeps the types. *)
LEMMA TurnType ==
  ASSUME TypeOK, VotersVote, NEW r \in Requests, pc[r] \notin {"new", "failed"}, TurnToVote(r)
  PROVE  /\ unread' \in [Requests -> SUBSET Activities]
         /\ found' \in [Requests -> SUBSET Activities]
         /\ live' \in [Requests -> SUBSET Activities]
<1>1. VoteOp(r) \in SUBSET Activities
  BY VoteOpType
<1> QED
  BY <1>1 DEF TypeOK, TurnToVote

(* What a transaction may give is an integer. *)
LEMMA GrantedType ==
  ASSUME TypeOK, NEW r \in Requests, NEW a \in Activities
  PROVE  Granted(r, a) \in Int
<1>1. UserOf(a) \in Users /\ <<a[2], a[3]>> \in Directions \X Sides
  BY UserOfType DEF Activities
<1>2. VoteRank[<<a[2], a[3]>>] \in Int /\ seen[r][UserOf(a)] \in Int
  BY <1>1 DEF TypeOK
<1> DEFINE s == seen[r][UserOf(a)]
           w == VoteRank[<<a[2], a[3]>>]
<1> HIDE DEF s, w
<1>3. s \in Int /\ w \in Int
  BY <1>2 DEF s, w
<1> QED
  BY <1>3 DEF Granted, s, w

(* So is the rank of the row that the actions choose to book. *)
LEMMA ChosenWorth ==
  ASSUME TypeOK, NEW r \in Requests, NEW rows \in SUBSET Activities, rows # {}
  PROVE  worth[r][CHOOSE a \in rows : TRUE] \in Int
<1>1. (CHOOSE a \in rows : TRUE) \in Activities
  OBVIOUS
<1> QED
  BY <1>1 DEF TypeOK

(* A count is a natural number. *)
LEMMA CountType == \A d \in Directions : Count(d) \in Nat
<1>1. ASSUME NEW d \in Directions PROVE {v \in Voters : <<v, d, "vote">> \in active} \in SUBSET Voters
  OBVIOUS
<1> QED
  BY <1>1, FS_Subset, FS_CardinalityType DEF Count

(* Every step keeps the types. *)
LEMMA TypeStep == TypeOK /\ VotersVote /\ MissingRows /\ [Next]_vars => TypeOK'
<1> SUFFICES ASSUME TypeOK, VotersVote, MissingRows, [Next]_vars PROVE TypeOK'
  OBVIOUS
<1>1. ASSUME NEW r \in Requests, NEW v \in Users, NEW d \in Asked, NEW c \in BOOLEAN, Begin(r, v, d, c) PROVE TypeOK'
  <2>1. pc' \in [Requests -> PCs]
    BY <1>1, GotoType DEF Begin, PCs
  <2>2. job' \in [Requests -> Jobs]
    BY <1>1 DEF Begin, TypeOK, Jobs
  <2>3. unread' \in [Requests -> SUBSET Activities]
    <3>1. v # Owner => Op(v, IF c THEN d ELSE Opposite(d)) \in SUBSET Activities
      BY OpType DEF Opposite, Directions, Users
    <3> QED
      BY <1>1, <3>1 DEF Begin, TypeOK
  <2> QED
    BY <1>1, <2>1, <2>2, <2>3 DEF TypeOK, Begin, table
<1>2. ASSUME NEW r \in Requests, CancelRead(r) PROVE TypeOK'
  <2>1. pc' \in [Requests -> PCs] /\ pc[r] \notin {"new", "failed"}
    BY <1>2 DEF CancelRead, AfterCancel, Goto, TypeOK, PCs
  <2>2. worth' \in [Requests -> [Activities -> Int]]
    <3>1. [b \in Activities |-> 0] \in [Activities -> Int]
      OBVIOUS
    <3>2. PICK a \in unread[r] : \/ worth' = [worth EXCEPT ![r] = [b \in Activities |-> 0]]
                                \/ worth' = [worth EXCEPT ![r][a] = gain[a]]
      BY <1>2 DEF CancelRead
    <3>3. a \in Activities /\ gain[a] \in Int
      BY DEF TypeOK
    <3>4. [worth[r] EXCEPT ![a] = gain[a]] \in [Activities -> Int]
      BY <3>3 DEF TypeOK
    <3>5. \/ worth' = [worth EXCEPT ![r] = [b \in Activities |-> 0]]
          \/ worth' = [worth EXCEPT ![r] = [worth[r] EXCEPT ![a] = gain[a]]]
      BY <3>2
    <3> QED
      BY <3>1, <3>4, <3>5 DEF TypeOK
  <2>3. /\ unread' \in [Requests -> SUBSET Activities]
        /\ found' \in [Requests -> SUBSET Activities]
        /\ live' \in [Requests -> SUBSET Activities]
    <3>1. CASE TurnToVote(r)
      BY <2>1, <3>1, TurnType
    <3>2. ASSUME NEW a \in unread[r], LookUp(r, a), NEW alive \in SUBSET Activities,
                 found' = [found EXCEPT ![r] = @ \cup ({a} \cap exists)],
                 live' = [live EXCEPT ![r] = alive]
          PROVE  /\ unread' \in [Requests -> SUBSET Activities]
                 /\ found' \in [Requests -> SUBSET Activities]
                 /\ live' \in [Requests -> SUBSET Activities]
      BY <3>2 DEF LookUp, TypeOK
    <3>3. \A a \in unread[r] : live[r] \cup ({a} \cap active) \in SUBSET Activities
      BY DEF TypeOK
    <3> QED
      BY <1>2, <3>1, <3>2, <3>3 DEF CancelRead
  <2> QED
    BY <1>2, <2>1, <2>2, <2>3 DEF TypeOK, CancelRead, table
<1>3. ASSUME NEW r \in Requests, CancelLock(r) PROVE TypeOK'
  <2>1. pc' \in [Requests -> PCs]
    BY <1>3, GotoType DEF CancelLock, PCs
  <2>2. locked' \in [Users -> Requests \cup {None}] /\ seen' \in [Requests -> [Users -> Int]]
    BY <1>3, AcquireType DEF CancelLock
  <2> QED
    BY <1>3, <2>1, <2>2 DEF TypeOK, CancelLock, table, lookup
<1>4. ASSUME NEW r \in Requests, CancelCommit(r) PROVE TypeOK'
  <2>1. pc' \in [Requests -> PCs] /\ pc[r] \notin {"new", "failed"}
    BY <1>4 DEF CancelCommit, AfterCancel, Goto, TypeOK, PCs
  <2>2. rank' \in [Users -> Int]
    <3> DEFINE taken(u) == Booked(r, found[r] \cap active, u)
    <3>1. \A u \in Users : taken(u) \in SUBSET Activities
      BY DEF Booked, TypeOK
    <3> HIDE DEF taken
    <3>2. ASSUME NEW u \in Users, taken(u) # {}
          PROVE  ChangeUserRank(rank[u], seen[r][u], -worth[r][CHOOSE a \in taken(u) : TRUE]) \in Int
      <4>1. worth[r][CHOOSE a \in taken(u) : TRUE] \in Int /\ seen[r][u] \in Int /\ rank[u] \in Int
        BY <3>1, <3>2, ChosenWorth DEF TypeOK
      <4> DEFINE w == worth[r][CHOOSE a \in taken(u) : TRUE]
      <4> HIDE DEF w
      <4>2. -w \in Int
        BY <4>1 DEF w
      <4> QED
        BY <4>1, <4>2, ChangeUserRankBound DEF w
    <3> QED
      BY <1>4, <3>2 DEF CancelCommit, TypeOK, taken
  <2>3. /\ locked' \in [Users -> Requests \cup {None}]
        /\ seen' \in [Requests -> [Users -> Int]]
        /\ worth' \in [Requests -> [Activities -> Int]]
        /\ missing' \in [Requests -> SUBSET Activities]
    BY <1>4, EndType DEF CancelCommit
  <2>4. /\ unread' \in [Requests -> SUBSET Activities]
        /\ found' \in [Requests -> SUBSET Activities]
        /\ live' \in [Requests -> SUBSET Activities]
    BY <1>4, <2>1, TurnType DEF CancelCommit
  <2> QED
    BY <1>4, <2>1, <2>2, <2>3, <2>4 DEF TypeOK, CancelCommit
<1>5. ASSUME NEW r \in Requests, VotePreCheck(r) PROVE TypeOK'
  <2>1. pc' \in [Requests -> PCs]
    BY <1>5 DEF VotePreCheck, Goto, TypeOK, PCs
  <2>2. /\ unread' \in [Requests -> SUBSET Activities]
        /\ live' \in [Requests -> SUBSET Activities]
    <3>1. \A a \in unread[r] : live[r] \cup ({a} \cap active) \in SUBSET Activities
      BY DEF TypeOK
    <3> QED
      BY <1>5, <3>1 DEF VotePreCheck, LookUp, TypeOK
  <2> QED
    BY <1>5, <2>1, <2>2 DEF TypeOK, VotePreCheck, table
<1>6. ASSUME NEW r \in Requests, VoteLock(r) PROVE TypeOK'
  <2>1. pc' \in [Requests -> PCs]
    BY <1>6, GotoType DEF VoteLock, PCs
  <2>2. locked' \in [Users -> Requests \cup {None}] /\ seen' \in [Requests -> [Users -> Int]]
    BY <1>6, AcquireType DEF VoteLock
  <2> QED
    BY <1>6, <2>1, <2>2 DEF TypeOK, VoteLock, table, lookup
<1>7. ASSUME NEW r \in Requests, VoteCheck(r) PROVE TypeOK'
  <2>1. pc' \in [Requests -> PCs] /\ pc[r] \notin {"new", "failed"}
    BY <1>7 DEF VoteCheck, Goto, TypeOK, PCs
  <2>2. worth' \in [Requests -> [Activities -> Int]]
    <3>1. [a \in Activities |-> IF a \in VoteOp(r) THEN Granted(r, a) ELSE 0] \in [Activities -> Int]
      BY GrantedType
    <3> QED
      BY <1>7, <3>1 DEF VoteCheck, TypeOK
  <2>3. missing' \in [Requests -> SUBSET Activities]
    <3>1. VoteOp(r) \ exists \in SUBSET Activities
      BY <2>1, VoteOpType
    <3> QED
      BY <1>7, <3>1 DEF VoteCheck, TypeOK
  <2> QED
    BY <1>7, <2>1, <2>2, <2>3 DEF TypeOK, VoteCheck, table, lookup
<1>8. ASSUME NEW r \in Requests, VoteCommit(r) PROVE TypeOK'
  <2>1. pc' \in [Requests -> PCs] /\ pc[r] \notin {"new", "failed"}
    BY <1>8 DEF VoteCommit, Goto, TypeOK, PCs
  <2>2. exists' \subseteq Activities /\ active' \subseteq exists'
    <3>1. VoteOp(r) \subseteq Activities /\ missing[r] = VoteOp(r) \ exists
      BY <1>8, <2>1, VoteOpType DEF VoteCommit, Goto, MissingRows
    <3> QED
      BY <1>8, <3>1 DEF VoteCommit, TypeOK
  <2>3. inserts' \in [Activities -> Nat] /\ gain' \in [Activities -> Int]
    BY <1>8 DEF VoteCommit, TypeOK
  <2>4. rank' \in [Users -> Int]
    <3> DEFINE mine(u) == Booked(r, VoteOp(r), u)
    <3>1. \A u \in Users : mine(u) \in SUBSET Activities
      BY <2>1, VoteOpType DEF Booked
    <3>2. ASSUME NEW u \in Users, mine(u) # {}
          PROVE  ChangeUserRank(rank[u], seen[r][u], worth[r][CHOOSE a \in mine(u) : TRUE]) \in Int
      <4>1. worth[r][CHOOSE a \in mine(u) : TRUE] \in Int /\ seen[r][u] \in Int /\ rank[u] \in Int
        BY <3>1, <3>2, ChosenWorth DEF TypeOK
      <4> QED
        BY <4>1, ChangeUserRankBound
    <3> HIDE DEF mine
    <3> QED
      BY <1>8, <3>2 DEF VoteCommit, TypeOK, mine
  <2>5. inbox' \in [Voters \X Directions -> Nat]
    <3>1. <<job[r].voter, job[r].dir>> \in Voters \X Directions
      BY <2>1, <1>8 DEF VotersVote, TypeOK, Jobs
    <3> DEFINE p == <<job[r].voter, job[r].dir>>
    <3>2. inbox' = inbox \/ inbox' = [inbox EXCEPT ![p] = @ + 1]
      BY <1>8 DEF VoteCommit
    <3>3. inbox[p] + 1 \in Nat
      BY <3>1 DEF TypeOK
    <3> QED
      BY <3>2, <3>3 DEF TypeOK
  <2>6. /\ locked' \in [Users -> Requests \cup {None}]
        /\ seen' \in [Requests -> [Users -> Int]]
        /\ worth' \in [Requests -> [Activities -> Int]]
        /\ missing' \in [Requests -> SUBSET Activities]
    BY <1>8, EndType DEF VoteCommit
  <2> QED
    BY <1>8, <2>1, <2>2, <2>3, <2>4, <2>5, <2>6 DEF TypeOK, VoteCommit, lookup
<1>9. ASSUME NEW r \in Requests, CountVoteUp(r) PROVE TypeOK'
  <2>1. pc' \in [Requests -> PCs]
    BY <1>9, GotoType DEF CountVoteUp, PCs
  <2>2. counted' \in [Requests -> [Directions -> Nat]]
    BY <1>9, CountType DEF CountVoteUp, TypeOK
  <2> QED
    BY <1>9, <2>1, <2>2 DEF TypeOK, CountVoteUp, table, lookup
<1>10. ASSUME NEW r \in Requests, CountVoteDown(r) PROVE TypeOK'
  <2>1. pc' \in [Requests -> PCs]
    BY <1>10, GotoType DEF CountVoteDown, PCs
  <2>2. counted' \in [Requests -> [Directions -> Nat]]
    BY <1>10, CountType DEF CountVoteDown, TypeOK
  <2> QED
    BY <1>10, <2>1, <2>2 DEF TypeOK, CountVoteDown, table, lookup
<1>11. ASSUME NEW r \in Requests, UpdateVotes(r) PROVE TypeOK'
  <2>1. pc' \in [Requests -> PCs]
    BY <1>11, GotoType DEF UpdateVotes, PCs
  <2>2. voteCount' \in Int
    <3>1. counted[r]["up"] \in Nat /\ counted[r]["down"] \in Nat
      BY DEF TypeOK, Directions
    <3> QED
      BY <1>11, <3>1 DEF UpdateVotes
  <2>3. counted' \in [Requests -> [Directions -> Nat]]
    <3>1. [d \in Directions |-> 0] \in [Directions -> Nat]
      OBVIOUS
    <3> QED
      BY <1>11, <3>1 DEF UpdateVotes, TypeOK
  <2> QED
    BY <1>11, <2>1, <2>2, <2>3 DEF TypeOK, UpdateVotes, table, lookup
<1>12. ASSUME NEW r \in Requests, Fail(r) PROVE TypeOK'
  <2>1. pc' \in [Requests -> PCs]
    BY <1>12 DEF Fail, TypeOK, PCs
  <2>2. failures' \in 0..MaxFailures
    BY <1>12 DEF Fail, TypeOK
  <2>3. /\ locked' \in [Users -> Requests \cup {None}]
        /\ seen' \in [Requests -> [Users -> Int]]
        /\ worth' \in [Requests -> [Activities -> Int]]
        /\ missing' \in [Requests -> SUBSET Activities]
    BY <1>12, EndType DEF Fail
  <2>4. /\ unread' \in [Requests -> SUBSET Activities]
        /\ found' \in [Requests -> SUBSET Activities]
        /\ live' \in [Requests -> SUBSET Activities]
    BY <1>12 DEF Fail, TypeOK
  <2> QED
    BY <1>12, <2>1, <2>2, <2>3, <2>4 DEF TypeOK, Fail, table
<1>13. ASSUME NEW r \in Requests, FailCounting(r) PROVE TypeOK'
  <2>1. pc' \in [Requests -> PCs]
    BY <1>13 DEF FailCounting, Goto, TypeOK, PCs
  <2>2. failures' \in 0..MaxFailures
    BY <1>13 DEF FailCounting, TypeOK
  <2>3. counted' \in [Requests -> [Directions -> Nat]]
    <3>1. [d \in Directions |-> 0] \in [Directions -> Nat]
      OBVIOUS
    <3>2. \/ counted' = [counted EXCEPT ![r]["up"] = 0]
          \/ counted' = [counted EXCEPT ![r]["down"] = 0]
          \/ counted' = [counted EXCEPT ![r] = [d \in Directions |-> 0]]
      BY <1>13 DEF FailCounting
    <3>3. /\ [counted[r] EXCEPT !["up"] = 0] \in [Directions -> Nat]
          /\ [counted[r] EXCEPT !["down"] = 0] \in [Directions -> Nat]
      BY DEF TypeOK
    <3> QED
      BY <3>1, <3>2, <3>3 DEF TypeOK
  <2> QED
    BY <1>13, <2>1, <2>2, <2>3 DEF TypeOK, FailCounting, table, lookup
<1>14. ASSUME DeleteObject PROVE TypeOK'
  BY <1>14 DEF DeleteObject, TypeOK, table, local, lookup
<1>15. ASSUME UNCHANGED vars PROVE TypeOK'
  BY <1>15 DEF vars, TypeOK, table, local, lookup
<1> QED
  BY <1>1, <1>2, <1>3, <1>4, <1>5, <1>6, <1>7, <1>8, <1>9, <1>10,
     <1>11, <1>12, <1>13, <1>14, <1>15
     DEF Next, Step, AllAnswered

Rest == VotersVote /\ LockDiscipline /\ MissingRows /\ RankAtLeastOne /\ Notified

(* A step outside the transactions touches nothing the locks protect. *)
LEMMA QuietStep ==
  ASSUME TypeOK, Rest, NEW r \in Requests, NEW to \in PCs \ (Locking \cup {"new"}),
         pc[r] \notin Locking \cup {"new", "failed"}, pc' = [pc EXCEPT ![r] = to],
         UNCHANGED <<exists, inserts, rank, locked, seen, job, missing, inbox>>
  PROVE  Rest'
<1>1. \A q \in Requests : pc'[q] = IF q = r THEN to ELSE pc[q]
  BY DEF TypeOK
<1>2. VotersVote'
  BY <1>1 DEF Rest, VotersVote
<1>3. LockDiscipline'
  BY <1>1 DEF Rest, LockDiscipline, Locking, VoteOp
<1>4. MissingRows'
  BY <1>1 DEF Rest, MissingRows, Locking, VoteOp
<1>5. RankAtLeastOne' /\ Notified'
  BY DEF Rest, RankAtLeastOne, Notified
<1> QED
  BY <1>2, <1>3, <1>4, <1>5 DEF Rest

(* FOR UPDATE: the locks are free, and the ranks read are those in the table. *)
LEMMA AcquireStep ==
  ASSUME TypeOK, Rest, NEW r \in Requests, NEW to \in {"cancel_commit", "vote_check"},
         pc[r] \notin Locking \cup {"new", "failed"}, pc' = [pc EXCEPT ![r] = to],
         NEW users, AcquireUserInfo(r, users),
         to = "vote_check" => users = {UserOf(a) : a \in VoteOp(r)},
         UNCHANGED <<exists, inserts, rank, job, missing, inbox>>
  PROVE  Rest'
<1>1. \A q \in Requests : pc'[q] = IF q = r THEN to ELSE pc[q]
  BY DEF TypeOK
<1>2. VotersVote'
  BY <1>1 DEF Rest, VotersVote
<1>3. \A q \in Requests : seen'[q] = IF q = r THEN rank ELSE seen[q]
  BY DEF AcquireUserInfo, TypeOK
<1>4. \A u \in Users : locked'[u] = IF u \in users THEN r ELSE locked[u]
  BY DEF AcquireUserInfo
<1>5. ASSUME NEW u \in Users, NEW q \in Requests, locked'[u] = q
      PROVE  pc'[q] \in Locking /\ seen'[q][u] = rank'[u]
  <2>1. CASE q = r
    BY <1>1, <1>3, <2>1 DEF Locking
  <2>2. CASE q # r
    <3>1. locked[u] = q
      BY <1>4, <1>5, <2>2
    <3> QED
      BY <1>1, <1>3, <2>2, <3>1 DEF Rest, LockDiscipline
  <2> QED
    BY <2>1, <2>2
<1>6. ASSUME NEW q \in Requests, pc'[q] \in {"vote_check", "vote_commit"}, NEW a \in VoteOp(q)
      PROVE  locked'[UserOf(a)] = q
  <2>1. CASE q = r
    <3>1. UserOf(a) \in users /\ UserOf(a) \in Users
      BY <1>1, <1>6, <2>1, VoteOpType DEF Rest
    <3> QED
      BY <1>4, <2>1, <3>1
  <2>2. CASE q # r
    <3>1. pc[q] \in {"vote_check", "vote_commit"}
      BY <1>1, <1>6, <2>2
    <3>2. locked[UserOf(a)] = q /\ UserOf(a) \in Users
      BY <3>1, VoteOpType DEF Rest, LockDiscipline
    <3>3. UserOf(a) \notin users
      BY <3>2 DEF AcquireUserInfo
    <3> QED
      BY <1>4, <3>2, <3>3
  <2> QED
    BY <2>1, <2>2
<1>7. LockDiscipline'
  BY <1>5, <1>6 DEF LockDiscipline, VoteOp
<1>8. MissingRows'
  BY <1>1 DEF Rest, MissingRows, VoteOp
<1>9. RankAtLeastOne' /\ Notified'
  BY DEF Rest, RankAtLeastOne, Notified
<1> QED
  BY <1>2, <1>7, <1>8, <1>9 DEF Rest

(* The end of a transaction: only users locked by it have a new rank, and that
   is at least 1; the locks of the others are as they were. *)
LEMMA EndStep ==
  ASSUME TypeOK, Rest, NEW r \in Requests, NEW to \in PCs \ (Locking \cup {"new"}),
         pc[r] \notin {"new", "failed"}, pc' = [pc EXCEPT ![r] = to], EndTransaction(r),
         \A u \in Users : rank'[u] = rank[u] \/ (locked[u] = r /\ rank'[u] >= 1),
         UNCHANGED job
  PROVE  VotersVote' /\ LockDiscipline' /\ RankAtLeastOne'
<1>1. \A q \in Requests : pc'[q] = IF q = r THEN to ELSE pc[q]
  BY DEF TypeOK
<1>2. VotersVote'
  BY <1>1 DEF Rest, VotersVote
<1>3. \A u \in Users : locked'[u] = IF locked[u] = r THEN None ELSE locked[u]
  BY DEF EndTransaction
<1>4. \A q \in Requests : q # r => seen'[q] = seen[q]
  BY DEF EndTransaction, TypeOK
<1>5. ASSUME NEW u \in Users, NEW q \in Requests, locked'[u] = q
      PROVE  pc'[q] \in Locking /\ seen'[q][u] = rank'[u]
  <2>1. locked[u] = q /\ q # r
    BY <1>3, <1>5
  <2>2. rank'[u] = rank[u]
    BY <2>1
  <2> QED
    BY <1>1, <1>4, <2>1, <2>2 DEF Rest, LockDiscipline
<1>6. ASSUME NEW q \in Requests, pc'[q] \in {"vote_check", "vote_commit"}, NEW a \in VoteOp(q)
      PROVE  locked'[UserOf(a)] = q
  <2>1. q # r /\ pc[q] \in {"vote_check", "vote_commit"}
    BY <1>1, <1>6 DEF Locking
  <2>2. locked[UserOf(a)] = q /\ UserOf(a) \in Users
    BY <2>1, VoteOpType DEF Rest, LockDiscipline
  <2> QED
    BY <1>3, <2>1, <2>2
<1>7. LockDiscipline'
  BY <1>5, <1>6 DEF LockDiscipline, VoteOp
<1>8. RankAtLeastOne'
  BY DEF Rest, RankAtLeastOne
<1> QED
  BY <1>2, <1>7, <1>8

(* When a transaction ends, nobody else's list of missing rows is touched. *)
LEMMA EndMissing ==
  ASSUME TypeOK, Rest, NEW r \in Requests, NEW to \in PCs \ (Locking \cup {"new"}),
         pc' = [pc EXCEPT ![r] = to], EndTransaction(r),
         UNCHANGED <<exists, inserts, job>>
  PROVE  MissingRows'
<1>1. \A q \in Requests : pc'[q] = IF q = r THEN to ELSE pc[q]
  BY DEF TypeOK
<1>2. \A q \in Requests : q # r => missing'[q] = missing[q]
  BY DEF EndTransaction, TypeOK
<1> QED
  BY <1>1, <1>2 DEF Rest, MissingRows, Locking, VoteOp

(* The rank that a transaction writes: it was read under the lock. *)
LEMMA BookedBound ==
  ASSUME TypeOK, Rest, NEW r \in Requests, NEW u \in Users, NEW rows \in SUBSET Activities,
         Booked(r, rows, u) # {}, NEW delta \in Int
  PROVE  locked[u] = r /\ ChangeUserRank(rank[u], seen[r][u], delta) >= 1
<1>1. locked[u] = r
  BY DEF Booked
<1>2. seen[r][u] = rank[u] /\ rank[u] >= 1 /\ seen[r][u] \in Int
  BY <1>1 DEF Rest, LockDiscipline, RankAtLeastOne, TypeOK
<1> QED
  BY <1>1, <1>2, ChangeUserRankBound

(* CancelCommit rolls ranks back under the lock. *)
LEMMA CancelCommitStep ==
  ASSUME TypeOK, Rest, NEW r \in Requests, CancelCommit(r)
  PROVE  Rest'
<1> DEFINE taken(u) == Booked(r, found[r] \cap active, u)
           w(u) == worth[r][CHOOSE a \in taken(u) : TRUE]
<1>1. AfterCancel(r) \in PCs \ (Locking \cup {"new"})
  BY DEF AfterCancel, PCs, Locking
<1>2. /\ pc[r] = "cancel_commit" /\ pc' = [pc EXCEPT ![r] = AfterCancel(r)]
      /\ EndTransaction(r)
      /\ UNCHANGED <<exists, inserts, job, inbox>>
  BY DEF CancelCommit, Goto
<1>3. ASSUME NEW u \in Users
      PROVE  rank'[u] = rank[u] \/ (locked[u] = r /\ rank'[u] >= 1)
  <2>1. CASE taken(u) = {}
    BY <2>1 DEF CancelCommit
  <2>2. CASE taken(u) # {}
    <3>1. taken(u) \in SUBSET Activities /\ found[r] \cap active \in SUBSET Activities
      BY DEF Booked, TypeOK
    <3>2. w(u) \in Int
      BY <2>2, <3>1, ChosenWorth
    <3>3. rank'[u] = ChangeUserRank(rank[u], seen[r][u], -w(u))
      BY <2>2 DEF CancelCommit
    <3>4. Booked(r, found[r] \cap active, u) # {}
      BY <2>2
    <3> HIDE DEF w, taken
    <3>5. PICK delta \in Int : delta = -w(u)
      BY <3>2
    <3>6. PICK rows \in SUBSET Activities : rows = found[r] \cap active
      BY <3>1
    <3>7. Booked(r, rows, u) # {}
      BY <3>4, <3>6
    <3>8. locked[u] = r /\ ChangeUserRank(rank[u], seen[r][u], delta) >= 1
      BY <3>7, BookedBound
    <3> QED
      BY <3>3, <3>5, <3>8
  <2> QED
    BY <2>1, <2>2
<1>4. VotersVote' /\ LockDiscipline' /\ RankAtLeastOne'
  BY <1>1, <1>2, <1>3, EndStep
<1>5. MissingRows'
  BY <1>1, <1>2, EndMissing
<1>6. Notified'
  BY <1>2 DEF Rest, Notified
<1> QED
  BY <1>4, <1>5, <1>6 DEF Rest

(* Fail rolls the transaction back. *)
LEMMA FailStep ==
  ASSUME TypeOK, Rest, NEW r \in Requests, Fail(r)
  PROVE  Rest'
<1>1. "failed" \in PCs \ (Locking \cup {"new"})
  BY DEF PCs, Locking
<1>2. /\ pc[r] \notin {"new", "failed"} /\ pc' = [pc EXCEPT ![r] = "failed"]
      /\ EndTransaction(r)
      /\ UNCHANGED <<exists, inserts, job, inbox, rank>>
  BY DEF Fail, Locking, table
<1>3. VotersVote' /\ LockDiscipline' /\ RankAtLeastOne'
  BY <1>1, <1>2, EndStep
<1>4. MissingRows'
  BY <1>1, <1>2, EndMissing
<1>5. Notified'
  BY <1>2 DEF Rest, Notified
<1> QED
  BY <1>3, <1>4, <1>5 DEF Rest

(* Two requests that are about to write do not share a row: they would have
   locked the same user. *)
LEMMA DisjointVotes ==
  ASSUME TypeOK, Rest, NEW r \in Requests, NEW q \in Requests, q # r,
         pc[r] = "vote_commit", pc[q] = "vote_commit"
  PROVE  VoteOp(r) \cap VoteOp(q) = {}
<1>1. \A a \in VoteOp(r) : locked[UserOf(a)] = r
  BY DEF Rest, LockDiscipline
<1>2. \A a \in VoteOp(q) : locked[UserOf(a)] = q
  BY DEF Rest, LockDiscipline
<1> QED
  BY <1>1, <1>2

(* VoteCommit writes the rows that are missing, and ranks under the lock. *)
LEMMA VoteCommitStep ==
  ASSUME TypeOK, Rest, NEW r \in Requests, VoteCommit(r)
  PROVE  Rest'
<1> DEFINE op == VoteOp(r)
           p == <<job[r].voter, job[r].dir>>
           mine(u) == Booked(r, op, u)
           w(u) == worth[r][CHOOSE a \in mine(u) : TRUE]
<1>1. /\ pc[r] = "vote_commit" /\ pc' = [pc EXCEPT ![r] = "count_up"]
      /\ "count_up" \in PCs \ (Locking \cup {"new"})
      /\ EndTransaction(r)
      /\ UNCHANGED job
  BY DEF VoteCommit, Goto, PCs, Locking
<1>2. op \subseteq Activities
  BY <1>1, VoteOpType DEF Rest
<1>3. missing[r] = op \ exists
  BY <1>1 DEF Rest, MissingRows
<1>4. ASSUME NEW u \in Users
      PROVE  rank'[u] = rank[u] \/ (locked[u] = r /\ rank'[u] >= 1)
  <2>1. CASE mine(u) = {}
    BY <2>1 DEF VoteCommit
  <2>2. CASE mine(u) # {}
    <3>1. mine(u) \in SUBSET Activities
      BY <1>2 DEF Booked
    <3>2. w(u) \in Int
      BY <2>2, <3>1, ChosenWorth
    <3>3. rank'[u] = ChangeUserRank(rank[u], seen[r][u], w(u))
      BY <2>2 DEF VoteCommit
    <3> HIDE DEF w, op
    <3>4. PICK delta \in Int : delta = w(u)
      BY <3>2
    <3>5. PICK rows \in SUBSET Activities : rows = op
      BY <1>2
    <3>6. Booked(r, rows, u) # {}
      BY <2>2, <3>5
    <3>7. locked[u] = r /\ ChangeUserRank(rank[u], seen[r][u], delta) >= 1
      BY <3>6, BookedBound
    <3> QED
      BY <3>3, <3>4, <3>7
  <2> QED
    BY <2>1, <2>2
<1>5. VotersVote' /\ LockDiscipline' /\ RankAtLeastOne'
  BY <1>1, <1>4, EndStep
<1>6. MissingRows'
  <2>1. \A a \in Activities : inserts'[a] = IF a \in missing[r] THEN inserts[a] + 1 ELSE inserts[a]
    BY DEF VoteCommit
  <2>2. exists' = exists \cup missing[r]
    BY DEF VoteCommit
  <2>3. \A a \in Activities : inserts'[a] = IF a \in exists' THEN 1 ELSE 0
    BY <1>3, <2>1, <2>2 DEF Rest, MissingRows
  <2>4. ASSUME NEW q \in Requests, pc'[q] = "vote_commit"
        PROVE  missing'[q] = VoteOp(q) \ exists'
    <3>1. q # r /\ pc[q] = "vote_commit"
      BY <1>1, <2>4 DEF TypeOK
    <3>2. missing'[q] = missing[q] /\ missing[q] = VoteOp(q) \ exists
      BY <1>1, <3>1 DEF EndTransaction, TypeOK, Rest, MissingRows
    <3>3. op \cap VoteOp(q) = {}
      BY <1>1, <3>1, DisjointVotes
    <3> QED
      BY <1>3, <2>2, <3>2, <3>3
  <2> QED
    BY <1>1, <2>3, <2>4 DEF MissingRows, VoteOp
<1>7. Notified'
  <2>1. exists \subseteq exists' /\ op \subseteq exists'
    BY <1>3 DEF VoteCommit
  <2>2. p \in Voters \X Directions
    BY <1>1 DEF Rest, VotersVote, TypeOK, Jobs
  <2>3. inbox' = inbox \/ (missing[r] # {} /\ inbox' = [inbox EXCEPT ![p] = @ + 1])
    BY DEF VoteCommit, Noticed
  <2>4. missing[r] # {} => inbox[p] = 0
    BY <1>3, <2>2 DEF Rest, Notified, VoteOp
  <2>5. ASSUME NEW v \in Voters, NEW d \in Directions
        PROVE  inbox'[<<v, d>>] = 0 \/ (inbox'[<<v, d>>] = 1 /\ Op(v, d) \subseteq exists')
    <3>1. CASE inbox'[<<v, d>>] = inbox[<<v, d>>]
      BY <2>1, <3>1 DEF Rest, Notified
    <3>2. CASE inbox'[<<v, d>>] # inbox[<<v, d>>]
      <4>1. <<v, d>> = p /\ missing[r] # {} /\ inbox'[p] = inbox[p] + 1
        BY <2>2, <2>3, <3>2 DEF TypeOK
      <4>2. v = job[r].voter /\ d = job[r].dir
        BY <4>1
      <4>3. Op(v, d) = op
        BY <4>2 DEF VoteOp
      <4> QED
        BY <2>1, <2>4, <4>1, <4>3
    <3> QED
      BY <3>1, <3>2
  <2> QED
    BY <2>5 DEF Notified
<1> QED
  BY <1>5, <1>6, <1>7 DEF Rest

(* A request that begins holds no lock. *)
LEMMA BeginStep ==
  ASSUME TypeOK, Rest, NEW r \in Requests, NEW v \in Users, NEW d \in Asked,
         NEW c \in BOOLEAN, Begin(r, v, d, c)
  PROVE  Rest'
<1>1. /\ pc[r] = "new"
      /\ \A q \in Requests : pc'[q] = IF q = r THEN IF deleted \/ v = Owner THEN "failed" ELSE "cancel"
                                                 ELSE pc[q]
      /\ \A q \in Requests : q # r => job'[q] = job[q]
      /\ job'[r] = [voter |-> v, dir |-> d, cancel |-> c]
      /\ UNCHANGED <<exists, inserts, rank, locked, seen, missing, inbox>>
  BY DEF Begin, Goto, TypeOK, table
<1>2. VotersVote'
  BY <1>1 DEF Rest, VotersVote, Users
<1>3. LockDiscipline'
  BY <1>1 DEF Rest, LockDiscipline, Locking, VoteOp
<1>4. MissingRows'
  BY <1>1 DEF Rest, MissingRows, VoteOp
<1>5. RankAtLeastOne' /\ Notified'
  BY <1>1 DEF Rest, RankAtLeastOne, Notified
<1> QED
  BY <1>2, <1>3, <1>4, <1>5 DEF Rest

(* VoteCheck reads which rows are missing, under the locks. *)
LEMMA VoteCheckStep ==
  ASSUME TypeOK, Rest, NEW r \in Requests, VoteCheck(r)
  PROVE  Rest'
<1>1. /\ pc[r] = "vote_check"
      /\ \A q \in Requests : pc'[q] = IF q = r THEN "vote_commit" ELSE pc[q]
      /\ \A q \in Requests : missing'[q] = IF q = r THEN VoteOp(r) \ exists ELSE missing[q]
      /\ UNCHANGED <<exists, inserts, rank, locked, seen, job, inbox>>
  BY DEF VoteCheck, Goto, TypeOK, table
<1>2. VotersVote'
  BY <1>1 DEF Rest, VotersVote
<1>3. LockDiscipline'
  BY <1>1 DEF Rest, LockDiscipline, Locking, VoteOp
<1>4. MissingRows'
  BY <1>1 DEF Rest, MissingRows, VoteOp
<1>5. RankAtLeastOne' /\ Notified'
  BY <1>1 DEF Rest, RankAtLeastOne, Notified
<1> QED
  BY <1>2, <1>3, <1>4, <1>5 DEF Rest

(* Every step keeps what the row locks protect. *)
LEMMA RestStep == TypeOK /\ Rest /\ [Next]_vars => Rest'
<1> SUFFICES ASSUME TypeOK, Rest, [Next]_vars PROVE Rest'
  OBVIOUS
<1>1. ASSUME NEW r \in Requests, NEW v \in Users, NEW d \in Asked, NEW c \in BOOLEAN,
             Begin(r, v, d, c)
      PROVE  Rest'
  BY <1>1, BeginStep
<1>2. ASSUME NEW r \in Requests, CancelRead(r) PROVE Rest'
  <2>1. PICK to \in PCs \ (Locking \cup {"new"}) : Goto(r, "cancel", to)
    BY <1>2 DEF CancelRead, AfterCancel, PCs, Locking
  <2>2. /\ pc[r] \notin Locking \cup {"new", "failed"} /\ pc' = [pc EXCEPT ![r] = to]
        /\ UNCHANGED <<exists, inserts, rank, locked, seen, job, missing, inbox>>
    BY <1>2, <2>1 DEF CancelRead, Goto, Locking, table
  <2> QED
    BY <2>2, QuietStep
<1>3. ASSUME NEW r \in Requests, CancelLock(r) PROVE Rest'
  <2>1. /\ pc[r] \notin Locking \cup {"new", "failed"}
        /\ pc' = [pc EXCEPT ![r] = "cancel_commit"]
        /\ AcquireUserInfo(r, {UserOf(a) : a \in live[r]})
        /\ UNCHANGED <<exists, inserts, rank, job, missing, inbox>>
    BY <1>3 DEF CancelLock, Goto, Locking, table
  <2> QED
    BY <2>1, AcquireStep
<1>4. ASSUME NEW r \in Requests, CancelCommit(r) PROVE Rest'
  BY <1>4, CancelCommitStep
<1>5. ASSUME NEW r \in Requests, VotePreCheck(r) PROVE Rest'
  <2>1. PICK to \in PCs \ (Locking \cup {"new"}) : Goto(r, "vote", to)
    BY <1>5 DEF VotePreCheck, PCs, Locking
  <2>2. /\ pc[r] \notin Locking \cup {"new", "failed"} /\ pc' = [pc EXCEPT ![r] = to]
        /\ UNCHANGED <<exists, inserts, rank, locked, seen, job, missing, inbox>>
    BY <1>5, <2>1 DEF VotePreCheck, Goto, Locking, table
  <2> QED
    BY <2>2, QuietStep
<1>6. ASSUME NEW r \in Requests, VoteLock(r) PROVE Rest'
  <2>1. /\ pc[r] \notin Locking \cup {"new", "failed"}
        /\ pc' = [pc EXCEPT ![r] = "vote_check"]
        /\ AcquireUserInfo(r, {UserOf(a) : a \in VoteOp(r)})
        /\ UNCHANGED <<exists, inserts, rank, job, missing, inbox>>
    BY <1>6 DEF VoteLock, Goto, Locking, table
  <2> QED
    BY <2>1, AcquireStep
<1>7. ASSUME NEW r \in Requests, VoteCheck(r) PROVE Rest'
  BY <1>7, VoteCheckStep
<1>8. ASSUME NEW r \in Requests, VoteCommit(r) PROVE Rest'
  BY <1>8, VoteCommitStep
<1>9. ASSUME NEW r \in Requests, NEW from \in {"count_up", "count_down", "save"},
             NEW to \in {"count_down", "save", "done"}, Goto(r, from, to),
             UNCHANGED <<exists, inserts, rank, locked, seen, job, missing, inbox>>
      PROVE  Rest'
  <2>1. /\ pc[r] \notin Locking \cup {"new", "failed"} /\ pc' = [pc EXCEPT ![r] = to]
        /\ to \in PCs \ (Locking \cup {"new"})
    BY <1>9 DEF Goto, Locking, PCs
  <2> QED
    BY <1>9, <2>1, QuietStep
<1>10. ASSUME NEW r \in Requests, CountVoteUp(r) PROVE Rest'
  BY <1>9, <1>10 DEF CountVoteUp, table
<1>11. ASSUME NEW r \in Requests, CountVoteDown(r) PROVE Rest'
  BY <1>9, <1>11 DEF CountVoteDown, table
<1>12. ASSUME NEW r \in Requests, UpdateVotes(r) PROVE Rest'
  BY <1>9, <1>12 DEF UpdateVotes, table
<1>13. ASSUME NEW r \in Requests, FailCounting(r) PROVE Rest'
  BY <1>9, <1>13 DEF FailCounting, table
<1>14. ASSUME NEW r \in Requests, Fail(r) PROVE Rest'
  BY <1>14, FailStep
<1>15. CASE DeleteObject
  BY <1>15 DEF DeleteObject, Rest, VotersVote, LockDiscipline, MissingRows, RankAtLeastOne,
               Notified, VoteOp, table, local
<1>16. CASE UNCHANGED vars
  BY <1>16 DEF vars, Rest, VotersVote, LockDiscipline, MissingRows, RankAtLeastOne,
               Notified, VoteOp, table, local
<1> QED
  BY <1>1, <1>2, <1>3, <1>4, <1>5, <1>6, <1>7, <1>8, <1>10, <1>11, <1>12, <1>13, <1>14,
     <1>15, <1>16
     DEF Next, Step, AllAnswered

(* The conjunction of all parts is an invariant: types, the discipline of the
   row locks and what it protects. *)
THEOREM InvHolds == Safety => []Inv
<1>1. Inv /\ [Next]_vars => Inv'
  BY TypeStep, RestStep DEF Inv, Rest
<1> QED
  BY InitInv, <1>1, PTL DEF Safety

(* No sequence of concurrent votes, cancellations and failures takes the rank
   of a user below 1. *)
THEOREM RankStaysAtLeastOne == Safety => []RankAtLeastOne
<1>1. Inv => RankAtLeastOne
  BY DEF Inv
<1> QED
  BY <1>1, InvHolds, PTL

(* Requests that vote at the same time do not insert the same row twice. *)
THEOREM RowsAreUnique == Safety => []NoDuplicateRows
<1>1. Inv => NoDuplicateRows
  BY DEF Inv, MissingRows, NoDuplicateRows
<1> QED
  BY <1>1, InvHolds, PTL

(* The creator gets at most one notification for a voter's vote. *)
THEOREM CreatorNotifiedOnce == Safety => []NotifiedOnce
<1>1. Inv => NotifiedOnce
  <2> SUFFICES ASSUME Inv, NEW v \in Voters, NEW d \in Directions PROVE inbox[<<v, d>>] <= 1
    BY DEF Inv, TypeOK, NotifiedOnce
  <2> QED
    BY DEF Inv, Notified
<1> QED
  BY <1>1, InvHolds, PTL

-----------------------------------------------------------------------------
(* Voters that wait for each answer.  The rows that a request cancels. *)
Target(r) == Op(job[r].voter, IF job[r].cancel THEN job[r].dir ELSE Opposite(job[r].dir))

Voting == {"vote", "vote_lock", "vote_check", "vote_commit"}
Counting == {"count_up", "count_down", "save"}

Whole(rows, op) == op \subseteq rows \/ op \cap rows = {}

OneEach == \A r, q \in InProgress : job[r].voter = job[q].voter => r = q

BothOrNone ==
  \A v \in Voters, d \in Directions : Whole(exists, Op(v, d)) /\ Whole(active, Op(v, d))

(* What a request has read of the voter's rows is what the table says, and they
   are as far as the request has come. *)
Progress(r) ==
  /\ pc[r] = "cancel" =>
       /\ unread[r] \subseteq Target(r)
       /\ found[r] = (Target(r) \ unread[r]) \cap exists
       /\ live[r] = (Target(r) \ unread[r]) \cap active
  /\ pc[r] \in {"cancel_lock", "cancel_commit"} => found[r] = Target(r) \cap exists
  /\ pc[r] \in Voting => ~job[r].cancel /\ Target(r) \cap active = {}
  /\ pc[r] = "vote" =>
       /\ unread[r] \subseteq VoteOp(r)
       /\ live[r] = (VoteOp(r) \ unread[r]) \cap active
  /\ pc[r] \in Counting /\ ObjectType = "answer" => Target(r) \cap active = {}
  /\ pc[r] \in Counting /\ ~job[r].cancel => VoteOp(r) \subseteq active

(* A request that is yet to arrive has read nothing. *)
Fresh == \A r \in Requests : pc[r] = "new" => found[r] = {} /\ live[r] = {}

Patience == OneEach /\ BothOrNone /\ Fresh /\ \A r \in InProgress : Progress(r)

(* The rows of different votes are different. *)
LEMMA OpApart ==
  ASSUME NEW v \in Voters, NEW w \in Voters, NEW d \in Directions, NEW e \in Directions,
         ObjectType = "answer", v # w \/ d # e
  PROVE  Op(v, d) \cap Op(w, e) = {}
BY DEF Op, Sides

LEMMA SameOrApart ==
  ASSUME NEW v \in Voters, NEW w \in Voters, NEW d \in Directions, NEW e \in Directions
  PROVE  Op(v, d) \cap Op(w, e) = {} \/ Op(v, d) = Op(w, e)
<1>1. CASE ObjectType = "comment" /\ v = w
  BY <1>1 DEF Op
<1>2. CASE v = w /\ d = e
  BY <1>2
<1>3. CASE v # w
  BY <1>3 DEF Op
<1>4. CASE ObjectType # "comment" /\ d # e
  BY <1>4 DEF Op
<1> QED
  BY <1>1, <1>2, <1>3, <1>4

LEMMA OpOf ==
  ASSUME NEW v \in Voters, NEW d \in Directions, NEW a \in Op(v, d)
  PROVE  a \in Activities /\ a[1] = v
BY DEF Op, Activities, Directions, Sides

LEMMA OppositeIs ==
  ASSUME NEW d \in Directions
  PROVE  Opposite(d) \in Directions /\ Opposite(d) # d
BY DEF Opposite, Directions

(* What a request is about. *)
LEMMA JobIs ==
  ASSUME Inv, NEW r \in InProgress
  PROVE  \E v \in Voters, d \in Directions, e \in Directions :
           /\ job[r].voter = v /\ job[r].dir = d
           /\ VoteOp(r) = Op(v, d) /\ Target(r) = Op(v, e)
           /\ IF job[r].cancel THEN e = d ELSE e = Opposite(d)
<1>1. job[r].voter \in Voters /\ job[r].dir \in Directions
  BY DEF Inv, TypeOK, VotersVote, InProgress, Jobs
<1> QED
  BY <1>1, OppositeIs DEF VoteOp, Target

LEMMA JobRows ==
  ASSUME Inv, NEW r \in InProgress
  PROVE  VoteOp(r) \in SUBSET Activities /\ Target(r) \in SUBSET Activities
<1>1. PICK v \in Voters, d \in Directions, e \in Directions : VoteOp(r) = Op(v, d) /\ Target(r) = Op(v, e)
  BY JobIs
<1> QED
  BY <1>1, OpType

(* A step of one request and the others. *)
Turn(r) ==
  /\ r \in InProgress
  /\ InProgress' \subseteq InProgress
  /\ pc'[r] # "new"
  /\ job' = job
  /\ \A q \in Requests : q # r => /\ pc'[q] = pc[q] /\ unread'[q] = unread[q]
                                 /\ found'[q] = found[q] /\ live'[q] = live[q]

(* The rows of other voters are not touched. *)
Elsewhere(r) ==
  \A a \in Activities : a[1] # job[r].voter =>
    (a \in active' <=> a \in active) /\ (a \in exists' <=> a \in exists)

LEMMA OthersProgress ==
  ASSUME Inv, Patience, NEW r \in Requests, Turn(r), Elsewhere(r), NEW q \in InProgress', q # r
  PROVE  Progress(q)'
<1>1. q \in InProgress /\ r \in InProgress /\ Progress(q) /\ job[q].voter # job[r].voter
  BY DEF Patience, OneEach, Turn
<1>2. PICK v \in Voters, d \in Directions, e \in Directions :
        job[q].voter = v /\ VoteOp(q) = Op(v, d) /\ Target(q) = Op(v, e)
  BY <1>1, JobIs
<1>3. \A a \in VoteOp(q) \cup Target(q) :
        (a \in active' <=> a \in active) /\ (a \in exists' <=> a \in exists)
  BY <1>1, <1>2, OpOf DEF Elsewhere
<1>4. /\ pc'[q] = pc[q] /\ unread'[q] = unread[q] /\ found'[q] = found[q] /\ live'[q] = live[q]
      /\ job' = job
  BY <1>1 DEF Turn, InProgress
<1>5. PICK mine \in SUBSET Activities : mine = VoteOp(q)
  BY <1>2, OpType
<1>6. PICK target \in SUBSET Activities : target = Target(q)
  BY <1>2, OpType
<1>7. VoteOp(q)' = mine /\ Target(q)' = target
  BY <1>4, <1>5, <1>6 DEF VoteOp, Target
<1>8. /\ pc[q] = "cancel" =>
           found[q] = (target \ unread[q]) \cap exists' /\ live[q] = (target \ unread[q]) \cap active'
      /\ pc[q] \in {"cancel_lock", "cancel_commit"} => found[q] = target \cap exists'
      /\ pc[q] = "vote" => live[q] = (mine \ unread[q]) \cap active'
      /\ pc[q] \in Voting => target \cap active' = {}
      /\ pc[q] \in Counting /\ ObjectType = "answer" => target \cap active' = {}
      /\ pc[q] \in Counting /\ ~job[q].cancel => mine \subseteq active'
  BY <1>1, <1>3, <1>5, <1>6 DEF Progress, Voting, Counting
<1> QED
  BY <1>1, <1>4, <1>5, <1>6, <1>7, <1>8 DEF Progress, Voting, Counting

(* What is left to show of a step. *)
LEMMA StepPatience ==
  ASSUME Inv, Patience, NEW r \in Requests, Turn(r), Elsewhere(r), BothOrNone',
         r \in InProgress' => Progress(r)'
  PROVE  Patience'
<1>1. OneEach'
  BY DEF Patience, OneEach, Turn
<1>2. \A q \in InProgress' : Progress(q)'
  BY OthersProgress
<1>3. Fresh'
  BY DEF Patience, Fresh, Turn
<1> QED
  BY <1>1, <1>2, <1>3 DEF Patience

(* A step that leaves the rows alone. *)
LEMMA ReadPatience ==
  ASSUME Inv, Patience, NEW r \in Requests, Turn(r), UNCHANGED <<exists, active>>,
         r \in InProgress' => Progress(r)'
  PROVE  Patience'
<1>1. Elsewhere(r) /\ BothOrNone'
  BY DEF Elsewhere, Patience, BothOrNone, Whole
<1> QED
  BY <1>1, StepPatience

(* A request takes its turn. *)
LEMMA TakesTurn ==
  ASSUME Inv, NEW r \in Requests, NEW to \in PCs, r \in InProgress, pc' = [pc EXCEPT ![r] = to],
         to # "new", UNCHANGED job,
         \A q \in Requests : q # r => unread'[q] = unread[q] /\ found'[q] = found[q] /\ live'[q] = live[q]
  PROVE  Turn(r) /\ pc'[r] = to
BY DEF Turn, InProgress, Inv, TypeOK


(* The rows of the voter when a request turns to voting, or to the counting. *)
LEMMA Turned ==
  ASSUME Inv, NEW r \in InProgress, TurnToVote(r), Turn(r), pc'[r] = AfterCancel(r),
         Target(r) \cap active' = {}
  PROVE  Progress(r)'
<1>1. VoteOp(r) \subseteq Activities /\ r \in Requests
  BY VoteOpType DEF Inv, InProgress
<1>2. unread'[r] = (IF job[r].cancel THEN {} ELSE VoteOp(r)) /\ live'[r] = {}
  BY <1>1 DEF TurnToVote, Inv, TypeOK
<1>3. VoteOp(r)' = VoteOp(r) /\ Target(r)' = Target(r) /\ job' = job
  BY DEF Turn, VoteOp, Target
<1> QED
  BY <1>2, <1>3 DEF Progress, Voting, Counting, AfterCancel

LEMMA CancelReadPatience ==
  ASSUME Inv, Patience, NEW r \in Requests, CancelRead(r)
  PROVE  Patience'
<1>1. pc[r] = "cancel" /\ r \in InProgress /\ UNCHANGED <<exists, active, job>>
  BY DEF CancelRead, Goto, InProgress, table
<1>2. PICK a \in unread[r] :
        LET alive == live[r] \cup ({a} \cap active)
            last == unread[r] = {a}
        IN  \/ /\ last /\ alive = {}
               /\ Goto(r, "cancel", AfterCancel(r))
               /\ TurnToVote(r)
            \/ /\ ~(last /\ alive = {})
               /\ Goto(r, "cancel", IF last THEN "cancel_lock" ELSE "cancel")
               /\ LookUp(r, a)
               /\ found' = [found EXCEPT ![r] = @ \cup ({a} \cap exists)]
               /\ live' = [live EXCEPT ![r] = alive]
  BY DEF CancelRead
<1>3. Progress(r) /\ UNCHANGED <<exists, active>>
  BY <1>1 DEF Patience
<1>4. PICK target \in SUBSET Activities : target = Target(r)
  BY <1>1, JobRows
<1>5. /\ unread[r] \subseteq target
      /\ found[r] = (target \ unread[r]) \cap exists
      /\ live[r] = (target \ unread[r]) \cap active
  BY <1>1, <1>3, <1>4 DEF Progress, Voting, Counting
<1>6. CASE /\ unread[r] = {a} /\ live[r] \cup ({a} \cap active) = {}
           /\ Goto(r, "cancel", AfterCancel(r)) /\ TurnToVote(r)
  <2>1. target \cap active' = {}
    BY <1>1, <1>5, <1>6
  <2>2. AfterCancel(r) \in PCs /\ AfterCancel(r) # "new"
    BY DEF AfterCancel, PCs
  <2>3. Turn(r) /\ pc'[r] = AfterCancel(r)
    BY <1>1, <1>6, <2>2, TakesTurn DEF Goto, TurnToVote, Inv, TypeOK
  <2>4. Progress(r)'
    BY <1>1, <1>4, <1>6, <2>1, <2>3, Turned
  <2> QED
    BY <1>1, <2>3, <2>4, ReadPatience
<1>7. CASE /\ Goto(r, "cancel", IF unread[r] = {a} THEN "cancel_lock" ELSE "cancel")
           /\ LookUp(r, a)
           /\ found' = [found EXCEPT ![r] = @ \cup ({a} \cap exists)]
           /\ live' = [live EXCEPT ![r] = live[r] \cup ({a} \cap active)]
  <2>1. /\ unread'[r] = unread[r] \ {a}
        /\ found'[r] = found[r] \cup ({a} \cap exists)
        /\ live'[r] = live[r] \cup ({a} \cap active)
    BY <1>7 DEF LookUp, Inv, TypeOK
  <2>2. Turn(r) /\ pc'[r] = IF unread[r] = {a} THEN "cancel_lock" ELSE "cancel"
    <3>1. (IF unread[r] = {a} THEN "cancel_lock" ELSE "cancel") \in PCs
      BY DEF PCs
    <3> QED
      BY <1>1, <1>7, <3>1, TakesTurn DEF Goto, LookUp, Inv, TypeOK
  <2>3. Target(r)' = target
    BY <1>1, <1>4 DEF Target
  <2>4. /\ found'[r] = (target \ unread'[r]) \cap exists
        /\ live'[r] = (target \ unread'[r]) \cap active
        /\ unread[r] = {a} => unread'[r] = {}
    BY <1>5, <2>1
  <2>5. Progress(r)'
    BY <1>1, <1>5, <2>1, <2>2, <2>3, <2>4 DEF Progress, Voting, Counting
  <2> QED
    BY <1>1, <2>2, <2>5, ReadPatience
<1> QED
  BY <1>2, <1>6, <1>7

LEMMA CancelCommitPatience ==
  ASSUME Inv, Patience, NEW r \in Requests, CancelCommit(r)
  PROVE  Patience'
<1>1. /\ pc[r] = "cancel_commit" /\ r \in InProgress /\ UNCHANGED <<exists, job>>
      /\ active' = active \ found[r] /\ TurnToVote(r)
      /\ Goto(r, "cancel_commit", AfterCancel(r))
  BY DEF CancelCommit, Goto, InProgress
<1>2. PICK v \in Voters, d \in Directions, e \in Directions :
        job[r].voter = v /\ VoteOp(r) = Op(v, d) /\ Target(r) = Op(v, e)
  BY <1>1, JobIs
<1>3. found[r] = Op(v, e) \cap exists
  BY <1>1, <1>2 DEF Patience, Progress
<1>4. \A x : x \in active' <=> x \in active /\ x \notin Op(v, e)
  BY <1>1, <1>3 DEF Inv, TypeOK
<1>5. AfterCancel(r) \in PCs /\ AfterCancel(r) # "new"
  BY DEF AfterCancel, PCs
<1>6. Turn(r) /\ pc'[r] = AfterCancel(r)
  BY <1>1, <1>5, TakesTurn DEF Goto, TurnToVote, Inv, TypeOK
<1>7. Progress(r)'
  <2>1. Target(r) \cap active' = {}
    BY <1>2, <1>4
  <2> QED
    BY <1>1, <1>6, <2>1, Turned
<1>8. Elsewhere(r)
  BY <1>1, <1>2, <1>4, OpOf DEF Elsewhere
<1>9. BothOrNone'
  <2>1. ASSUME NEW w \in Voters, NEW f \in Directions PROVE Whole(exists', Op(w, f)) /\ Whole(active', Op(w, f))
    <3>1. Whole(exists, Op(w, f)) /\ Whole(active, Op(w, f))
      BY DEF Patience, BothOrNone
    <3>2. Op(w, f) \cap Op(v, e) = {} \/ Op(w, f) = Op(v, e)
      BY SameOrApart
    <3> QED
      BY <1>1, <1>4, <3>1, <3>2 DEF Whole
  <2> QED
    BY <2>1 DEF BothOrNone
<1> QED
  BY <1>6, <1>7, <1>8, <1>9, StepPatience

LEMMA VotePreCheckPatience ==
  ASSUME Inv, Patience, NEW r \in Requests, VotePreCheck(r)
  PROVE  Patience'
<1>1. pc[r] = "vote" /\ r \in InProgress /\ UNCHANGED <<exists, active, job, found>>
  BY DEF VotePreCheck, Goto, InProgress, table
<1>2. PICK a \in unread[r] :
        LET alive == live[r] \cup ({a} \cap active)
            last == unread[r] = {a}
        IN  /\ Goto(r, "vote", IF ~last THEN "vote"
                               ELSE IF alive = VoteOp(r) THEN "count_up" ELSE "vote_lock")
            /\ LookUp(r, a)
            /\ live' = [live EXCEPT ![r] = IF last THEN {} ELSE alive]
  BY DEF VotePreCheck
<1> DEFINE to == IF unread[r] # {a} THEN "vote"
                 ELSE IF live[r] \cup ({a} \cap active) = VoteOp(r) THEN "count_up" ELSE "vote_lock"
<1>3. Progress(r)
  BY <1>1 DEF Patience
<1>4. PICK mine \in SUBSET Activities : mine = VoteOp(r)
  BY <1>1, JobRows
<1>5. /\ unread[r] \subseteq mine
      /\ live[r] = (mine \ unread[r]) \cap active
      /\ Target(r) \cap active = {} /\ ~job[r].cancel
  BY <1>1, <1>3, <1>4 DEF Progress, Voting, Counting
<1>6. /\ unread'[r] = unread[r] \ {a}
      /\ live'[r] = IF unread[r] = {a} THEN {} ELSE live[r] \cup ({a} \cap active)
  BY <1>2 DEF LookUp, Inv, TypeOK
<1>7. Turn(r) /\ pc'[r] = to
  <2>1. to \in PCs /\ to # "new"
    BY DEF PCs
  <2> QED
    BY <1>1, <1>2, <2>1, TakesTurn DEF Goto, LookUp, Inv, TypeOK
<1>8. Target(r)' = Target(r) /\ VoteOp(r)' = mine
  BY <1>1, <1>4 DEF Target, VoteOp
<1>9. /\ unread[r] # {a} => live'[r] = (mine \ unread'[r]) \cap active
      /\ unread[r] = {a} /\ live[r] \cup ({a} \cap active) = mine => mine \subseteq active
  BY <1>5, <1>6
<1>10. Progress(r)'
  BY <1>1, <1>4, <1>5, <1>6, <1>7, <1>8, <1>9 DEF Progress, Voting, Counting
<1> QED
  BY <1>1, <1>7, <1>10, ReadPatience

LEMMA VoteCommitPatience ==
  ASSUME Inv, Patience, NEW r \in Requests, VoteCommit(r)
  PROVE  Patience'
<1>1. /\ pc[r] = "vote_commit" /\ r \in InProgress /\ UNCHANGED <<job, lookup>>
      /\ active' = active \cup VoteOp(r) /\ exists' = exists \cup missing[r]
      /\ Goto(r, "vote_commit", "count_up")
  BY DEF VoteCommit, Goto, InProgress
<1>2. PICK v \in Voters, d \in Directions, e \in Directions :
        /\ job[r].voter = v /\ VoteOp(r) = Op(v, d) /\ Target(r) = Op(v, e)
        /\ ~job[r].cancel => e # d
  BY <1>1, JobIs, OppositeIs
<1>3. Progress(r) /\ missing[r] = Op(v, d) \ exists
  BY <1>1, <1>2 DEF Patience, Inv, MissingRows
<1>4. /\ \A x : x \in active' <=> x \in active \/ x \in Op(v, d)
      /\ \A x : x \in exists' <=> x \in exists \/ x \in Op(v, d)
  BY <1>1, <1>2, <1>3
<1>5. Turn(r) /\ pc'[r] = "count_up"
  <2>1. "count_up" \in PCs /\ "count_up" # "new"
    BY DEF PCs
  <2> QED
    BY <1>1, <2>1, TakesTurn DEF Goto, lookup, Inv, TypeOK
<1>6. Progress(r)'
  <2>1. Op(v, e) \cap active = {} /\ ~job[r].cancel
    BY <1>1, <1>2, <1>3 DEF Progress, Voting, Counting
  <2>2. (ObjectType = "answer" => Op(v, e) \cap active' = {}) /\ Op(v, d) \subseteq active'
    BY <1>2, <1>4, <2>1, OpApart
  <2>3. Target(r)' = Op(v, e) /\ VoteOp(r)' = Op(v, d)
    BY <1>1, <1>2 DEF Target, VoteOp
  <2> QED
    BY <1>5, <2>2, <2>3 DEF Progress, Voting, Counting
<1>7. Elsewhere(r)
  BY <1>1, <1>2, <1>4, OpOf DEF Elsewhere
<1>8. BothOrNone'
  <2>1. ASSUME NEW w \in Voters, NEW f \in Directions PROVE Whole(exists', Op(w, f)) /\ Whole(active', Op(w, f))
    <3>1. Whole(exists, Op(w, f)) /\ Whole(active, Op(w, f))
      BY DEF Patience, BothOrNone
    <3>2. Op(w, f) \cap Op(v, d) = {} \/ Op(w, f) = Op(v, d)
      BY SameOrApart
    <3> QED
      BY <1>4, <3>1, <3>2 DEF Whole
  <2> QED
    BY <2>1 DEF BothOrNone
<1> QED
  BY <1>5, <1>6, <1>7, <1>8, StepPatience

(* The steps that only go on. *)
LEMMA GoesOnPatience ==
  ASSUME Inv, Patience, NEW r \in Requests, NEW from, NEW to, Goto(r, from, to),
         \/ from = "cancel_lock" /\ to = "cancel_commit"
         \/ from = "vote_lock" /\ to = "vote_check"
         \/ from = "vote_check" /\ to = "vote_commit"
         \/ from = "count_up" /\ to = "count_down"
         \/ from = "count_down" /\ to = "save"
         \/ from = "save" /\ to = "done",
         UNCHANGED <<exists, active, job, lookup>>
  PROVE  Patience'
<1>1. r \in InProgress /\ Progress(r)
  BY DEF Goto, InProgress, Patience
<1>2. Turn(r) /\ pc'[r] = to
  <2>1. to \in PCs /\ to # "new"
    BY DEF PCs
  <2> QED
    BY <1>1, <2>1, TakesTurn DEF Goto, lookup, Inv, TypeOK
<1>3. r \in InProgress' => Progress(r)'
  <2>1. Target(r)' = Target(r) /\ VoteOp(r)' = VoteOp(r) /\ pc[r] = from /\ found'[r] = found[r]
    BY DEF Target, VoteOp, Goto, lookup
  <2>2. to = "done" => r \notin InProgress'
    BY <1>2 DEF InProgress
  <2> QED
    BY <1>1, <1>2, <2>1, <2>2 DEF Progress, Voting, Counting
<1> QED
  BY <1>1, <1>2, <1>3, ReadPatience

LEMMA FailPatience ==
  ASSUME Inv, Patience, NEW r \in Requests, Fail(r)
  PROVE  Patience'
<1>1. r \in InProgress /\ UNCHANGED <<exists, active, job>>
  BY DEF Fail, Locking, InProgress, table
<1>2. Turn(r) /\ pc'[r] = "failed"
  <2>1. "failed" \in PCs /\ "failed" # "new"
    BY DEF PCs
  <2> QED
    BY <1>1, <2>1, TakesTurn DEF Fail, Inv, TypeOK
<1>3. r \notin InProgress'
  BY <1>2 DEF InProgress
<1> QED
  BY <1>1, <1>2, <1>3, ReadPatience

LEMMA BeginPatience ==
  ASSUME Inv, Patience, ~Impatient, NEW r \in Requests, NEW v \in Users, NEW d \in Asked,
         NEW c \in BOOLEAN, Begin(r, v, d, c)
  PROVE  Patience'
<1>1. /\ pc[r] = "new" /\ UNCHANGED <<exists, active, found, live>>
      /\ \A q \in InProgress : job[q].voter # v
      /\ \A q \in Requests : q # r => job'[q] = job[q] /\ unread'[q] = unread[q] /\ pc'[q] = pc[q]
      /\ job'[r].voter = v /\ job'[r].dir = d /\ job'[r].cancel = c
      /\ pc'[r] = IF deleted \/ v = Owner THEN "failed" ELSE "cancel"
      /\ unread'[r] = IF v = Owner THEN {} ELSE Op(v, IF c THEN d ELSE Opposite(d))
  BY DEF Begin, Goto, table, Inv, TypeOK
<1>2. r \notin InProgress /\ InProgress' \subseteq InProgress \cup {r}
  BY <1>1 DEF InProgress
<1>3. OneEach'
  <2>1. SUFFICES ASSUME NEW p \in InProgress', NEW q \in InProgress', job'[p].voter = job'[q].voter
                 PROVE  p = q
    BY DEF OneEach
  <2>2. \A x \in InProgress : x \in Requests /\ x # r
    BY <1>2 DEF InProgress
  <2>3. CASE p # r /\ q # r
    BY <1>1, <1>2, <2>1, <2>2, <2>3 DEF Patience, OneEach
  <2>4. CASE p = r \/ q = r
    BY <1>1, <1>2, <2>1, <2>2, <2>4
  <2> QED
    BY <2>3, <2>4
<1>4. BothOrNone'
  BY <1>1 DEF Patience, BothOrNone, Whole
<1>5. ASSUME NEW q \in InProgress' PROVE Progress(q)'
  <2>1. CASE q # r
    <3>1. /\ q \in InProgress /\ q \in Requests /\ Progress(q) /\ job'[q] = job[q] /\ unread'[q] = unread[q]
          /\ pc'[q] = pc[q] /\ found'[q] = found[q] /\ live'[q] = live[q]
      BY <1>1, <1>2, <2>1 DEF Patience, InProgress
    <3>2. VoteOp(q)' = VoteOp(q) /\ Target(q)' = Target(q)
      BY <3>1 DEF VoteOp, Target
    <3> QED
      BY <1>1, <3>1, <3>2 DEF Progress, Voting, Counting
  <2>2. CASE q = r
    <3>1. v # Owner /\ pc'[r] = "cancel"
      BY <1>1, <2>2 DEF InProgress
    <3>2. Target(r)' = unread'[r]
      BY <1>1, <3>1 DEF Target
    <3>3. found[r] = {} /\ live[r] = {}
      BY <1>1 DEF Patience, Fresh
    <3> QED
      BY <1>1, <2>2, <3>1, <3>2, <3>3 DEF Progress, Voting, Counting
  <2> QED
    BY <2>1, <2>2
<1>6. Fresh'
  BY <1>1 DEF Patience, Fresh
<1> QED
  BY <1>3, <1>4, <1>5, <1>6 DEF Patience

LEMMA InitPatience == Init => Patience
<1> SUFFICES ASSUME Init
             PROVE  Patience
  OBVIOUS
<1>1. InProgress = {}
  BY DEF Init, InProgress
<1> QED
  BY <1>1 DEF Init, Patience, OneEach, BothOrNone, Fresh, Whole

LEMMA PatienceStep ==
  ASSUME ~Impatient
  PROVE  Inv /\ Patience /\ [Next]_vars => Patience'
<1> SUFFICES ASSUME Inv, Patience, [Next]_vars
             PROVE  Patience'
  OBVIOUS
<1>1. ASSUME NEW r \in Requests, NEW v \in Users, NEW d \in Asked, NEW c \in BOOLEAN, Begin(r, v, d, c)
      PROVE  Patience'
  BY <1>1, BeginPatience
<1>2. ASSUME NEW r \in Requests, CancelRead(r) \/ CancelCommit(r) \/ VotePreCheck(r) \/ VoteCommit(r) \/ Fail(r)
      PROVE  Patience'
  BY <1>2, CancelReadPatience, CancelCommitPatience, VotePreCheckPatience, VoteCommitPatience, FailPatience
<1>3. ASSUME NEW r \in Requests, CancelLock(r) \/ VoteLock(r) \/ VoteCheck(r)
      PROVE  Patience'
  BY <1>3, GoesOnPatience DEF CancelLock, VoteLock, VoteCheck, table
<1>4. ASSUME NEW r \in Requests, CountVoteUp(r) \/ CountVoteDown(r) \/ UpdateVotes(r)
      PROVE  Patience'
  BY <1>4, GoesOnPatience DEF CountVoteUp, CountVoteDown, UpdateVotes, table
<1>5. ASSUME NEW r \in Requests, FailCounting(r)
      PROVE  Patience'
  BY <1>5, GoesOnPatience DEF FailCounting, table
<1>6. ASSUME DeleteObject \/ UNCHANGED vars
      PROVE  Patience'
  <2>1. UNCHANGED <<exists, active, job, pc, unread, found, live>>
    BY <1>6 DEF DeleteObject, vars, table, local, lookup
  <2>2. InProgress' = InProgress
    BY <2>1 DEF InProgress
  <2>3. OneEach' /\ BothOrNone' /\ Fresh'
    BY <2>1, <2>2 DEF Patience, OneEach, BothOrNone, Fresh, Whole
  <2>4. ASSUME NEW q \in InProgress' PROVE Progress(q)'
    <3>1. Progress(q) /\ VoteOp(q)' = VoteOp(q) /\ Target(q)' = Target(q)
      BY <2>1, <2>2 DEF Patience, VoteOp, Target
    <3> QED
      BY <2>1, <3>1 DEF Progress, Voting, Counting
  <2> QED
    BY <2>3, <2>4 DEF Patience
<1>7. ASSUME NEW r \in Requests, Step(r) \/ Fail(r) \/ FailCounting(r)
      PROVE  Patience'
  BY <1>2, <1>3, <1>4, <1>5, <1>7 DEF Step
<1>8. CASE DeleteObject
  BY <1>6, <1>8
<1>9. CASE UNCHANGED vars
  BY <1>6, <1>9
<1> QED
  BY <1>1, <1>7, <1>8, <1>9 DEF Next, AllAnswered

(* Of voters that wait for each answer, the two rows of a vote on an answer or a
   question stand and fall together, whatever overlaps and whatever fails. *)
THEOREM BothSidesAgreeTheorem ==
  ASSUME ~Impatient
  PROVE  Safety => []BothSidesAgree
<1>1. Patience => BothSidesAgree
  BY DEF Patience, BothOrNone, Whole, BothSidesAgree, Op, Sides
<1>2. Inv /\ Patience /\ [Next]_vars => Patience'
  BY PatienceStep
<1> QED
  BY <1>1, <1>2, InitPatience, InvHolds, PTL DEF Safety

(* Of voters that wait for each answer: when a vote on an answer or a question
   has been answered, the voter has a vote in that direction and none in the
   other one. *)
THEOREM VoteReplacesOppositeTheorem ==
  ASSUME ~Impatient, ObjectType = "answer"
  PROVE  Safety => VoteReplacesOpposite
<1>1. Inv /\ Patience /\ [Next]_vars =>
        [\A r \in Requests :
           pc[r] = "save" /\ pc'[r] = "done" /\ ~job[r].cancel =>
             job[r].voter \in IF job[r].dir = "up" THEN Ups' \ Downs' ELSE Downs' \ Ups']_vars
  <2> SUFFICES ASSUME Inv, Patience, Next, NEW r \in Requests,
                      pc[r] = "save", pc'[r] = "done", ~job[r].cancel
               PROVE  job[r].voter \in IF job[r].dir = "up" THEN Ups' \ Downs' ELSE Downs' \ Ups'
    OBVIOUS
  <2>1. active' = active
    BY DEF Next, Begin, Step, Goto, CancelRead, CancelLock, CancelCommit, VotePreCheck, VoteLock,
       VoteCheck, VoteCommit, CountVoteUp, CountVoteDown, UpdateVotes, Fail, FailCounting,
       DeleteObject, AllAnswered, table, vars, Inv, TypeOK
  <2>2. Target(r) \cap active = {} /\ VoteOp(r) \subseteq active /\ r \in InProgress
    BY DEF Patience, Progress, Counting, InProgress
  <2>3. PICK v \in Voters, d \in Directions : job[r].voter = v /\ job[r].dir = d
    BY <2>2, JobIs
  <2>4. <<v, d, "vote">> \in active /\ <<v, Opposite(d), "vote">> \notin active
    BY <2>2, <2>3 DEF VoteOp, Target, Op, Sides
  <2> QED
    BY <2>1, <2>3, <2>4 DEF Ups, Downs, Opposite, Directions
<1>2. Inv /\ Patience /\ [Next]_vars => Patience'
  BY PatienceStep
<1> QED
  BY <1>1, <1>2, InitPatience, InvHolds, PTL DEF Safety, VoteReplacesOpposite

(* The books.  No rank is negative enough for a user to be cut off at 1. *)
Low(a) == IF VoteRank[<<a[2], a[3]>>] < 0 THEN VoteRank[<<a[2], a[3]>>] ELSE 0

LowRanks == [a \in Activities |-> Low(a)]

RowsOf(u) == {a \in active : UserOf(a) = u}

NeverCutOff ==
  \A u \in Users : InitialRank + SumOver(LowRanks, {a \in Activities : UserOf(a) = u}) >= 1

Ledger ==
  /\ \A u \in Users : rank[u] = InitialRank + Earned(u)
  /\ \A a \in active : gain[a] >= Low(a)

(* What a request is about to book, and that the users it books on are locked. *)
Booking(r) ==
  /\ pc[r] \in {"cancel", "cancel_lock", "cancel_commit"} =>
       \A a \in Target(r) \ unread[r] : worth[r][a] = gain[a]
  /\ pc[r] \in {"cancel_lock", "cancel_commit"} => unread[r] = {} /\ live[r] = Target(r) \cap active
  /\ pc[r] = "cancel_commit" => \A a \in Target(r) \cap active : locked[UserOf(a)] = r
  /\ pc[r] \in {"vote_lock", "vote_check", "vote_commit"} => VoteOp(r) \cap active = {}
  /\ pc[r] = "vote_commit" => \A a \in VoteOp(r) :
       /\ worth[r][a] >= Low(a)
       /\ worth[r][a] >= 0 \/ seen[r][UserOf(a)] + worth[r][a] >= 1
       /\ worth[r][a] > 0 => Earned(UserOf(a)) < DailyLimit

Books == Ledger /\ \A r \in InProgress : Booking(r)

LEMMA ActivitiesFinite == IsFiniteSet(Activities)
<1>1. IsFiniteSet(Directions) /\ IsFiniteSet(Sides)
  <2>1. IsFiniteSet({"up"}) /\ IsFiniteSet({"vote"})
    BY FS_Singleton
  <2>2. Directions = {"up"} \cup {"down"} /\ Sides = {"vote"} \cup {"voted"}
    BY DEF Directions, Sides
  <2> QED
    BY <2>1, <2>2, FS_AddElement
<1>2. IsFiniteSet(Voters \X Directions)
  BY <1>1, FS_Product
<1>3. PICK P : P = Voters \X Directions
  OBVIOUS
<1>4. IsFiniteSet(P \X Sides)
  BY <1>1, <1>2, <1>3, FS_Product
<1>5. PICK f : f = [p \in P \X Sides |-> <<p[1][1], p[1][2], p[2]>>]
  OBVIOUS
<1>6. f \in Surjection(P \X Sides, Activities)
  <2>1. f \in [P \X Sides -> Activities]
    BY <1>3, <1>5 DEF Activities
  <2>2. ASSUME NEW a \in Activities PROVE \E p \in P \X Sides : f[p] = a
    <3>1. PICK p \in P \X Sides : p = <<<<a[1], a[2]>>, a[3]>>
      BY <1>3 DEF Activities
    <3> QED
      BY <1>5, <3>1 DEF Activities
  <2> QED
    BY <2>1, <2>2 DEF Surjection
<1> QED
  BY <1>4, <1>6, FS_Surjection

(* What a user has earned is a sum over finitely many rows. *)
LEMMA EarnedIs ==
  ASSUME NEW u
  PROVE  /\ Earned(u) = SumOver(gain, RowsOf(u))
         /\ Earned(u)' = SumOver(gain', RowsOf(u)')
<1>1. Earned(u) = SumOver(gain, RowsOf(u))
  BY Zenon DEF Earned, SumOver, RowsOf, MapThenSumSet, MapThenFoldSet
<1>2. Earned(u)' = SumOver(gain', RowsOf(u)')
  BY Zenon DEF Earned, SumOver, RowsOf, MapThenSumSet, MapThenFoldSet
<1> QED
  BY <1>1, <1>2

LEMMA RowsOfFinite ==
  ASSUME TypeOK, NEW u
  PROVE  IsFiniteSet(RowsOf(u)) /\ RowsOf(u) \subseteq Activities /\ Earned(u) \in Int
<1>1. RowsOf(u) \subseteq Activities
  BY DEF RowsOf, TypeOK
<1>2. IsFiniteSet(RowsOf(u))
  BY <1>1, ActivitiesFinite, FS_Subset
<1>3. \A a \in RowsOf(u) : gain[a] \in Int
  BY <1>1 DEF TypeOK
<1> QED
  BY <1>1, <1>2, <1>3, EarnedIs, SumType

LEMMA EarnedKept ==
  ASSUME TypeOK, NEW u, RowsOf(u)' = RowsOf(u), \A a \in RowsOf(u) : gain'[a] = gain[a]
  PROVE  Earned(u)' = Earned(u)
<1>1. PICK f : f = gain
  OBVIOUS
<1>2. PICK g : g = gain'
  OBVIOUS
<1>3. PICK rows : rows = RowsOf(u)
  OBVIOUS
<1>4. IsFiniteSet(rows) /\ \A a \in rows : f[a] \in Int /\ g[a] = f[a]
  BY <1>1, <1>2, <1>3, RowsOfFinite DEF TypeOK
<1>5. SumOver(g, rows) = SumOver(f, rows)
  BY <1>4, SumSame
<1> QED
  BY <1>1, <1>2, <1>3, <1>5, EarnedIs

LEMMA EarnedLess ==
  ASSUME TypeOK, NEW u, NEW a \in RowsOf(u), RowsOf(u)' = RowsOf(u) \ {a}, gain' = gain
  PROVE  Earned(u)' = Earned(u) - gain[a]
<1>1. PICK f : f = gain
  OBVIOUS
<1>2. PICK rows : rows = RowsOf(u)
  OBVIOUS
<1>3. IsFiniteSet(rows) /\ \A b \in rows : f[b] \in Int
  BY <1>1, <1>2, RowsOfFinite DEF TypeOK
<1>4. SumOver(f, rows) = f[a] + SumOver(f, rows \ {a})
  BY <1>2, <1>3, SumWithout
<1>5. SumOver(f, rows \ {a}) \in Int /\ f[a] \in Int
  <2>1. IsFiniteSet(rows \ {a}) /\ \A b \in rows \ {a} : f[b] \in Int
    BY <1>3, FS_Subset
  <2> QED
    BY <1>2, <1>3, <2>1, SumType
<1> QED
  <2>1. Earned(u) = SumOver(f, rows) /\ Earned(u)' = SumOver(f, rows \ {a})
    BY <1>1, <1>2, EarnedIs
  <2> QED
    BY <1>1, <1>4, <1>5, <2>1

LEMMA EarnedMore ==
  ASSUME TypeOK, NEW u, NEW a, a \notin RowsOf(u), RowsOf(u)' = RowsOf(u) \cup {a},
         \A b \in RowsOf(u) : gain'[b] = gain[b], gain'[a] \in Int
  PROVE  Earned(u)' = Earned(u) + gain'[a]
<1>1. PICK f : f = gain
  OBVIOUS
<1>2. PICK g : g = gain'
  OBVIOUS
<1>3. PICK rows : rows = RowsOf(u)
  OBVIOUS
<1>4. IsFiniteSet(rows) /\ \A b \in rows : f[b] \in Int /\ g[b] = f[b]
  BY <1>1, <1>2, <1>3, RowsOfFinite DEF TypeOK
<1>5. SumOver(g, rows) = SumOver(f, rows)
  BY <1>4, SumSame
<1>6. SumOver(g, rows \cup {a}) = g[a] + SumOver(g, rows)
  <2>1. \A b \in rows : g[b] \in Int
    BY <1>4
  <2> QED
    BY <1>2, <1>3, <1>4, <2>1, SumWith
<1>7. SumOver(f, rows) \in Int /\ g[a] \in Int
  BY <1>2, <1>4, SumType
<1> QED
  <2>1. Earned(u) = SumOver(f, rows) /\ Earned(u)' = SumOver(g, rows \cup {a})
    BY <1>1, <1>2, <1>3, EarnedIs
  <2> QED
    BY <1>2, <1>5, <1>6, <1>7, <2>1

LEMMA LowType ==
  ASSUME NEW a \in Activities
  PROVE  Low(a) \in Int /\ Low(a) <= 0 /\ VoteRank[<<a[2], a[3]>>] \in Int
BY DEF Low, Activities

(* Without one of its rows, a user would keep a rank of at least 1. *)
LEMMA NotCutOff ==
  ASSUME NeverCutOff, TypeOK, Ledger, NEW u \in Users, NEW a \in RowsOf(u)
  PROVE  rank[u] - gain[a] >= 1
<1>1. PICK all : all = {b \in Activities : UserOf(b) = u}
  OBVIOUS
<1>2. PICK f : f = gain
  OBVIOUS
<1>3. PICK rows : rows = RowsOf(u)
  OBVIOUS
<1>4. PICK rest \in SUBSET all : rest = rows \ {a}
  BY <1>1, <1>3 DEF RowsOf, TypeOK
<1>5. IsFiniteSet(all) /\ IsFiniteSet(rows) /\ \A b \in rows : f[b] \in Int
  BY <1>1, <1>2, <1>3, ActivitiesFinite, RowsOfFinite, FS_Subset DEF TypeOK
<1>6. SumOver(f, rest) >= SumOver(LowRanks, all)
  <2>1. PICK g : g = LowRanks
    OBVIOUS
  <2>2. \A b \in all : g[b] \in Int /\ g[b] <= 0
    BY <1>1, <2>1, LowType DEF LowRanks
  <2>3. \A b \in rest : f[b] \in Int /\ f[b] >= g[b]
    BY <1>2, <1>3, <1>4, <1>5, <2>1 DEF LowRanks, Ledger, RowsOf, TypeOK
  <2>4. SumOver(f, rest) >= SumOver(g, all)
    BY <1>5, <2>2, <2>3, SumAtLeast
  <2> QED
    BY <2>1, <2>4
<1>7. SumOver(f, rows) = f[a] + SumOver(f, rest)
  BY <1>3, <1>4, <1>5, SumWithout
<1>8. SumOver(f, rest) \in Int /\ f[a] \in Int /\ SumOver(LowRanks, all) \in Int
  <2>1. IsFiniteSet(rest) /\ \A b \in rest : f[b] \in Int
    BY <1>4, <1>5, FS_Subset
  <2>2. \A b \in all : LowRanks[b] \in Int
    BY <1>1, LowType DEF LowRanks
  <2> QED
    BY <1>3, <1>5, <2>1, <2>2, SumType
<1>9. rank[u] = InitialRank + SumOver(f, rows)
  BY <1>2, <1>3, EarnedIs DEF Ledger
<1>10. InitialRank + SumOver(LowRanks, all) >= 1
  BY <1>1 DEF NeverCutOff
<1> QED
  BY <1>2, <1>6, <1>7, <1>8, <1>9, <1>10

(* A request that is about other rows, and whose users keep what they have
   earned as long as it has locked them. *)
Untouched(q) ==
  /\ pc'[q] = pc[q] /\ job'[q] = job[q] /\ unread'[q] = unread[q] /\ live'[q] = live[q]
  /\ worth'[q] = worth[q] /\ seen'[q] = seen[q]
  /\ \A a \in VoteOp(q) \cup Target(q) : (a \in active' <=> a \in active) /\ gain'[a] = gain[a]
  /\ \A u \in Users : locked[u] = q => locked'[u] = q /\ Earned(u)' = Earned(u)

LEMMA UntouchedBooking ==
  ASSUME Inv, NEW q \in InProgress, Booking(q), Untouched(q)
  PROVE  Booking(q)'
<1>1. PICK mine \in SUBSET Activities : mine = VoteOp(q)
  BY JobRows
<1>2. PICK target \in SUBSET Activities : target = Target(q)
  BY JobRows
<1>3. VoteOp(q)' = mine /\ Target(q)' = target
  BY <1>1, <1>2 DEF VoteOp, Target, Untouched
<1>4. \A a \in mine \cup target : UserOf(a) \in Users
  BY UserOfType
<1>5. pc[q] = "vote_commit" => \A a \in mine : locked[UserOf(a)] = q
  BY <1>1 DEF Inv, LockDiscipline, InProgress
<1>6. pc[q] \in {"cancel", "cancel_lock", "cancel_commit"} =>
        \A a \in target \ unread[q] : worth[q][a] = gain'[a]
  BY <1>2 DEF Booking, Untouched
<1>7. pc[q] \in {"cancel_lock", "cancel_commit"} => unread[q] = {} /\ live[q] = target \cap active'
  BY <1>2 DEF Booking, Untouched
<1>8. pc[q] = "cancel_commit" => \A a \in target \cap active' : locked'[UserOf(a)] = q
  BY <1>2, <1>4 DEF Booking, Untouched
<1>9. pc[q] \in {"vote_lock", "vote_check", "vote_commit"} => mine \cap active' = {}
  BY <1>1 DEF Booking, Untouched
<1>10. pc[q] = "vote_commit" => \A a \in mine :
         /\ worth[q][a] >= Low(a)
         /\ worth[q][a] >= 0 \/ seen[q][UserOf(a)] + worth[q][a] >= 1
         /\ worth[q][a] > 0 => Earned(UserOf(a)) < DailyLimit
  BY <1>1 DEF Booking
<1>11. pc[q] = "vote_commit" => \A a \in mine : Earned(UserOf(a))' = Earned(UserOf(a))
  BY <1>4, <1>5 DEF Untouched
<1> QED
  BY <1>3, <1>6, <1>7, <1>8, <1>9, <1>10, <1>11 DEF Booking, Untouched

(* What a step leaves to the other requests. *)
Aside(r) ==
  /\ \A q \in Requests : q # r => worth'[q] = worth[q] /\ seen'[q] = seen[q]
  /\ \A a \in Activities : a[1] # job[r].voter => gain'[a] = gain[a]
  /\ \A u \in Users : /\ locked[u] \notin {r, None} => locked'[u] = locked[u]
                      /\ locked[u] # r => Earned(u)' = Earned(u)

LEMMA StepBooks ==
  ASSUME Inv, Patience, Books, NEW r \in Requests, Turn(r), Elsewhere(r), Aside(r), Ledger',
         r \in InProgress' => Booking(r)'
  PROVE  Books'
<1>1. ASSUME NEW q \in InProgress', q # r PROVE Booking(q)'
  <2>1. q \in InProgress /\ r \in InProgress /\ job[q].voter # job[r].voter /\ Booking(q) /\ q \in Requests
    BY <1>1 DEF Patience, OneEach, Turn, Books, InProgress
  <2>2. PICK v \in Voters, d \in Directions, e \in Directions :
          job[q].voter = v /\ VoteOp(q) = Op(v, d) /\ Target(q) = Op(v, e)
    BY <2>1, JobIs
  <2>3. \A a \in VoteOp(q) \cup Target(q) : (a \in active' <=> a \in active) /\ gain'[a] = gain[a]
    BY <2>1, <2>2, OpOf DEF Elsewhere, Aside
  <2>4. \A u \in Users : locked[u] = q => locked'[u] = q /\ Earned(u)' = Earned(u)
    BY <1>1, <2>1 DEF Aside
  <2>5. Untouched(q)
    BY <1>1, <2>1, <2>3, <2>4 DEF Untouched, Turn, Aside
  <2> QED
    BY <2>1, <2>5, UntouchedBooking
<1> QED
  BY <1>1 DEF Books

(* A step that leaves the rows and the ranks alone. *)
LEMMA SameEarned ==
  ASSUME TypeOK, UNCHANGED <<active, gain>>
  PROVE  \A u \in Users : Earned(u)' = Earned(u)
<1> SUFFICES ASSUME NEW u \in Users
             PROVE  Earned(u)' = Earned(u)
  OBVIOUS
<1>1. RowsOf(u)' = RowsOf(u)
  BY DEF RowsOf
<1> QED
  BY <1>1, EarnedKept

LEMMA SameLedger ==
  ASSUME TypeOK, Ledger, UNCHANGED <<active, gain, rank>>
  PROVE  Ledger'
<1>1. \A u \in Users : Earned(u)' = Earned(u)
  BY SameEarned
<1> QED
  BY <1>1 DEF Ledger

LEMMA ReadBooks ==
  ASSUME Inv, Patience, Books, NEW r \in Requests, Turn(r),
         UNCHANGED <<exists, active, gain, rank>>,
         \A q \in Requests : q # r => worth'[q] = worth[q] /\ seen'[q] = seen[q],
         \A u \in Users : locked[u] \notin {r, None} => locked'[u] = locked[u],
         r \in InProgress' => Booking(r)'
  PROVE  Books'
<1>1. Ledger' /\ \A u \in Users : Earned(u)' = Earned(u)
  BY SameLedger, SameEarned DEF Books, Inv
<1>2. Elsewhere(r) /\ Aside(r)
  BY <1>1 DEF Elsewhere, Aside
<1> QED
  BY <1>1, <1>2, StepBooks

LEMMA CancelReadBooks ==
  ASSUME Inv, Patience, Books, NEW r \in Requests, CancelRead(r)
  PROVE  Books'
<1>1. /\ pc[r] = "cancel" /\ r \in InProgress
      /\ UNCHANGED <<exists, active, gain, rank, locked, seen, job>>
  BY DEF CancelRead, Goto, InProgress, table
<1>2. PICK a \in unread[r] :
        LET alive == live[r] \cup ({a} \cap active)
            last == unread[r] = {a}
        IN  \/ /\ last /\ alive = {}
               /\ Goto(r, "cancel", AfterCancel(r))
               /\ TurnToVote(r)
               /\ worth' = [worth EXCEPT ![r] = [b \in Activities |-> 0]]
            \/ /\ ~(last /\ alive = {})
               /\ Goto(r, "cancel", IF last THEN "cancel_lock" ELSE "cancel")
               /\ LookUp(r, a)
               /\ found' = [found EXCEPT ![r] = @ \cup ({a} \cap exists)]
               /\ live' = [live EXCEPT ![r] = alive]
               /\ worth' = [worth EXCEPT ![r][a] = gain[a]]
  BY DEF CancelRead
<1>3. Progress(r) /\ Booking(r)
  BY <1>1 DEF Patience, Books
<1>4. PICK target \in SUBSET Activities : target = Target(r)
  BY <1>1, JobRows
<1>5. \A q \in Requests : q # r => worth'[q] = worth[q] /\ seen'[q] = seen[q]
  BY <1>1, <1>2 DEF Inv, TypeOK
<1>6. CASE /\ Goto(r, "cancel", AfterCancel(r)) /\ TurnToVote(r)
  <2>1. AfterCancel(r) \in PCs /\ AfterCancel(r) # "new"
    BY DEF AfterCancel, PCs
  <2>2. Turn(r) /\ pc'[r] = AfterCancel(r)
    BY <1>1, <1>6, <2>1, TakesTurn DEF Goto, TurnToVote, Inv, TypeOK
  <2>3. Booking(r)'
    BY <2>2 DEF Booking, AfterCancel
  <2> QED
    BY <1>1, <1>5, <2>2, <2>3, ReadBooks
<1>7. CASE /\ Goto(r, "cancel", IF unread[r] = {a} THEN "cancel_lock" ELSE "cancel")
           /\ LookUp(r, a)
           /\ found' = [found EXCEPT ![r] = @ \cup ({a} \cap exists)]
           /\ live' = [live EXCEPT ![r] = live[r] \cup ({a} \cap active)]
           /\ worth' = [worth EXCEPT ![r][a] = gain[a]]
  <2>1. Turn(r) /\ pc'[r] = IF unread[r] = {a} THEN "cancel_lock" ELSE "cancel"
    <3>1. (IF unread[r] = {a} THEN "cancel_lock" ELSE "cancel") \in PCs
      BY DEF PCs
    <3> QED
      BY <1>1, <1>7, <3>1, TakesTurn DEF Goto, LookUp, Inv, TypeOK
  <2>2. /\ unread'[r] = unread[r] \ {a}
        /\ live'[r] = live[r] \cup ({a} \cap active)
    BY <1>7 DEF LookUp, Inv, TypeOK
  <2>3. \A b \in Activities : worth'[r][b] = IF b = a THEN gain[a] ELSE worth[r][b]
    BY <1>7 DEF Inv, TypeOK
  <2>4. Target(r)' = target
    BY <1>1, <1>4 DEF Target
  <2>5. \A b \in target \ unread'[r] : worth'[r][b] = gain[b]
    BY <1>1, <1>3, <1>4, <2>2, <2>3 DEF Booking
  <2>6. unread[r] = {a} => unread'[r] = {} /\ live'[r] = target \cap active
    BY <1>1, <1>3, <1>4, <2>2 DEF Progress, Voting, Counting
  <2>7. Booking(r)'
    BY <1>1, <2>1, <2>4, <2>5, <2>6 DEF Booking
  <2> QED
    BY <1>1, <1>5, <2>1, <2>7, ReadBooks
<1> QED
  BY <1>2, <1>6, <1>7

LEMMA VotePreCheckBooks ==
  ASSUME Inv, Patience, Books, NEW r \in Requests, VotePreCheck(r)
  PROVE  Books'
<1>1. /\ pc[r] = "vote" /\ r \in InProgress
      /\ UNCHANGED <<exists, active, gain, rank, locked, seen, worth, job, found>>
  BY DEF VotePreCheck, Goto, InProgress, table
<1>2. PICK a \in unread[r] :
        LET alive == live[r] \cup ({a} \cap active)
            last == unread[r] = {a}
        IN  /\ Goto(r, "vote", IF ~last THEN "vote"
                               ELSE IF alive = VoteOp(r) THEN "count_up" ELSE "vote_lock")
            /\ LookUp(r, a)
            /\ live' = [live EXCEPT ![r] = IF last THEN {} ELSE alive]
  BY DEF VotePreCheck
<1> DEFINE to == IF unread[r] # {a} THEN "vote"
                 ELSE IF live[r] \cup ({a} \cap active) = VoteOp(r) THEN "count_up" ELSE "vote_lock"
<1>3. Turn(r) /\ pc'[r] = to
  <2>1. to \in PCs /\ to # "new"
    BY DEF PCs
  <2> QED
    BY <1>1, <1>2, <2>1, TakesTurn DEF Goto, LookUp, Inv, TypeOK
<1>4. Progress(r)
  BY <1>1 DEF Patience
<1>5. PICK mine \in SUBSET Activities : mine = VoteOp(r)
  BY <1>1, JobRows
<1>6. Whole(active, mine)
  <2>1. PICK v \in Voters, d \in Directions : VoteOp(r) = Op(v, d)
    BY <1>1, JobIs
  <2> QED
    BY <1>5, <2>1 DEF Patience, BothOrNone
<1>7. pc'[r] = "vote_lock" => mine \cap active = {}
  <2>1. unread[r] = {a} => live[r] \cup ({a} \cap active) = mine \cap active
    BY <1>1, <1>4, <1>5 DEF Progress, Voting, Counting
  <2> QED
    BY <1>3, <1>5, <1>6, <2>1 DEF Whole
<1>8. VoteOp(r)' = mine
  BY <1>1, <1>5 DEF VoteOp
<1>9. Booking(r)'
  BY <1>1, <1>3, <1>7, <1>8 DEF Booking
<1> QED
  BY <1>1, <1>3, <1>9, ReadBooks

(* A request waits until nobody holds a lock that it takes. *)
LEMMA LocksTaken ==
  ASSUME Inv, NEW r \in Requests, NEW users \in SUBSET Users, AcquireUserInfo(r, users)
  PROVE  /\ \A u \in Users : locked'[u] = IF u \in users THEN r ELSE locked[u]
         /\ \A u \in Users : locked[u] \notin {r, None} => locked'[u] = locked[u]
         /\ \A q \in Requests : q # r => seen'[q] = seen[q]
<1>1. \A u \in users : locked[u] = None
  BY DEF AcquireUserInfo
<1>2. \A u \in Users : locked'[u] = IF u \in users THEN r ELSE locked[u]
  BY DEF AcquireUserInfo
<1>3. \A q \in Requests : q # r => seen'[q] = seen[q]
  BY DEF AcquireUserInfo, Inv, TypeOK
<1> QED
  BY <1>1, <1>2, <1>3

LEMMA CancelLockBooks ==
  ASSUME Inv, Patience, Books, NEW r \in Requests, CancelLock(r)
  PROVE  Books'
<1>1. /\ pc[r] = "cancel_lock" /\ r \in InProgress /\ Goto(r, "cancel_lock", "cancel_commit")
      /\ UNCHANGED <<exists, active, gain, rank, worth, job, unread, found, live>>
      /\ AcquireUserInfo(r, {UserOf(a) : a \in live[r]})
  BY DEF CancelLock, Goto, InProgress, table, lookup
<1>2. Turn(r) /\ pc'[r] = "cancel_commit"
  <2>1. "cancel_commit" \in PCs /\ "cancel_commit" # "new"
    BY DEF PCs
  <2> QED
    BY <1>1, <2>1, TakesTurn DEF Goto
<1>3. PICK users \in SUBSET Users : users = {UserOf(a) : a \in live[r]}
  <2>1. live[r] \subseteq Activities
    BY DEF Inv, TypeOK
  <2> QED
    BY <2>1, UserOfType
<1>4. /\ \A u \in Users : locked'[u] = IF u \in users THEN r ELSE locked[u]
      /\ \A u \in Users : locked[u] \notin {r, None} => locked'[u] = locked[u]
      /\ \A q \in Requests : q # r => seen'[q] = seen[q]
  <2>1. AcquireUserInfo(r, users)
    BY <1>1, <1>3
  <2> QED
    BY <2>1, LocksTaken
<1>5. PICK target \in SUBSET Activities : target = Target(r)
  BY <1>1, JobRows
<1>6. Booking(r)'
  <2>1. Target(r)' = target
    BY <1>1, <1>5 DEF Target
  <2>2. Booking(r)
    BY <1>1 DEF Books
  <2>3. \A a \in target \cap active : locked'[UserOf(a)] = r
    BY <1>1, <1>3, <1>4, <1>5, <2>2, UserOfType DEF Booking
  <2> QED
    BY <1>1, <1>2, <1>5, <2>1, <2>2, <2>3 DEF Booking
<1> QED
  BY <1>1, <1>2, <1>4, <1>6, ReadBooks

LEMMA VoteLockBooks ==
  ASSUME Inv, Patience, Books, NEW r \in Requests, VoteLock(r)
  PROVE  Books'
<1>1. /\ pc[r] = "vote_lock" /\ r \in InProgress /\ Goto(r, "vote_lock", "vote_check")
      /\ UNCHANGED <<exists, active, gain, rank, worth, job, unread, found, live>>
      /\ AcquireUserInfo(r, {UserOf(a) : a \in VoteOp(r)})
  BY DEF VoteLock, Goto, InProgress, table, lookup
<1>2. Turn(r) /\ pc'[r] = "vote_check"
  <2>1. "vote_check" \in PCs /\ "vote_check" # "new"
    BY DEF PCs
  <2> QED
    BY <1>1, <2>1, TakesTurn DEF Goto
<1>3. PICK users \in SUBSET Users : users = {UserOf(a) : a \in VoteOp(r)}
  BY <1>1, JobRows, UserOfType
<1>4. /\ \A u \in Users : locked[u] \notin {r, None} => locked'[u] = locked[u]
      /\ \A q \in Requests : q # r => seen'[q] = seen[q]
  <2>1. AcquireUserInfo(r, users)
    BY <1>1, <1>3
  <2> QED
    BY <2>1, LocksTaken
<1>5. Booking(r)'
  <2>1. VoteOp(r)' = VoteOp(r)
    BY <1>1 DEF VoteOp
  <2>2. Booking(r)
    BY <1>1 DEF Books
  <2> QED
    BY <1>1, <1>2, <2>1, <2>2 DEF Booking
<1> QED
  BY <1>1, <1>2, <1>4, <1>5, ReadBooks

LEMMA GrantedBounds ==
  ASSUME Inv, NEW r \in Requests, NEW a \in Activities, a \notin active,
         seen[r][UserOf(a)] >= 1
  PROVE  /\ Granted(r, a) \in Int
         /\ Granted(r, a) >= Low(a)
         /\ Granted(r, a) >= 0 \/ seen[r][UserOf(a)] + Granted(r, a) >= 1
         /\ Granted(r, a) > 0 => Earned(UserOf(a)) < DailyLimit
<1>1. PICK c \in Int : c = VoteRank[<<a[2], a[3]>>]
  BY LowType
<1>2. PICK s \in Int : s = seen[r][UserOf(a)]
  BY UserOfType DEF Inv, TypeOK
<1>3. Granted(r, a) = IF c > 0 THEN IF CheckReachLimit(UserOf(a)) THEN 0 ELSE c
                      ELSE IF s + c < 1 THEN 1 - s ELSE c
  BY <1>1, <1>2 DEF Granted
<1>4. Low(a) = IF c < 0 THEN c ELSE 0
  BY <1>1 DEF Low
<1>5. ~CheckReachLimit(UserOf(a)) => Earned(UserOf(a)) < DailyLimit
  BY RowsOfFinite DEF CheckReachLimit, Inv
<1> QED
  BY <1>1, <1>2, <1>3, <1>4, <1>5

LEMMA VoteCheckBooks ==
  ASSUME Inv, Patience, Books, NEW r \in Requests, VoteCheck(r)
  PROVE  Books'
<1>1. /\ pc[r] = "vote_check" /\ r \in InProgress /\ Goto(r, "vote_check", "vote_commit")
      /\ UNCHANGED <<exists, active, gain, rank, locked, seen, job, unread, found, live>>
  BY DEF VoteCheck, Goto, InProgress, table, lookup
<1>2. Turn(r) /\ pc'[r] = "vote_commit"
  <2>1. "vote_commit" \in PCs /\ "vote_commit" # "new"
    BY DEF PCs
  <2> QED
    BY <1>1, <2>1, TakesTurn DEF Goto
<1>3. \A q \in Requests : q # r => worth'[q] = worth[q]
  BY DEF VoteCheck, Inv, TypeOK
<1>4. PICK mine \in SUBSET Activities : mine = VoteOp(r)
  BY <1>1, JobRows
<1>5. mine \cap active = {}
  BY <1>1, <1>4 DEF Books, Booking
<1>6. \A a \in mine : worth'[r][a] = Granted(r, a)
  BY <1>4 DEF VoteCheck, Inv, TypeOK
<1>7. \A a \in mine : UserOf(a) \in Users /\ seen[r][UserOf(a)] >= 1
  BY <1>1, <1>4, UserOfType DEF Inv, LockDiscipline, RankAtLeastOne
<1>8. VoteOp(r)' = mine
  BY <1>1, <1>4 DEF VoteOp
<1>9. \A u \in Users : Earned(u)' = Earned(u)
  BY <1>1, SameEarned DEF Inv
<1>10. ASSUME NEW a \in mine
       PROVE  /\ worth'[r][a] >= Low(a)
              /\ worth'[r][a] >= 0 \/ seen[r][UserOf(a)] + worth'[r][a] >= 1
              /\ worth'[r][a] > 0 => Earned(UserOf(a))' < DailyLimit
  BY <1>5, <1>6, <1>7, <1>9, GrantedBounds
<1>11. Booking(r)'
  BY <1>1, <1>2, <1>5, <1>8, <1>10 DEF Booking
<1> QED
  BY <1>1, <1>2, <1>3, <1>11, ReadBooks

(* Of the rows of a vote, a user has at most one. *)
LEMMA RowOfUser ==
  ASSUME NEW v \in Voters, NEW d \in Directions, NEW u \in Users
  PROVE  \/ \A b \in Op(v, d) : UserOf(b) # u
         \/ \E a \in Op(v, d) : \A b \in Op(v, d) : UserOf(b) = u <=> b = a
BY DEF Op, UserOf, Sides, Users

(* The locks at the end of a transaction. *)
LEMMA LocksGiven ==
  ASSUME Inv, NEW r \in Requests, EndTransaction(r)
  PROVE  /\ \A u \in Users : locked[u] \notin {r, None} => locked'[u] = locked[u]
         /\ \A q \in Requests : q # r => worth'[q] = worth[q] /\ seen'[q] = seen[q]
BY DEF EndTransaction, Inv, TypeOK

LEMMA CancelCommitBooks ==
  ASSUME NeverCutOff, Inv, Patience, Books, NEW r \in Requests, CancelCommit(r)
  PROVE  Books'
<1>1. /\ pc[r] = "cancel_commit" /\ r \in InProgress /\ UNCHANGED <<exists, gain, job>>
      /\ active' = active \ found[r] /\ TurnToVote(r) /\ EndTransaction(r)
      /\ Goto(r, "cancel_commit", AfterCancel(r))
  BY DEF CancelCommit, Goto, InProgress
<1>2. PICK v \in Voters, d \in Directions : job[r].voter = v /\ Target(r) = Op(v, d)
  BY <1>1, JobIs
<1>3. PICK op \in SUBSET Activities : op = Op(v, d)
  BY OpType
<1>4. found[r] = op \cap exists /\ Booking(r)
  BY <1>1, <1>2, <1>3 DEF Patience, Progress, Books
<1>5. \A x : x \in active' <=> x \in active /\ x \notin op
  BY <1>1, <1>4 DEF Inv, TypeOK
<1>6. Whole(active, op)
  BY <1>3 DEF Patience, BothOrNone
<1>7. \A a \in op \cap active : locked[UserOf(a)] = r /\ worth[r][a] = gain[a]
  BY <1>1, <1>2, <1>3, <1>4 DEF Booking
<1>8. ASSUME NEW u \in Users
      PROVE  /\ rank'[u] = InitialRank + Earned(u)'
             /\ locked[u] # r => Earned(u)' = Earned(u)
  <2>1. PICK taken : taken = {a \in op \cap active : UserOf(a) = u /\ locked[u] = r}
    OBVIOUS
  <2>2. rank'[u] = IF taken = {} THEN rank[u]
                   ELSE ChangeUserRank(rank[u], seen[r][u], -worth[r][CHOOSE a \in taken : TRUE])
    <3>1. Booked(r, found[r] \cap active, u) = taken
      BY <1>4, <2>1 DEF Booked, Inv, TypeOK
    <3>2. rank'[u] = IF Booked(r, found[r] \cap active, u) = {} THEN rank[u]
                     ELSE ChangeUserRank(rank[u], seen[r][u],
                            -worth[r][CHOOSE a \in Booked(r, found[r] \cap active, u) : TRUE])
      BY DEF CancelCommit
    <3> QED
      BY <3>1, <3>2, Zenon
  <2>3. rank[u] = InitialRank + Earned(u) /\ rank[u] \in Int /\ Earned(u) \in Int
    BY RowsOfFinite DEF Books, Ledger, Inv, TypeOK
  <2>4. CASE \A b \in op \cap active : UserOf(b) # u
    <3>1. RowsOf(u)' = RowsOf(u)
      BY <1>5, <2>4 DEF RowsOf
    <3>2. Earned(u)' = Earned(u)
      BY <1>1, <3>1, EarnedKept DEF Inv
    <3>3. taken = {}
      BY <2>1, <2>4
    <3> QED
      BY <2>2, <2>3, <3>2, <3>3
  <2>5. CASE ~(\A b \in op \cap active : UserOf(b) # u)
    <3>1. op \subseteq active
      BY <1>6, <2>5 DEF Whole
    <3>2. PICK a \in op : \A b \in op : UserOf(b) = u <=> b = a
      BY <1>3, <2>5, RowOfUser
    <3>3. UserOf(a) = u /\ a \in active /\ locked[u] = r /\ worth[r][a] = gain[a] /\ gain[a] \in Int
      BY <1>7, <3>1, <3>2 DEF Inv, TypeOK
    <3>4. taken = {a}
      BY <2>1, <3>1, <3>2, <3>3
    <3>5. a \in RowsOf(u)
      BY <3>3 DEF RowsOf
    <3>6. RowsOf(u)' = RowsOf(u) \ {a}
      BY <1>5, <3>2 DEF RowsOf
    <3>7. Earned(u)' = Earned(u) - gain[a]
      BY <1>1, <3>5, <3>6, EarnedLess DEF Inv
    <3>8. rank[u] - gain[a] >= 1
      BY <3>5, NotCutOff DEF Books, Inv
    <3>9. seen[r][u] = rank[u]
      BY <3>3 DEF Inv, LockDiscipline
    <3>10. rank'[u] = ChangeUserRank(rank[u], rank[u], -gain[a])
      <4>1. (CHOOSE b \in taken : TRUE) = a
        BY <3>4
      <4> QED
        BY <2>2, <3>3, <3>4, <3>9, <4>1
    <3>11. rank'[u] = rank[u] - gain[a]
      BY <2>3, <3>3, <3>8, <3>10 DEF ChangeUserRank
    <3> QED
      BY <2>3, <3>3, <3>7, <3>11
  <2> QED
    BY <2>4, <2>5
<1>9. Ledger'
  BY <1>1, <1>5, <1>8 DEF Ledger, Books
<1>10. AfterCancel(r) \in PCs /\ AfterCancel(r) # "new"
  BY DEF AfterCancel, PCs
<1>11. Turn(r) /\ pc'[r] = AfterCancel(r)
  BY <1>1, <1>10, TakesTurn DEF Goto, TurnToVote, Inv, TypeOK
<1>12. Booking(r)'
  BY <1>11 DEF Booking, AfterCancel
<1>13. Elsewhere(r)
  BY <1>1, <1>2, <1>3, <1>5, OpOf DEF Elsewhere
<1>14. Aside(r)
  BY <1>1, <1>8, LocksGiven DEF Aside
<1> QED
  BY <1>9, <1>11, <1>12, <1>13, <1>14, StepBooks

LEMMA VoteCommitBooks ==
  ASSUME Inv, Patience, Books, NEW r \in Requests, VoteCommit(r)
  PROVE  Books'
<1>1. /\ pc[r] = "vote_commit" /\ r \in InProgress /\ UNCHANGED <<job, lookup>>
      /\ active' = active \cup VoteOp(r) /\ exists' = exists \cup missing[r] /\ EndTransaction(r)
      /\ gain' = [a \in Activities |-> IF a \in VoteOp(r) \ active THEN worth[r][a] ELSE gain[a]]
      /\ Goto(r, "vote_commit", "count_up")
  BY DEF VoteCommit, Goto, InProgress
<1>2. PICK v \in Voters, d \in Directions : job[r].voter = v /\ VoteOp(r) = Op(v, d)
  BY <1>1, JobIs
<1>3. PICK op \in SUBSET Activities : op = Op(v, d)
  BY OpType
<1>4. op \cap active = {} /\ missing[r] = op \ exists
  BY <1>1, <1>2, <1>3 DEF Books, Booking, Inv, MissingRows
<1>5. /\ \A x : x \in active' <=> x \in active \/ x \in op
      /\ \A a \in Activities : gain'[a] = IF a \in op THEN worth[r][a] ELSE gain[a]
  BY <1>1, <1>2, <1>3, <1>4
<1>6. \A a \in op : /\ locked[UserOf(a)] = r
                    /\ worth[r][a] \in Int /\ worth[r][a] >= Low(a)
                    /\ worth[r][a] >= 0 \/ seen[r][UserOf(a)] + worth[r][a] >= 1
  <2>1. \A a \in op : locked[UserOf(a)] = r
    BY <1>1, <1>2, <1>3 DEF Inv, LockDiscipline
  <2>2. \A a \in op : worth[r][a] \in Int
    BY DEF Inv, TypeOK
  <2>3. Booking(r)
    BY <1>1 DEF Books
  <2> QED
    BY <1>1, <1>2, <1>3, <2>1, <2>2, <2>3 DEF Booking
<1>7. ASSUME NEW u \in Users
      PROVE  /\ rank'[u] = InitialRank + Earned(u)'
             /\ locked[u] # r => Earned(u)' = Earned(u)
  <2>1. PICK mine : mine = {a \in op : UserOf(a) = u /\ locked[u] = r}
    OBVIOUS
  <2>2. rank'[u] = IF mine = {} THEN rank[u]
                   ELSE ChangeUserRank(rank[u], seen[r][u], worth[r][CHOOSE a \in mine : TRUE])
    <3>1. Booked(r, VoteOp(r), u) = mine
      BY <1>2, <1>3, <2>1 DEF Booked
    <3> QED
      BY <3>1 DEF VoteCommit
  <2>3. rank[u] = InitialRank + Earned(u) /\ rank[u] \in Int /\ Earned(u) \in Int
    BY RowsOfFinite DEF Books, Ledger, Inv, TypeOK
  <2>4. \A b \in RowsOf(u) : gain'[b] = gain[b]
    BY <1>4, <1>5, RowsOfFinite DEF RowsOf, Inv
  <2>5. CASE \A b \in op : UserOf(b) # u
    <3>1. RowsOf(u)' = RowsOf(u)
      BY <1>5, <2>5 DEF RowsOf
    <3>2. Earned(u)' = Earned(u)
      BY <2>4, <3>1, EarnedKept DEF Inv
    <3>3. mine = {}
      BY <2>1, <2>5
    <3> QED
      BY <2>2, <2>3, <3>2, <3>3
  <2>6. CASE ~(\A b \in op : UserOf(b) # u)
    <3>1. PICK a \in op : \A b \in op : UserOf(b) = u <=> b = a
      BY <1>3, <2>6, RowOfUser
    <3>2. PICK w \in Int : w = worth[r][a]
      BY <1>6
    <3>3. UserOf(a) = u /\ locked[u] = r /\ gain'[a] = w /\ a \in Activities
      BY <1>5, <1>6, <3>1, <3>2
    <3>4. mine = {a}
      BY <2>1, <3>1, <3>3
    <3>5. a \notin RowsOf(u)
      BY <1>4 DEF RowsOf
    <3>6. RowsOf(u)' = RowsOf(u) \cup {a}
      BY <1>5, <3>1 DEF RowsOf
    <3>7. Earned(u)' = Earned(u) + w
      BY <2>4, <3>2, <3>3, <3>5, <3>6, EarnedMore DEF Inv
    <3>8. seen[r][u] = rank[u]
      BY <3>3 DEF Inv, LockDiscipline
    <3>9. w >= 0 \/ rank[u] + w >= 1
      BY <1>6, <3>2, <3>3, <3>8
    <3>10. rank'[u] = ChangeUserRank(rank[u], rank[u], w)
      <4>1. (CHOOSE b \in mine : TRUE) = a
        BY <3>4
      <4> QED
        BY <2>2, <3>2, <3>4, <3>8, <4>1
    <3>11. rank'[u] = rank[u] + w
      BY <2>3, <3>2, <3>9, <3>10 DEF ChangeUserRank
    <3> QED
      BY <2>3, <3>2, <3>3, <3>7, <3>11
  <2> QED
    BY <2>5, <2>6
<1>8. Ledger'
  <2>1. \A a \in active' : gain'[a] >= Low(a)
    BY <1>5, <1>6 DEF Ledger, Books, Inv, TypeOK
  <2> QED
    BY <1>7, <2>1 DEF Ledger
<1>9. Turn(r) /\ pc'[r] = "count_up"
  <2>1. "count_up" \in PCs /\ "count_up" # "new"
    BY DEF PCs
  <2> QED
    BY <1>1, <2>1, TakesTurn DEF Goto, lookup, Inv, TypeOK
<1>10. Booking(r)'
  BY <1>9 DEF Booking
<1>11. Elsewhere(r)
  BY <1>1, <1>2, <1>3, <1>4, <1>5, OpOf DEF Elsewhere
<1>12. Aside(r)
  <2>1. \A a \in Activities : a[1] # job[r].voter => gain'[a] = gain[a]
    BY <1>2, <1>3, <1>5, OpOf
  <2> QED
    BY <1>1, <1>7, <2>1, LocksGiven DEF Aside
<1> QED
  BY <1>8, <1>9, <1>10, <1>11, <1>12, StepBooks

LEMMA FailBooks ==
  ASSUME Inv, Patience, Books, NEW r \in Requests, Fail(r)
  PROVE  Books'
<1>1. /\ r \in InProgress /\ UNCHANGED <<exists, active, gain, rank, job>> /\ EndTransaction(r)
      /\ pc' = [pc EXCEPT ![r] = "failed"]
  BY DEF Fail, Locking, InProgress, table
<1>2. Turn(r) /\ pc'[r] = "failed"
  <2>1. "failed" \in PCs /\ "failed" # "new"
    BY DEF PCs
  <2> QED
    BY <1>1, <2>1, TakesTurn DEF Fail, Inv, TypeOK
<1>3. r \notin InProgress'
  BY <1>2 DEF InProgress
<1> QED
  BY <1>1, <1>2, <1>3, LocksGiven, ReadBooks

(* The counting. *)
LEMMA CountingBooks ==
  ASSUME Inv, Patience, Books, NEW r \in Requests, NEW from, NEW to, Goto(r, from, to),
         \/ from = "count_up" /\ to = "count_down"
         \/ from = "count_down" /\ to = "save"
         \/ from = "save" /\ to = "done",
         UNCHANGED <<table, rank, locked, job, seen, lookup, worth>>
  PROVE  Books'
<1>1. r \in InProgress
  BY DEF Goto, InProgress
<1>2. Turn(r) /\ pc'[r] = to
  <2>1. to \in PCs /\ to # "new"
    BY DEF PCs
  <2> QED
    BY <1>1, <2>1, TakesTurn DEF Goto, lookup, Inv, TypeOK
<1>3. Booking(r)'
  BY <1>2 DEF Booking
<1> QED
  BY <1>2, <1>3, ReadBooks DEF table

LEMMA BeginBooks ==
  ASSUME Inv, Books, NEW r \in Requests, NEW v \in Users, NEW d \in Asked,
         NEW c \in BOOLEAN, Begin(r, v, d, c)
  PROVE  Books'
<1>1. /\ pc[r] = "new" /\ UNCHANGED <<active, gain, rank, locked, seen, live, worth>>
      /\ \A q \in Requests : q # r => job'[q] = job[q] /\ unread'[q] = unread[q] /\ pc'[q] = pc[q]
      /\ job'[r].voter = v /\ job'[r].dir = d /\ job'[r].cancel = c
      /\ pc'[r] = IF deleted \/ v = Owner THEN "failed" ELSE "cancel"
      /\ unread'[r] = IF v = Owner THEN {} ELSE Op(v, IF c THEN d ELSE Opposite(d))
  BY DEF Begin, Goto, table, Inv, TypeOK
<1>2. Ledger' /\ \A u \in Users : Earned(u)' = Earned(u)
  BY <1>1, SameLedger, SameEarned DEF Books, Inv
<1>3. ASSUME NEW q \in InProgress' PROVE Booking(q)'
  <2>1. CASE q # r
    <3>1. q \in InProgress /\ Booking(q) /\ q \in Requests
      BY <1>1, <2>1 DEF InProgress, Books
    <3>2. Untouched(q)
      BY <1>1, <1>2, <2>1, <3>1 DEF Untouched
    <3> QED
      BY <3>1, <3>2, UntouchedBooking
  <2>2. CASE q = r
    <3>1. v # Owner /\ pc'[r] = "cancel"
      BY <1>1, <2>2 DEF InProgress
    <3>2. Target(r)' = unread'[r]
      BY <1>1, <3>1 DEF Target
    <3> QED
      BY <2>2, <3>1, <3>2 DEF Booking
  <2> QED
    BY <2>1, <2>2
<1> QED
  BY <1>2, <1>3 DEF Books

LEMMA InitBooks == Init => Books
<1> SUFFICES ASSUME Init
             PROVE  Books
  OBVIOUS
<1>1. InProgress = {}
  BY DEF Init, InProgress
<1>2. \A u \in Users : Earned(u) = 0
  <2>1. SUFFICES ASSUME NEW u \in Users PROVE Earned(u) = 0
    OBVIOUS
  <2>2. RowsOf(u) = {}
    BY DEF Init, RowsOf
  <2> QED
    BY <2>2, EarnedIs, SumOfNone
<1>3. \A u \in Users : rank[u] = InitialRank
  BY DEF Init
<1> QED
  BY <1>1, <1>2, <1>3 DEF Init, Books, Ledger

LEMMA BooksStep ==
  ASSUME NeverCutOff
  PROVE  Inv /\ Patience /\ Books /\ [Next]_vars => Books'
<1> SUFFICES ASSUME Inv, Patience, Books, [Next]_vars
             PROVE  Books'
  OBVIOUS
<1>1. ASSUME NEW r \in Requests, NEW v \in Users, NEW d \in Asked, NEW c \in BOOLEAN, Begin(r, v, d, c)
      PROVE  Books'
  BY <1>1, BeginBooks
<1>2. ASSUME NEW r \in Requests, CancelRead(r) \/ CancelLock(r) \/ CancelCommit(r)
      PROVE  Books'
  BY <1>2, CancelReadBooks, CancelLockBooks, CancelCommitBooks
<1>3. ASSUME NEW r \in Requests, VotePreCheck(r) \/ VoteLock(r) \/ VoteCheck(r) \/ VoteCommit(r)
      PROVE  Books'
  BY <1>3, VotePreCheckBooks, VoteLockBooks, VoteCheckBooks, VoteCommitBooks
<1>4. ASSUME NEW r \in Requests, CountVoteUp(r) \/ CountVoteDown(r) \/ UpdateVotes(r)
      PROVE  Books'
  BY <1>4, CountingBooks DEF CountVoteUp, CountVoteDown, UpdateVotes
<1>5. ASSUME NEW r \in Requests, FailCounting(r)
      PROVE  Books'
  BY <1>5, CountingBooks DEF FailCounting
<1>6. ASSUME NEW r \in Requests, Fail(r)
      PROVE  Books'
  BY <1>6, FailBooks
<1>7. ASSUME DeleteObject \/ UNCHANGED vars
      PROVE  Books'
  <2>1. UNCHANGED <<active, gain, rank, locked, pc, job, seen, unread, live, worth>>
    BY <1>7 DEF DeleteObject, vars, table, local, lookup
  <2>2. Ledger' /\ \A u \in Users : Earned(u)' = Earned(u)
    BY <2>1, SameLedger, SameEarned DEF Books, Inv
  <2>3. ASSUME NEW q \in InProgress' PROVE Booking(q)'
    <3>1. q \in InProgress /\ Booking(q)
      BY <2>1 DEF InProgress, Books
    <3>2. Untouched(q)
      BY <2>1, <2>2 DEF Untouched
    <3> QED
      BY <3>1, <3>2, UntouchedBooking
  <2> QED
    BY <2>2, <2>3 DEF Books
<1>8. ASSUME NEW r \in Requests, Step(r) \/ Fail(r) \/ FailCounting(r)
      PROVE  Books'
  BY <1>2, <1>3, <1>4, <1>5, <1>6, <1>8 DEF Step
<1>9. CASE DeleteObject
  BY <1>7, <1>9
<1>10. CASE UNCHANGED vars
  BY <1>7, <1>10
<1> QED
  BY <1>1, <1>8, <1>9, <1>10 DEF Next, AllAnswered

(* Of voters that wait for each answer, where no rank is cut off at 1: every
   rank a user has, beyond the initial one, stems from rows that are not
   cancelled, also where requests overlap and statements fail. *)
THEOREM RanksMatchRowsTheorem ==
  ASSUME ~Impatient, NeverCutOff
  PROVE  Safety => []RanksMatchRows
<1>1. Books => RanksMatchRows
  BY DEF Books, Ledger, RanksMatchRows
<1>2. Inv /\ Patience /\ [Next]_vars => Patience'
  BY PatienceStep
<1>3. Inv /\ Patience /\ Books /\ [Next]_vars => Books'
  BY BooksStep
<1> QED
  BY <1>1, <1>2, <1>3, InitPatience, InitBooks, InvHolds, PTL DEF Safety

(* Under the same assumptions: once the rows of the day add up to the limit, a
   row earns its user nothing more, however many requests arrive at a time. *)
THEOREM DailyLimitHeldTheorem ==
  ASSUME ~Impatient, NeverCutOff
  PROVE  Safety => DailyLimitHeld
<1>1. Inv /\ Patience /\ Books /\ [Next]_vars =>
        [\A a \in active' \ active :
           Earned(UserOf(a)) >= DailyLimit => gain'[a] <= 0]_vars
  <2> SUFFICES ASSUME Inv, Books, Next, NEW a \in active' \ active, Earned(UserOf(a)) >= DailyLimit
               PROVE  gain'[a] <= 0
    OBVIOUS
  <2>1. PICK r \in Requests : VoteCommit(r)
    BY DEF Next, Begin, Step, Goto, CancelRead, CancelLock, CancelCommit, VotePreCheck, VoteLock,
       VoteCheck, CountVoteUp, CountVoteDown, UpdateVotes, Fail, FailCounting,
       DeleteObject, AllAnswered, table, vars
  <2>2. r \in InProgress /\ pc[r] = "vote_commit" /\ a \in VoteOp(r) /\ a \in Activities
    <3>1. r \in InProgress /\ pc[r] = "vote_commit" /\ a \in VoteOp(r)
      BY <2>1 DEF VoteCommit, Goto, InProgress
    <3> QED
      BY <3>1, JobRows
  <2>3. gain'[a] = worth[r][a] /\ worth[r][a] \in Int
    BY <2>1, <2>2 DEF VoteCommit, Inv, TypeOK
  <2>4. worth[r][a] > 0 => Earned(UserOf(a)) < DailyLimit
    BY <2>2 DEF Books, Booking
  <2>5. Earned(UserOf(a)) \in Int
    BY RowsOfFinite DEF Inv
  <2> QED
    BY <2>3, <2>4, <2>5
<1>2. Inv /\ Patience /\ [Next]_vars => Patience'
  BY PatienceStep
<1>3. Inv /\ Patience /\ Books /\ [Next]_vars => Books'
  BY BooksStep
<1> QED
  BY <1>1, <1>2, <1>3, InitPatience, InitBooks, InvHolds, PTL DEF Safety, DailyLimitHeld

-----------------------------------------------------------------------------
USE FollowsAssumption DEF FollowsAssumption

(* A request that merges two tags, and what a request is about. *)
Merges(w) == call[w].from # NoTopic
About(w, u, o) == u \in call[w].whose /\ o \in call[w].about

(* Whether a user has a row about a tag, and a live one. *)
HasRow(u, o) == \E r \in follows : r.fan = u /\ r.topic = o
Follower(u, o) == \E r \in follows : r.fan = u /\ r.topic = o /\ r.live

CallTypes == [pc : CallPCs, whose : SUBSET Fans, about : SUBSET Topics,
              cancels : SUBSET Topics, news : SUBSET Topics,
              topic : Topics \cup {NoTopic}, row : Nat,
              from : Topics \cup {NoTopic}, who : SUBSET Fans,
              seen : SUBSET Fans, count : Int]

(* A change of follows is about one user and the tags that it still has to
   change, each once; a merge is about everybody and two tags; an edit of a tag
   and an idle request are about nobody. *)
CallShape(w) ==
  LET c == call[w]
  IN /\ c.pc = "idle" => c = NoCall
     /\ c.pc \in {"next", "write"} =>
          /\ \E u \in Fans : c.whose = {u}
          /\ c.cancels \cup c.news \subseteq c.about
          /\ c.cancels \cap c.news = {}
     /\ c.pc = "next" => c.row = 0
     /\ c.pc = "write" => c.topic \in NextTopics(c)
     /\ c.from # NoTopic <=> c.pc \in {"list", "look", "move"}
     /\ c.from # NoTopic => /\ c.topic \in Topics
                            /\ c.topic # c.from
                            /\ c.about = {c.from, c.topic}
                            /\ c.whose = Fans
     /\ c.pc = "edit" => c.topic \in Topics /\ c.whose = {} /\ c.about = {}

FollowsShape ==
  /\ FTypeOK
  /\ IsFiniteSet(follows)
  /\ \A r \in follows : r.row # 0
  /\ \A w \in Calls : CallShape(w)

(* Of two requests about a user and a tag the history knows; and what is in
   doubt about one of the tags of a merge is in doubt about the other. *)
Doubts ==
  /\ \A v, w \in Calls, u \in Fans, o \in Topics :
       v # w /\ About(v, u, o) /\ About(w, u, o) => <<u, o>> \in blurred
  /\ \A w \in Calls, u \in Fans, o, p \in Topics :
       Merges(w) /\ About(w, u, o) /\ About(w, u, p) /\ <<u, o>> \in blurred => <<u, p>> \in blurred

(* A change of follows still has to do what the wish says, and what it does not
   have to do is done.  The row it has found is there, and not as wished. *)
Changing(w, u, o) ==
  LET c == call[w]
  IN /\ o \in c.cancels => o \notin wish[u]
     /\ o \in c.news => o \in wish[u]
     /\ o \notin c.cancels \cup c.news => (Follower(u, o) <=> o \in wish[u])
     /\ c.pc = "write" /\ o = c.topic /\ c.row = 0 => ~HasRow(u, o) /\ ~Cancelling(c)
     /\ c.pc = "write" /\ o = c.topic /\ c.row # 0 =>
          [row |-> c.row, fan |-> u, topic |-> o, live |-> Cancelling(c)] \in follows

(* A merge: whoever follows one of the tags wants to follow the target, and the
   followers it has listed and the rows it has seen are as they were. *)
Merging(w, u) ==
  LET c == call[w]
  IN /\ c.from \notin wish[u]
     /\ c.topic \in wish[u] <=> Follower(u, c.from) \/ Follower(u, c.topic)
     /\ c.pc \in {"look", "move"} => (u \in c.who <=> Follower(u, c.from))
     /\ c.pc = "move" => (u \in c.seen <=> \/ u \in c.who /\ HasRow(u, c.topic)
                                           \/ Follower(u, c.topic))

AtWorkOn(w, u, o) == IF Merges(w) THEN Merging(w, u) ELSE Changing(w, u, o)

(* What is known of the rows about a user and a tag at all times. *)
OneRow(u, o) == \A r, s \in FollowsOf(u, o) : r = s
Nobody(u, o) == \A w \in Calls : ~About(w, u, o)

WishesKept ==
  \A u \in Fans, o \in Topics : <<u, o>> \notin blurred =>
    /\ OneRow(u, o)
    /\ Nobody(u, o) => (Follower(u, o) <=> o \in wish[u])
    /\ \A w \in Calls : About(w, u, o) => AtWorkOn(w, u, o)

CountOK ==
  \A o \in Topics \ overwritten : (\A u \in Fans : <<u, o>> \notin blurred) =>
    followCount[o] = Cardinality(LiveRows(o)) - moved[o]

FollowsInv == FollowsShape /\ Doubts /\ WishesKept /\ CountOK

(* The pairs that a request concerns. *)
LEMMA ConcernsIs ==
  ASSUME NEW c, NEW u, NEW o
  PROVE  <<u, o>> \in Concerns(c) <=> u \in c.whose /\ o \in c.about
BY DEF Concerns

(* Nothing is asked of an idle request. *)
LEMMA NoCallIs ==
  /\ NoCall \in CallTypes
  /\ NoCall.pc = "idle" /\ NoCall.from = NoTopic
  /\ NoCall.whose = {} /\ NoCall.about = {}
BY DEF NoCall, CallTypes, CallPCs

LEMMA TopicDoneIs ==
  ASSUME NEW c \in CallTypes, NEW o \in Topics
  PROVE  LET d == TopicDone(c, o)
         IN /\ d \in CallTypes
            /\ d.pc = "next" /\ d.row = 0 /\ d.whose = c.whose /\ d.about = c.about /\ d.from = c.from
            /\ d.cancels = c.cancels \ {o}
            /\ d.news = IF Cancelling(c) THEN c.news ELSE c.news \ {o}
BY DEF TopicDone, CallTypes, CallPCs

LEMMA LiveRowsFinite ==
  ASSUME FollowsShape, NEW o
  PROVE  IsFiniteSet(LiveRows(o)) /\ Cardinality(LiveRows(o)) \in Nat
<1>1. LiveRows(o) \in SUBSET follows
  BY DEF LiveRows
<1>2. IsFiniteSet(LiveRows(o))
  BY <1>1, FS_Subset DEF FollowsShape
<1> QED
  BY <1>2, FS_CardinalityType

(* The shape of a request that arrives or goes on. *)
LEMMA CallSetShape ==
  ASSUME FollowsShape, NEW w \in Calls, NEW c \in CallTypes, call' = [call EXCEPT ![w] = c]
  PROVE  /\ call' \in [Calls -> CallTypes]
         /\ call'[w] = c
         /\ \A v \in Calls : v # w => call'[v] = call[v] /\ CallShape(v)'
<1>1. call \in [Calls -> CallTypes]
  BY DEF FollowsShape, FTypeOK, CallTypes
<1>2. call' \in [Calls -> CallTypes] /\ call'[w] = c
  BY <1>1
<1>3. ASSUME NEW v \in Calls, v # w PROVE call'[v] = call[v]
  BY <1>1, <1>3
<1>4. ASSUME NEW v \in Calls, v # w PROVE CallShape(v)'
  BY <1>3, <1>4 DEF FollowsShape, CallShape
<1> QED
  BY <1>2, <1>3, <1>4

LEMMA CallsTyped == FollowsShape => call \in [Calls -> CallTypes]
BY DEF FollowsShape, FTypeOK, CallTypes

LEMMA ArriveShape ==
  ASSUME FollowsShape, NEW w \in Calls, NEW c \in CallTypes, CallArrives(w, c),
         wish' \in [Fans -> SUBSET Topics],
         call'[w] = c => CallShape(w)'
  PROVE  FollowsShape'
<1>1. /\ call' \in [Calls -> CallTypes]
      /\ \A v \in Calls : CallShape(v)'
  BY CallSetShape DEF CallArrives
<1>2. callsMade' \in 0..MaxCalls
  BY DEF CallArrives, FollowsShape, FTypeOK
<1>3. blurred' \subseteq Fans \X Topics
  <2> DEFINE others == {call[v] : v \in Calls}
  <2>1. blurred \cup (Concerns(c) \cap UNION {Concerns(x) : x \in others}) \subseteq Fans \X Topics
    BY DEF Concerns, CallTypes, FollowsShape, FTypeOK
  <2> QED
    BY <2>1 DEF CallArrives, Spread
<1> QED
  BY <1>1, <1>2, <1>3 DEF CallArrives, FollowsShape, FTypeOK, fTables, CallTypes

LEMMA GoesShape ==
  ASSUME FollowsShape, NEW w \in Calls, NEW c \in CallTypes, CallGoes(w, c),
         UNCHANGED <<fTables, fHistory>>,
         call'[w] = c => CallShape(w)'
  PROVE  FollowsShape'
<1>1. /\ call' \in [Calls -> CallTypes]
      /\ \A v \in Calls : CallShape(v)'
  BY CallSetShape DEF CallGoes
<1> QED
  BY <1>1 DEF CallGoes, FollowsShape, FTypeOK, fTables, fHistory, CallTypes

(* A change of one follow that arrives. *)
ChangeArrives(w, u, o, cancels, news) ==
  \E c \in CallTypes :
    /\ CallArrives(w, c)
    /\ c.pc = "next" /\ c.row = 0 /\ c.whose = {u} /\ c.about = {o} /\ c.from = NoTopic
    /\ c.cancels = cancels /\ c.news = news

LEMMA FollowTagIs ==
  ASSUME FollowsShape, NEW w \in Calls, NEW u \in Fans, NEW o \in Topics, FollowTag(w, u, o)
  PROVE  /\ wish' \in [Fans -> SUBSET Topics]
         /\ ChangeArrives(w, u, o, {}, {o})
<1>1. wish' \in [Fans -> SUBSET Topics]
  BY DEF FollowTag, FollowsShape, FTypeOK
<1>2. PICK c : c = ChangeOf(u, {o}, {}, {o})
  OBVIOUS
<1>3. c \in CallTypes /\ c.pc = "next" /\ c.row = 0 /\ c.whose = {u} /\ c.about = {o} /\ c.from = NoTopic
      /\ c.cancels = {} /\ c.news = {o}
  <2>1. c = [pc |-> "next", whose |-> {u}, about |-> {o}, cancels |-> {}, news |-> {o},
             topic |-> NoTopic, row |-> 0, from |-> NoTopic, who |-> {}, seen |-> {}, count |-> 0]
    BY <1>2 DEF ChangeOf, NoCall
  <2>2. {u} \in SUBSET Fans /\ {o} \in SUBSET Topics /\ {} \in SUBSET Topics
    OBVIOUS
  <2> QED
    BY <2>1, <2>2 DEF CallTypes, CallPCs
<1> QED
  BY <1>1, <1>2, <1>3 DEF FollowTag, ChangeArrives

LEMMA FollowTagShape ==
  ASSUME FollowsShape, NEW w \in Calls, NEW u \in Fans, NEW o \in Topics, FollowTag(w, u, o)
  PROVE  FollowsShape'
<1>0. ChangeArrives(w, u, o, {}, {o})
  BY FollowTagIs
<1>1. PICK c \in CallTypes :
        /\ CallArrives(w, c)
        /\ c.pc = "next" /\ c.row = 0 /\ c.whose = {u} /\ c.about = {o} /\ c.from = NoTopic
        /\ c.cancels = {} /\ c.news = {o}
  BY <1>0, Zenon DEF ChangeArrives
<1>2. call'[w] = c => CallShape(w)'
  BY <1>1 DEF CallShape
<1> QED
  BY <1>1, <1>2, FollowTagIs, ArriveShape

LEMMA FollowCancelIs ==
  ASSUME FollowsShape, NEW w \in Calls, NEW u \in Fans, NEW o \in Topics, FollowCancel(w, u, o)
  PROVE  /\ wish' \in [Fans -> SUBSET Topics]
         /\ ChangeArrives(w, u, o, {o}, {})
<1>1. wish' \in [Fans -> SUBSET Topics]
  BY DEF FollowCancel, FollowsShape, FTypeOK
<1>2. PICK c : c = ChangeOf(u, {o}, {o}, {})
  OBVIOUS
<1>3. c \in CallTypes /\ c.pc = "next" /\ c.row = 0 /\ c.whose = {u} /\ c.about = {o} /\ c.from = NoTopic
      /\ c.cancels = {o} /\ c.news = {}
  <2>1. c = [pc |-> "next", whose |-> {u}, about |-> {o}, cancels |-> {o}, news |-> {},
             topic |-> NoTopic, row |-> 0, from |-> NoTopic, who |-> {}, seen |-> {}, count |-> 0]
    BY <1>2 DEF ChangeOf, NoCall
  <2>2. {u} \in SUBSET Fans /\ {o} \in SUBSET Topics /\ {} \in SUBSET Topics
    OBVIOUS
  <2> QED
    BY <2>1, <2>2 DEF CallTypes, CallPCs
<1> QED
  BY <1>1, <1>2, <1>3 DEF FollowCancel, ChangeArrives

LEMMA FollowCancelShape ==
  ASSUME FollowsShape, NEW w \in Calls, NEW u \in Fans, NEW o \in Topics, FollowCancel(w, u, o)
  PROVE  FollowsShape'
<1>0. ChangeArrives(w, u, o, {o}, {})
  BY FollowCancelIs
<1>1. PICK c \in CallTypes :
        /\ CallArrives(w, c)
        /\ c.pc = "next" /\ c.row = 0 /\ c.whose = {u} /\ c.about = {o} /\ c.from = NoTopic
        /\ c.cancels = {o} /\ c.news = {}
  BY <1>0, Zenon DEF ChangeArrives
<1>2. call'[w] = c => CallShape(w)'
  BY <1>1 DEF CallShape
<1> QED
  BY <1>1, <1>2, FollowCancelIs, ArriveShape

LEMMA UpdateFollowTagsIs ==
  ASSUME FollowsShape, NEW w \in Calls, NEW u \in Fans, NEW wanted \in SUBSET Topics,
         UpdateFollowTags(w, u, wanted)
  PROVE  /\ wish' \in [Fans -> SUBSET Topics]
         /\ \E c \in CallTypes :
              /\ CallArrives(w, c)
              /\ c.pc = "next" /\ c.row = 0 /\ c.whose = {u} /\ c.about = Topics /\ c.from = NoTopic
              /\ c.cancels = {o \in Topics : Follower(u, o)} \ wanted
              /\ c.news = wanted \ {o \in Topics : Follower(u, o)}
<1>1. wish' \in [Fans -> SUBSET Topics]
  BY DEF UpdateFollowTags, FollowsShape, FTypeOK
<1>2. PICK old \in SUBSET Topics : old = {o \in Topics : u \in FollowersOf(o)}
  OBVIOUS
<1>3. old = {o \in Topics : Follower(u, o)}
  BY <1>2 DEF FollowersOf, LiveRows, Follower
<1>4. PICK c : c = ChangeOf(u, Topics, old \ wanted, wanted \ old)
  OBVIOUS
<1>5. /\ c \in CallTypes
      /\ c.pc = "next" /\ c.row = 0 /\ c.whose = {u} /\ c.about = Topics /\ c.from = NoTopic
      /\ c.cancels = old \ wanted /\ c.news = wanted \ old
  <2>1. c = [pc |-> "next", whose |-> {u}, about |-> Topics, cancels |-> old \ wanted, news |-> wanted \ old,
             topic |-> NoTopic, row |-> 0, from |-> NoTopic, who |-> {}, seen |-> {}, count |-> 0]
    BY <1>4 DEF ChangeOf, NoCall
  <2>2. {u} \in SUBSET Fans /\ (old \ wanted) \in SUBSET Topics /\ (wanted \ old) \in SUBSET Topics
    OBVIOUS
  <2> QED
    BY <2>1, <2>2 DEF CallTypes, CallPCs
<1>6. CallArrives(w, c)
  BY <1>2, <1>4 DEF UpdateFollowTags
<1> QED
  BY <1>1, <1>3, <1>5, <1>6

LEMMA UpdateFollowTagsShape ==
  ASSUME FollowsShape, NEW w \in Calls, NEW u \in Fans, NEW wanted \in SUBSET Topics,
         UpdateFollowTags(w, u, wanted)
  PROVE  FollowsShape'
<1>1. PICK c \in CallTypes :
        /\ CallArrives(w, c)
        /\ c.pc = "next" /\ c.row = 0 /\ c.whose = {u} /\ c.about = Topics /\ c.from = NoTopic
        /\ c.cancels = {o \in Topics : Follower(u, o)} \ wanted
        /\ c.news = wanted \ {o \in Topics : Follower(u, o)}
  BY UpdateFollowTagsIs
<1>2. call'[w] = c => CallShape(w)'
  BY <1>1 DEF CallShape
<1> QED
  BY <1>1, <1>2, UpdateFollowTagsIs, ArriveShape

LEMMA FindNoRowShape ==
  ASSUME FollowsShape, NEW w \in Calls, NEW o \in Topics, FindNoRow(w, o)
  PROVE  FollowsShape'
<1>1. PICK c : c = call[w]
  OBVIOUS
<1>2. c \in CallTypes
  BY <1>1, CallsTyped
<1>3. CASE CallGoes(w, TopicDone(c, o))
  <2>1. PICK d : d = TopicDone(c, o)
    OBVIOUS
  <2>2. /\ d.pc = "next" /\ d.row = 0 /\ d.whose = c.whose /\ d.about = c.about /\ d.from = c.from
        /\ d.cancels = c.cancels \ {o}
        /\ d.news = IF Cancelling(c) THEN c.news ELSE c.news \ {o}
    BY <1>2, <2>1, TopicDoneIs
  <2>3. c.pc = "next" /\ CallShape(w)
    BY <1>1 DEF FindNoRow, FollowsShape
  <2>4. call'[w] = d => CallShape(w)'
    BY <1>1, <2>2, <2>3 DEF CallShape
  <2> QED
    BY <1>1, <1>2, <1>3, <2>1, <2>4, TopicDoneIs, GoesShape DEF FindNoRow
<1>4. CASE ~Cancelling(c) /\ CallGoes(w, [c EXCEPT !.pc = "write", !.topic = o])
  <2>1. PICK d : d = [c EXCEPT !.pc = "write", !.topic = o]
    OBVIOUS
  <2>2. d \in CallTypes
    BY <1>2, <2>1 DEF CallTypes, CallPCs
  <2>3. call'[w] = d => CallShape(w)'
    <3>1. c.pc = "next" /\ CallShape(w) /\ o \in NextTopics(c)
      BY <1>1 DEF FindNoRow, FollowsShape
    <3>2. /\ d.pc = "write" /\ d.topic = o /\ d.whose = c.whose /\ d.about = c.about
          /\ d.from = c.from /\ d.cancels = c.cancels /\ d.news = c.news
      BY <1>2, <2>1 DEF CallTypes
    <3>3. o \in NextTopics(d)
      BY <3>1, <3>2 DEF NextTopics, Cancelling
    <3> QED
      BY <1>1, <3>1, <3>2, <3>3 DEF CallShape
  <2> QED
    BY <1>4, <2>1, <2>2, <2>3, GoesShape DEF FindNoRow
<1> QED
  BY <1>1, <1>3, <1>4 DEF FindNoRow

LEMMA FindRowShape ==
  ASSUME FollowsShape, NEW w \in Calls, NEW o \in Topics, FindRow(w, o)
  PROVE  FollowsShape'
<1>1. PICK c : c = call[w]
  OBVIOUS
<1>2. c \in CallTypes
  BY <1>1, CallsTyped
<1>3. CASE CallGoes(w, TopicDone(c, o))
  <2>1. PICK d : d = TopicDone(c, o)
    OBVIOUS
  <2>2. /\ d.pc = "next" /\ d.row = 0 /\ d.whose = c.whose /\ d.about = c.about /\ d.from = c.from
        /\ d.cancels = c.cancels \ {o}
        /\ d.news = IF Cancelling(c) THEN c.news ELSE c.news \ {o}
    BY <1>2, <2>1, TopicDoneIs
  <2>3. c.pc = "next" /\ CallShape(w)
    BY <1>1 DEF FindRow, FollowsShape
  <2>4. call'[w] = d => CallShape(w)'
    BY <1>1, <2>2, <2>3 DEF CallShape
  <2> QED
    BY <1>1, <1>2, <1>3, <2>1, <2>4, TopicDoneIs, GoesShape DEF FindRow
<1>4. ASSUME NEW r \in follows, CallGoes(w, [c EXCEPT !.pc = "write", !.topic = o, !.row = r.row])
      PROVE  FollowsShape'
  <2>1. PICK d : d = [c EXCEPT !.pc = "write", !.topic = o, !.row = r.row]
    OBVIOUS
  <2>2. d \in CallTypes
    BY <1>2, <2>1 DEF CallTypes, CallPCs, FollowsShape, FTypeOK, FollowRows
  <2>3. call'[w] = d => CallShape(w)'
    <3>1. c.pc = "next" /\ CallShape(w) /\ o \in NextTopics(c)
      BY <1>1 DEF FindRow, FollowsShape
    <3>2. /\ d.pc = "write" /\ d.topic = o /\ d.whose = c.whose /\ d.about = c.about
          /\ d.from = c.from /\ d.cancels = c.cancels /\ d.news = c.news
      BY <1>2, <2>1 DEF CallTypes
    <3>3. o \in NextTopics(d)
      BY <3>1, <3>2 DEF NextTopics, Cancelling
    <3> QED
      BY <1>1, <3>1, <3>2, <3>3 DEF CallShape
  <2> QED
    BY <1>4, <2>1, <2>2, <2>3, GoesShape DEF FindRow
<1> QED
  BY <1>1, <1>3, <1>4 DEF FindRow, FollowsOf

LEMMA FollowDoneShape ==
  ASSUME FollowsShape, NEW w \in Calls, FollowDone(w)
  PROVE  FollowsShape'
BY NoCallIs, GoesShape DEF FollowDone, CallShape

LEMMA MergeTagIs ==
  ASSUME FollowsShape, NEW w \in Calls, NEW s \in Topics, NEW t \in Topics, MergeTag(w, s, t)
  PROVE  /\ wish' \in [Fans -> SUBSET Topics]
         /\ \E c \in CallTypes :
              /\ CallArrives(w, c)
              /\ c.pc = "list" /\ c.row = 0 /\ c.whose = Fans /\ c.about = {s, t}
              /\ c.from = s /\ c.topic = t
<1>1. wish' \in [Fans -> SUBSET Topics]
  BY DEF MergeTag, FollowsShape, FTypeOK
<1>2. PICK c : c = [NoCall EXCEPT !.pc = "list", !.whose = Fans, !.about = {s, t}, !.from = s, !.topic = t]
  OBVIOUS
<1>3. c \in CallTypes /\ c.pc = "list" /\ c.row = 0 /\ c.whose = Fans /\ c.about = {s, t}
      /\ c.from = s /\ c.topic = t
  <2>1. c = [pc |-> "list", whose |-> Fans, about |-> {s, t}, cancels |-> {}, news |-> {},
             topic |-> t, row |-> 0, from |-> s, who |-> {}, seen |-> {}, count |-> 0]
    BY <1>2 DEF ChangeOf, NoCall
  <2>2. {s, t} \in SUBSET Topics
    OBVIOUS
  <2> QED
    BY <2>1, <2>2 DEF CallTypes, CallPCs
<1> QED
  BY <1>1, <1>2, <1>3 DEF MergeTag

LEMMA MergeTagShape ==
  ASSUME FollowsShape, NEW w \in Calls, NEW s \in Topics, NEW t \in Topics, MergeTag(w, s, t)
  PROVE  FollowsShape'
<1>1. PICK c \in CallTypes :
        /\ CallArrives(w, c)
        /\ c.pc = "list" /\ c.row = 0 /\ c.whose = Fans /\ c.about = {s, t}
        /\ c.from = s /\ c.topic = t
  BY MergeTagIs
<1>2. call'[w] = c => CallShape(w)'
  BY <1>1 DEF CallShape, MergeTag
<1> QED
  BY <1>1, <1>2, MergeTagIs, ArriveShape

LEMMA ListFollowersShape ==
  ASSUME FollowsShape, NEW w \in Calls, ListFollowers(w)
  PROVE  FollowsShape'
<1>1. PICK c : c = [call[w] EXCEPT !.pc = "look", !.who = FollowersOf(call[w].from)]
  OBVIOUS
<1>2. FollowersOf(call[w].from) \subseteq Fans
  BY DEF FollowersOf, LiveRows, FollowsShape, FTypeOK, FollowRows
<1>3. c \in CallTypes
  BY <1>1, <1>2, CallsTyped DEF CallTypes, CallPCs
<1>4. call'[w] = c => CallShape(w)'
  BY <1>1, CallsTyped DEF CallShape, FollowsShape, CallTypes, ListFollowers
<1> QED
  BY <1>1, <1>3, <1>4, GoesShape DEF ListFollowers

LEMMA LookAtTargetShape ==
  ASSUME FollowsShape, NEW w \in Calls, LookAtTarget(w)
  PROVE  FollowsShape'
<1>1. PICK k : k = {u \in call[w].who : FollowsOf(u, call[w].topic) # {}} \cup FollowersOf(call[w].topic)
  OBVIOUS
<1>2. k \subseteq Fans
  BY <1>1, CallsTyped DEF FollowersOf, LiveRows, FollowsShape, FTypeOK, FollowRows, CallTypes
<1>3. PICK c : c = [call[w] EXCEPT !.pc = "move", !.seen = k]
  OBVIOUS
<1>4. c \in CallTypes
  BY <1>3, <1>2, CallsTyped DEF CallTypes, CallPCs
<1>5. call'[w] = c => CallShape(w)'
  BY <1>3, CallsTyped DEF CallShape, FollowsShape, CallTypes, LookAtTarget
<1> QED
  BY <1>1, <1>3, <1>4, <1>5, GoesShape DEF LookAtTarget

LEMMA EditTagIs ==
  ASSUME FollowsShape, NEW w \in Calls, NEW o \in Topics, EditTag(w, o)
  PROVE  /\ wish' \in [Fans -> SUBSET Topics]
         /\ \E c \in CallTypes :
              /\ CallArrives(w, c)
              /\ c.pc = "edit" /\ c.whose = {} /\ c.about = {} /\ c.from = NoTopic /\ c.topic = o
<1>1. wish' \in [Fans -> SUBSET Topics]
  BY DEF EditTag, FollowsShape, FTypeOK
<1>2. PICK c : c = [NoCall EXCEPT !.pc = "edit", !.topic = o, !.count = followCount[o]]
  OBVIOUS
<1>3. c \in CallTypes /\ c.pc = "edit" /\ c.whose = {} /\ c.about = {} /\ c.from = NoTopic /\ c.topic = o
  <2>1. c = [pc |-> "edit", whose |-> {}, about |-> {}, cancels |-> {}, news |-> {},
             topic |-> o, row |-> 0, from |-> NoTopic, who |-> {}, seen |-> {}, count |-> followCount[o]]
    BY <1>2 DEF ChangeOf, NoCall
  <2>2. followCount[o] \in Int
    BY DEF FollowsShape, FTypeOK
  <2> QED
    BY <2>1, <2>2 DEF CallTypes, CallPCs
<1> QED
  BY <1>1, <1>2, <1>3 DEF EditTag

LEMMA EditTagShape ==
  ASSUME FollowsShape, NEW w \in Calls, NEW o \in Topics, EditTag(w, o)
  PROVE  FollowsShape'
<1>1. PICK c \in CallTypes :
        /\ CallArrives(w, c)
        /\ c.pc = "edit" /\ c.whose = {} /\ c.about = {} /\ c.from = NoTopic /\ c.topic = o
  BY EditTagIs
<1>2. call'[w] = c => CallShape(w)'
  BY <1>1 DEF CallShape
<1> QED
  BY <1>1, <1>2, EditTagIs, ArriveShape

LEMMA WriteTagShape ==
  ASSUME FollowsShape, NEW w \in Calls, WriteTag(w)
  PROVE  FollowsShape'
<1>1. /\ call' \in [Calls -> CallTypes]
      /\ \A v \in Calls : CallShape(v)'
  <2>1. NoCall \in CallTypes /\ call' = [call EXCEPT ![w] = NoCall]
    BY NoCallIs DEF WriteTag, CallGoes
  <2>2. /\ call' \in [Calls -> CallTypes] /\ call'[w] = NoCall
        /\ \A v \in Calls : v # w => CallShape(v)'
    BY <2>1, CallSetShape
  <2>3. CallShape(w)'
    BY <2>2, NoCallIs DEF CallShape
  <2> QED
    BY <2>2, <2>3
<1>2. call[w].topic \in Topics /\ call[w].count \in Int
  BY CallsTyped DEF WriteTag, FollowsShape, CallShape, CallTypes
<1>3. followCount' \in [Topics -> Int] /\ overwritten' \subseteq Topics
  BY <1>2 DEF WriteTag, FollowsShape, FTypeOK
<1> QED
  BY <1>1, <1>3 DEF WriteTag, CallGoes, FollowsShape, FTypeOK, CallTypes

LEMMA CallFailsShape ==
  ASSUME FollowsShape, NEW w \in Calls, CallFails(w)
  PROVE  FollowsShape'
<1>1. /\ call' \in [Calls -> CallTypes]
      /\ \A v \in Calls : CallShape(v)'
  <2>1. NoCall \in CallTypes /\ call' = [call EXCEPT ![w] = NoCall]
    BY NoCallIs DEF CallFails
  <2>2. /\ call' \in [Calls -> CallTypes] /\ call'[w] = NoCall
        /\ \A v \in Calls : v # w => CallShape(v)'
    BY <2>1, CallSetShape
  <2>3. CallShape(w)'
    BY <2>2, NoCallIs DEF CallShape
  <2> QED
    BY <2>2, <2>3
<1>2. blurred' \subseteq Fans \X Topics
  BY CallsTyped DEF CallFails, FollowsShape, FTypeOK, Concerns, CallTypes
<1>3. drops' \in 0..MaxDrops
  BY DEF CallFails, FollowsShape, FTypeOK
<1> QED
  BY <1>1, <1>2, <1>3 DEF CallFails, FollowsShape, FTypeOK, CallTypes, fTables

(* What the history knows after a request has arrived: whatever it had known,
   what two requests are about now, and no less about one tag of a merge than
   about the other. *)
LEMMA ArriveDoubts ==
  ASSUME FollowsShape, Doubts, NEW w \in Calls, NEW c \in CallTypes, CallArrives(w, c),
         call'[w] = c => CallShape(w)'
  PROVE  /\ Doubts'
         /\ blurred \subseteq blurred'
         /\ \A v \in Calls, u \in Fans, o \in Topics :
              About(v, u, o) /\ u \in c.whose /\ o \in c.about => <<u, o>> \in blurred'
<1>0. /\ call' \in [Calls -> CallTypes]
      /\ call'[w] = c
      /\ \A v \in Calls : v # w => call'[v] = call[v]
      /\ \A v \in Calls : CallShape(v)'
  BY CallSetShape DEF CallArrives
<1>1. PICK jobs : jobs = {call[v] : v \in Calls} \cup {c}
  OBVIOUS
<1>2. PICK known : known = blurred \cup (Concerns(c) \cap UNION {Concerns(x) : x \in {call[v] : v \in Calls}})
  OBVIOUS
<1>3. blurred' = Spread(known, jobs)
  BY <1>1, <1>2 DEF CallArrives
<1>4. \A v \in Calls : call[v] \in jobs /\ call'[v] \in jobs
  BY <1>0, <1>1
<1>5. known \subseteq blurred' /\ blurred \subseteq known
  BY <1>2, <1>3 DEF Spread
<1>6. ASSUME NEW v \in Calls, NEW u \in Fans, NEW o \in Topics, About(v, u, o), u \in c.whose, o \in c.about
      PROVE  <<u, o>> \in known
  <2>1. <<u, o>> \in Concerns(c) /\ <<u, o>> \in Concerns(call[v])
    BY <1>6, ConcernsIs DEF About
  <2> QED
    BY <1>2, <2>1
<1>7. ASSUME NEW v \in Calls, NEW x \in Calls, v # x, NEW u \in Fans, NEW o \in Topics,
             About(v, u, o)', About(x, u, o)'
      PROVE  <<u, o>> \in known
  <2>1. CASE v = w
    BY <1>0, <1>6, <1>7, <2>1 DEF About
  <2>2. CASE x = w
    BY <1>0, <1>6, <1>7, <2>2 DEF About
  <2>3. CASE v # w /\ x # w
    BY <1>0, <1>5, <1>7, <2>3 DEF About, Doubts
  <2> QED
    BY <2>1, <2>2, <2>3
<1>8. ASSUME NEW v \in Calls, NEW u \in Fans, NEW o \in Topics, NEW p \in Topics, Merges(v)',
             About(v, u, o)', About(v, u, p)', <<u, o>> \in blurred'
      PROVE  <<u, p>> \in blurred'
  <2>1. call'[v].from # NoTopic /\ o \in call'[v].about /\ p \in call'[v].about
    BY <1>8 DEF Merges, About
  <2>2. ASSUME NEW q \in Topics, q \in call'[v].about, <<u, q>> \in known
        PROVE  <<u, p>> \in blurred'
    BY <1>3, <1>4, <2>1, <2>2 DEF Spread
  <2>3. CASE <<u, o>> \in known
    BY <2>1, <2>2, <2>3
  <2>4. CASE <<u, o>> \notin known
    <3>1. PICK y \in jobs : y.from # NoTopic /\ o \in y.about /\ \E q \in y.about : <<u, q>> \in known
      BY <1>3, <1>8, <2>4 DEF Spread
    <3>2. CASE y = call'[v]
      <4>1. call'[v].about \subseteq Topics
        BY <1>0 DEF CallTypes
      <4> QED
        BY <2>2, <3>1, <3>2, <4>1
    <3>3. CASE y # call'[v]
      <4>1. PICK x \in Calls : y = call'[x]
        <5>1. CASE y = c
          BY <1>0, <5>1
        <5>2. ASSUME NEW z \in Calls, y = call[z] PROVE \E x \in Calls : y = call'[x]
          <6>1. CASE z = w
            BY <3>1, <5>2, <6>1, NoCallIs DEF CallArrives, FollowsShape, CallShape
          <6>2. CASE z # w
            BY <1>0, <5>2, <6>2
          <6> QED
            BY <6>1, <6>2
        <5> QED
          BY <1>1, <5>1, <5>2
      <4>2. x # v /\ call'[x].from # NoTopic /\ o \in call'[x].about
        BY <3>1, <3>3, <4>1
      <4>3. call'[x].whose = Fans
        BY <1>0, <4>2 DEF CallShape
      <4>4. About(x, u, o)'
        BY <4>2, <4>3 DEF About
      <4> QED
        BY <1>7, <1>8, <2>4, <4>2, <4>4
    <3> QED
      BY <3>2, <3>3
  <2> QED
    BY <2>3, <2>4
<1>9. Doubts'
  <2>1. \A v, x \in Calls, u \in Fans, o \in Topics :
          v # x /\ About(v, u, o)' /\ About(x, u, o)' => <<u, o>> \in blurred'
    BY <1>5, <1>7
  <2> QED
    BY <1>8, <2>1 DEF Doubts
<1> QED
  BY <1>5, <1>6, <1>9

(* A request that goes on with what it is about, or ends. *)
LEMMA GoesDoubts ==
  ASSUME FollowsShape, Doubts, NEW w \in Calls, NEW c \in CallTypes,
         call' = [call EXCEPT ![w] = c], UNCHANGED blurred,
         c.whose = {} \/ (c.whose = call[w].whose /\ c.about = call[w].about /\ c.from = call[w].from)
  PROVE  Doubts'
<1>1. call' \in [Calls -> CallTypes] /\ call'[w] = c /\ \A v \in Calls : v # w => call'[v] = call[v]
  BY CallSetShape
<1>2. \A v \in Calls, u \in Fans, o \in Topics :
        About(v, u, o)' => About(v, u, o) /\ call'[v].from = call[v].from
  BY <1>1 DEF About
<1> QED
  BY <1>2 DEF Doubts, Merges

(* What is asked of the others when a request arrives, given what is asked of
   the new one. *)
LEMMA ArriveAsked ==
  ASSUME FollowsShape, Doubts, WishesKept, NEW w \in Calls, NEW c \in CallTypes, CallArrives(w, c),
         call'[w] = c => CallShape(w)',
         \A u \in Fans, o \in Topics :
           ~(u \in c.whose /\ o \in c.about) => (o \in wish'[u] <=> o \in wish[u]),
         \A u \in Fans, o \in Topics :
           <<u, o>> \notin blurred' /\ u \in c.whose /\ o \in c.about => AtWorkOn(w, u, o)'
  PROVE  WishesKept'
<1>1. /\ call' \in [Calls -> CallTypes]
      /\ call'[w] = c
      /\ \A v \in Calls : v # w => call'[v] = call[v]
  BY CallSetShape DEF CallArrives
<1>2. follows' = follows
  BY DEF CallArrives, fTables
<1>3. SUFFICES ASSUME NEW u \in Fans, NEW o \in Topics, <<u, o>> \notin blurred'
               PROVE  /\ OneRow(u, o)'
                      /\ Nobody(u, o)' => (Follower(u, o)' <=> o \in wish'[u])
                      /\ \A v \in Calls : About(v, u, o)' => AtWorkOn(v, u, o)'
  BY DEF WishesKept
<1>4. <<u, o>> \notin blurred
  BY <1>3, ArriveDoubts
<1>5. OneRow(u, o)'
  BY <1>2, <1>4 DEF OneRow, FollowsOf, WishesKept
<1>6. ASSUME Nobody(u, o)' PROVE Follower(u, o)' <=> o \in wish'[u]
  <2>1. ~(u \in c.whose /\ o \in c.about)
    BY <1>1, <1>6 DEF Nobody, About
  <2>2. Nobody(u, o)
    BY <1>1, <1>6, NoCallIs DEF Nobody, About, CallArrives, FollowsShape, CallShape
  <2> QED
    BY <1>2, <1>4, <2>1, <2>2 DEF WishesKept, Follower
<1>7. ASSUME NEW v \in Calls, About(v, u, o)' PROVE AtWorkOn(v, u, o)'
  <2>1. CASE v = w
    BY <1>1, <1>3, <1>7, <2>1 DEF About
  <2>2. CASE v # w
    <3>1. call'[v] = call[v] /\ About(v, u, o) /\ AtWorkOn(v, u, o)
      BY <1>1, <1>4, <1>7, <2>2 DEF About, WishesKept
    <3>2. o \in wish'[u] <=> o \in wish[u]
      BY <1>3, <3>1, ArriveDoubts
    <3>3. CASE ~Merges(v)
      BY <1>2, <3>1, <3>2, <3>3 DEF AtWorkOn, Merges, Changing, Follower, HasRow
    <3>4. CASE Merges(v)
      <4>1. PICK x : x = call[v]
        OBVIOUS
      <4>2. /\ x.about = {x.from, x.topic} /\ x.whose = Fans
            /\ x.from \in Topics /\ x.topic \in Topics
        BY <3>4, <4>1, CallsTyped DEF Merges, FollowsShape, CallShape, CallTypes
      <4>3. <<u, x.from>> \notin blurred' /\ <<u, x.topic>> \notin blurred'
        BY <1>3, <1>7, <3>1, <3>4, <4>1, <4>2, ArriveDoubts DEF Doubts, About, Merges
      <4>4. (x.from \in wish'[u] <=> x.from \in wish[u]) /\ (x.topic \in wish'[u] <=> x.topic \in wish[u])
        BY <3>1, <4>1, <4>2, <4>3, ArriveDoubts DEF About
      <4> QED
        BY <1>2, <3>1, <3>4, <4>1, <4>4 DEF AtWorkOn, Merges, Merging, Follower, HasRow
    <3> QED
      BY <3>3, <3>4
  <2> QED
    BY <2>1, <2>2
<1> QED
  BY <1>5, <1>6, <1>7

(* What is known of a user and a tag that a request arrives about: if no other
   is about them, the rows are as wished. *)
LEMMA ArriveSettled ==
  ASSUME FollowsShape, Doubts, WishesKept, NEW w \in Calls, NEW c \in CallTypes, CallArrives(w, c),
         call'[w] = c => CallShape(w)',
         NEW u \in Fans, NEW o \in Topics, <<u, o>> \notin blurred', u \in c.whose, o \in c.about
  PROVE  Follower(u, o) <=> o \in wish[u]
<1>1. <<u, o>> \notin blurred /\ Nobody(u, o)
  BY ArriveDoubts DEF Nobody
<1> QED
  BY <1>1 DEF WishesKept

(* Nothing is written about a user and a tag. *)
SameRows(u, o) ==
  \A r \in FollowRows : r.fan = u /\ r.topic = o => (r \in follows' <=> r \in follows)

LEMMA SameRowsSame ==
  ASSUME FollowsShape, FollowsShape', NEW u \in Fans, NEW o \in Topics, SameRows(u, o)
  PROVE  /\ Follower(u, o)' <=> Follower(u, o)
         /\ HasRow(u, o)' <=> HasRow(u, o)
         /\ OneRow(u, o) => OneRow(u, o)'
         /\ \A k \in Nat, b \in BOOLEAN :
              [row |-> k, fan |-> u, topic |-> o, live |-> b] \in follows
                => [row |-> k, fan |-> u, topic |-> o, live |-> b] \in follows'
<1>1. follows \subseteq FollowRows /\ follows' \subseteq FollowRows
  BY DEF FollowsShape, FTypeOK
<1>2. \A r : r.fan = u /\ r.topic = o => (r \in follows' <=> r \in follows)
  BY <1>1 DEF SameRows
<1>3. \A k \in Nat, b \in BOOLEAN :
        /\ [row |-> k, fan |-> u, topic |-> o, live |-> b].fan = u
        /\ [row |-> k, fan |-> u, topic |-> o, live |-> b].topic = o
  OBVIOUS
<1> QED
  BY <1>2, <1>3 DEF Follower, HasRow, OneRow, FollowsOf

(* What is asked of all when a request goes on or ends, given what is asked of
   it and that it writes only what it is about. *)
LEMMA GoesAsked ==
  ASSUME FollowsShape, FollowsShape', Doubts, WishesKept, NEW w \in Calls, NEW c \in CallTypes,
         call' = [call EXCEPT ![w] = c], UNCHANGED wish, blurred \subseteq blurred',
         c.whose = {} \/ (c.whose = call[w].whose /\ c.about = call[w].about),
         \A u \in Fans, o \in Topics : ~About(w, u, o) => SameRows(u, o),
         \A u \in Fans, o \in Topics :
           <<u, o>> \notin blurred' /\ About(w, u, o) /\ OneRow(u, o) /\ AtWorkOn(w, u, o)
             => /\ OneRow(u, o)'
                /\ c.whose = {} => (Follower(u, o)' <=> o \in wish[u])
                /\ c.whose # {} => AtWorkOn(w, u, o)'
  PROVE  WishesKept'
<1>1. call' \in [Calls -> CallTypes] /\ call'[w] = c /\ \A v \in Calls : v # w => call'[v] = call[v]
  BY CallSetShape
<1>2. \A v \in Calls, u \in Fans, o \in Topics :
        /\ About(v, u, o)' => About(v, u, o)
        /\ About(v, u, o) /\ (v # w \/ c.whose # {}) => About(v, u, o)'
  BY <1>1 DEF About
<1>3. SUFFICES ASSUME NEW u \in Fans, NEW o \in Topics, <<u, o>> \notin blurred'
               PROVE  /\ OneRow(u, o)'
                      /\ Nobody(u, o)' => (Follower(u, o)' <=> o \in wish'[u])
                      /\ \A v \in Calls : About(v, u, o)' => AtWorkOn(v, u, o)'
  BY DEF WishesKept
<1>4. /\ <<u, o>> \notin blurred
      /\ OneRow(u, o)
      /\ Nobody(u, o) => (Follower(u, o) <=> o \in wish[u])
      /\ \A v \in Calls : About(v, u, o) => AtWorkOn(v, u, o)
  BY <1>3 DEF WishesKept
<1>5. CASE About(w, u, o)
  <2>1. \A v \in Calls : v # w => ~About(v, u, o)'
    BY <1>2, <1>4, <1>5 DEF Doubts
  <2>2. About(w, u, o)' => c.whose # {}
    BY <1>1 DEF About
  <2> QED
    BY <1>2, <1>3, <1>4, <1>5, <2>1, <2>2 DEF Nobody
<1>6. CASE ~About(w, u, o)
  <2>1. SameRows(u, o)
    BY <1>6
  <2>2. OneRow(u, o)' /\ (Follower(u, o)' <=> Follower(u, o))
    BY <1>4, <2>1, SameRowsSame
  <2>3. Nobody(u, o)' => Nobody(u, o)
    BY <1>2, <1>6 DEF Nobody
  <2>4. ASSUME NEW v \in Calls, About(v, u, o)' PROVE AtWorkOn(v, u, o)'
    <3>1. v # w /\ About(v, u, o) /\ AtWorkOn(v, u, o) /\ call'[v] = call[v]
      BY <1>1, <1>2, <1>4, <1>6, <2>4
    <3>2. PICK x \in CallTypes : x = call[v]
      BY CallsTyped
    <3>3. CASE ~Merges(v)
      <4>1. /\ HasRow(u, o)' <=> HasRow(u, o)
            /\ [row |-> x.row, fan |-> u, topic |-> o, live |-> Cancelling(x)] \in follows
                 => [row |-> x.row, fan |-> u, topic |-> o, live |-> Cancelling(x)] \in follows'
        BY <2>1, <3>2, SameRowsSame DEF CallTypes, Cancelling
      <4>2. Changing(v, u, o)
        BY <3>1, <3>3 DEF AtWorkOn
      <4>3. Changing(v, u, o)'
        BY <2>2, <3>1, <3>2, <4>1, <4>2 DEF Changing
      <4> QED
        BY <3>1, <3>3, <4>3 DEF AtWorkOn, Merges
    <3>4. CASE Merges(v)
      <4>1. /\ x.about = {x.from, x.topic} /\ x.whose = Fans
            /\ x.from \in Topics /\ x.topic \in Topics
        BY <3>2, <3>4 DEF Merges, FollowsShape, CallShape, CallTypes
      <4>2. <<u, x.from>> \notin blurred /\ <<u, x.topic>> \notin blurred
        BY <1>4, <3>1, <3>2, <3>4, <4>1 DEF Doubts, About, Merges
      <4>3. ~About(w, u, x.from) /\ ~About(w, u, x.topic)
        BY <3>1, <3>2, <4>1, <4>2 DEF Doubts, About
      <4>4. /\ HasRow(u, x.topic)' <=> HasRow(u, x.topic)
            /\ Follower(u, x.topic)' <=> Follower(u, x.topic)
            /\ Follower(u, x.from)' <=> Follower(u, x.from)
        BY <4>1, <4>3, SameRowsSame
      <4>5. Merging(v, u)
        BY <3>1, <3>4 DEF AtWorkOn
      <4>6. Merging(v, u)'
        BY <3>1, <3>2, <4>4, <4>5 DEF Merging
      <4> QED
        BY <3>1, <3>4, <4>6 DEF AtWorkOn, Merges
    <3> QED
      BY <3>3, <3>4
  <2> QED
    BY <1>4, <2>2, <2>3, <2>4
<1> QED
  BY <1>5, <1>6

(* No counter is disturbed where the rows and the counters stay. *)
LEMMA CountFrame ==
  ASSUME CountOK, UNCHANGED <<follows, followCount, moved, overwritten>>, blurred \subseteq blurred'
  PROVE  CountOK'
BY DEF CountOK, LiveRows

(* Arrivals. *)
LEMMA ArriveStep ==
  ASSUME FollowsInv, FollowsShape', NEW w \in Calls, NEW c \in CallTypes, CallArrives(w, c),
         \A u \in Fans, o \in Topics :
           ~(u \in c.whose /\ o \in c.about) => (o \in wish'[u] <=> o \in wish[u]),
         \A u \in Fans, o \in Topics :
           <<u, o>> \notin blurred' /\ u \in c.whose /\ o \in c.about => AtWorkOn(w, u, o)'
  PROVE  FollowsInv'
<1>1. FollowsShape /\ Doubts /\ WishesKept /\ CountOK
  BY DEF FollowsInv
<1>2. call'[w] = c => CallShape(w)'
  BY DEF FollowsShape
<1>3. Doubts' /\ blurred \subseteq blurred'
  BY <1>1, <1>2, ArriveDoubts
<1>4. WishesKept'
  BY <1>1, <1>2, ArriveAsked
<1>5. CountOK'
  BY <1>1, <1>3, CountFrame DEF CallArrives, fTables
<1> QED
  BY <1>3, <1>4, <1>5 DEF FollowsInv

LEMMA FollowTagStep ==
  ASSUME FollowsInv, NEW w \in Calls, NEW u \in Fans, NEW o \in Topics, FollowTag(w, u, o)
  PROVE  FollowsInv'
<1>1. FollowsShape /\ FollowsShape'
  BY FollowTagShape DEF FollowsInv
<1>2. PICK c \in CallTypes :
        /\ CallArrives(w, c)
        /\ c.pc = "next" /\ c.row = 0 /\ c.whose = {u} /\ c.about = {o} /\ c.from = NoTopic
        /\ c.cancels = {} /\ c.news = {o}
  <2>1. ChangeArrives(w, u, o, {}, {o})
    BY <1>1, FollowTagIs
  <2> QED
    BY <2>1, Zenon DEF ChangeArrives
<1>3. call'[w] = c
  BY <1>1, <1>2, CallsTyped DEF CallArrives
<1>4. wish' = [wish EXCEPT ![u] = @ \cup {o}] /\ wish \in [Fans -> SUBSET Topics]
  BY <1>1 DEF FollowTag, FollowsShape, FTypeOK
<1>5. \A v \in Fans, p \in Topics :
        ~(v \in c.whose /\ p \in c.about) => (p \in wish'[v] <=> p \in wish[v])
  BY <1>2, <1>4
<1>6. AtWorkOn(w, u, o)'
  BY <1>2, <1>3, <1>4 DEF AtWorkOn, Merges, Changing
<1> QED
  BY <1>1, <1>2, <1>5, <1>6, ArriveStep

LEMMA FollowCancelStep ==
  ASSUME FollowsInv, NEW w \in Calls, NEW u \in Fans, NEW o \in Topics, FollowCancel(w, u, o)
  PROVE  FollowsInv'
<1>1. FollowsShape /\ FollowsShape'
  BY FollowCancelShape DEF FollowsInv
<1>2. PICK c \in CallTypes :
        /\ CallArrives(w, c)
        /\ c.pc = "next" /\ c.row = 0 /\ c.whose = {u} /\ c.about = {o} /\ c.from = NoTopic
        /\ c.cancels = {o} /\ c.news = {}
  <2>1. ChangeArrives(w, u, o, {o}, {})
    BY <1>1, FollowCancelIs
  <2> QED
    BY <2>1, Zenon DEF ChangeArrives
<1>3. call'[w] = c
  BY <1>1, <1>2, CallsTyped DEF CallArrives
<1>4. wish' = [wish EXCEPT ![u] = @ \ {o}] /\ wish \in [Fans -> SUBSET Topics]
  BY <1>1 DEF FollowCancel, FollowsShape, FTypeOK
<1>5. \A v \in Fans, p \in Topics :
        ~(v \in c.whose /\ p \in c.about) => (p \in wish'[v] <=> p \in wish[v])
  BY <1>2, <1>4
<1>6. AtWorkOn(w, u, o)'
  BY <1>2, <1>3, <1>4 DEF AtWorkOn, Merges, Changing
<1> QED
  BY <1>1, <1>2, <1>5, <1>6, ArriveStep

LEMMA UpdateFollowTagsStep ==
  ASSUME FollowsInv, NEW w \in Calls, NEW u \in Fans, NEW wanted \in SUBSET Topics,
         UpdateFollowTags(w, u, wanted)
  PROVE  FollowsInv'
<1>1. FollowsShape /\ FollowsShape'
  BY UpdateFollowTagsShape DEF FollowsInv
<1>2. PICK c \in CallTypes :
        /\ CallArrives(w, c)
        /\ c.pc = "next" /\ c.row = 0 /\ c.whose = {u} /\ c.about = Topics /\ c.from = NoTopic
        /\ c.cancels = {o \in Topics : Follower(u, o)} \ wanted
        /\ c.news = wanted \ {o \in Topics : Follower(u, o)}
  BY <1>1, UpdateFollowTagsIs
<1>3. call'[w] = c
  BY <1>1, <1>2, CallsTyped DEF CallArrives
<1>4. wish' = [wish EXCEPT ![u] = wanted] /\ wish \in [Fans -> SUBSET Topics]
  BY <1>1 DEF UpdateFollowTags, FollowsShape, FTypeOK
<1>5. \A v \in Fans, p \in Topics :
        ~(v \in c.whose /\ p \in c.about) => (p \in wish'[v] <=> p \in wish[v])
  BY <1>2, <1>4
<1>6. ASSUME NEW o \in Topics PROVE AtWorkOn(w, u, o)'
  <2>1. Follower(u, o)' <=> Follower(u, o)
    BY <1>2 DEF CallArrives, fTables, Follower
  <2> QED
    BY <1>2, <1>3, <1>4, <2>1 DEF AtWorkOn, Merges, Changing
<1> QED
  BY <1>1, <1>2, <1>5, <1>6, ArriveStep

LEMMA MergeTagStep ==
  ASSUME FollowsInv, NEW w \in Calls, NEW s \in Topics, NEW t \in Topics, MergeTag(w, s, t)
  PROVE  FollowsInv'
<1>1. FollowsShape /\ FollowsShape' /\ Doubts /\ WishesKept
  BY MergeTagShape DEF FollowsInv
<1>2. PICK c \in CallTypes :
        /\ CallArrives(w, c)
        /\ c.pc = "list" /\ c.row = 0 /\ c.whose = Fans /\ c.about = {s, t}
        /\ c.from = s /\ c.topic = t
  BY <1>1, MergeTagIs
<1>3. call'[w] = c
  BY <1>1, <1>2, CallsTyped DEF CallArrives
<1>4. /\ wish' = [u \in Fans |-> IF s \in wish[u] THEN (wish[u] \ {s}) \cup {t} ELSE wish[u]]
      /\ s # t
  BY DEF MergeTag
<1>5. \A v \in Fans, p \in Topics :
        ~(v \in c.whose /\ p \in c.about) => (p \in wish'[v] <=> p \in wish[v])
  BY <1>2, <1>4
<1>6. ASSUME NEW u \in Fans, NEW o \in Topics, <<u, o>> \notin blurred', o \in c.about
      PROVE  AtWorkOn(w, u, o)'
  <2>1. call'[w] = c => CallShape(w)'
    BY <1>1 DEF FollowsShape
  <2>2. Doubts'
    BY <1>1, <1>2, <2>1, ArriveDoubts
  <2>3. <<u, s>> \notin blurred' /\ <<u, t>> \notin blurred'
    BY <1>2, <1>3, <1>6, <2>2 DEF Doubts, Merges, About
  <2>4. (Follower(u, s) <=> s \in wish[u]) /\ (Follower(u, t) <=> t \in wish[u])
    BY <1>1, <1>2, <2>1, <2>3, ArriveSettled
  <2>5. (Follower(u, s)' <=> Follower(u, s)) /\ (Follower(u, t)' <=> Follower(u, t))
    BY <1>2 DEF CallArrives, fTables, Follower
  <2> QED
    BY <1>2, <1>3, <1>4, <2>4, <2>5 DEF AtWorkOn, Merges, Merging
<1> QED
  BY <1>1, <1>2, <1>5, <1>6, ArriveStep

LEMMA EditTagStep ==
  ASSUME FollowsInv, NEW w \in Calls, NEW o \in Topics, EditTag(w, o)
  PROVE  FollowsInv'
<1>1. FollowsShape /\ FollowsShape'
  BY EditTagShape DEF FollowsInv
<1>2. PICK c \in CallTypes :
        /\ CallArrives(w, c)
        /\ c.pc = "edit" /\ c.whose = {} /\ c.about = {} /\ c.from = NoTopic /\ c.topic = o
  BY <1>1, EditTagIs
<1> QED
  BY <1>1, <1>2, ArriveStep DEF EditTag

(* Steps that only read. *)
LEMMA ReadStep ==
  ASSUME FollowsInv, FollowsShape', NEW w \in Calls, NEW c \in CallTypes,
         CallGoes(w, c), UNCHANGED <<fTables, fHistory>>,
         c.whose = {} \/ (c.whose = call[w].whose /\ c.about = call[w].about /\ c.from = call[w].from),
         \A u \in Fans, o \in Topics :
           <<u, o>> \notin blurred /\ About(w, u, o) /\ OneRow(u, o) /\ AtWorkOn(w, u, o)
             => /\ c.whose = {} => (Follower(u, o) <=> o \in wish[u])
                /\ c.whose # {} => AtWorkOn(w, u, o)'
  PROVE  FollowsInv'
<1>1. FollowsShape /\ Doubts /\ WishesKept /\ CountOK
  BY DEF FollowsInv
<1>2. /\ call' = [call EXCEPT ![w] = c]
      /\ UNCHANGED <<follows, followCount, wish, blurred, moved, overwritten>>
  BY DEF CallGoes, fTables, fHistory
<1>3. Doubts'
  BY <1>1, <1>2, GoesDoubts
<1>4. CountOK'
  BY <1>1, <1>2, CountFrame
<1>5. \A u \in Fans, o \in Topics : SameRows(u, o) /\ (OneRow(u, o)' <=> OneRow(u, o))
                                    /\ (Follower(u, o)' <=> Follower(u, o))
  BY <1>2 DEF SameRows, OneRow, FollowsOf, Follower
<1>6. WishesKept'
  BY <1>1, <1>2, <1>5, GoesAsked
<1> QED
  BY <1>3, <1>4, <1>6 DEF FollowsInv

LEMMA FindNoRowStep ==
  ASSUME FollowsInv, NEW w \in Calls, NEW o \in Topics, FindNoRow(w, o)
  PROVE  FollowsInv'
<1>1. FollowsShape /\ FollowsShape'
  BY FindNoRowShape DEF FollowsInv
<1>2. PICK c \in CallTypes : c = call[w]
  BY <1>1, CallsTyped
<1>3. c.pc = "next" /\ o \in NextTopics(c) /\ c.row = 0 /\ c.from = NoTopic
  BY <1>1, <1>2 DEF FindNoRow, FollowsShape, CallShape
<1>4. PICK u \in Fans : c.whose = {u}
  BY <1>1, <1>2, <1>3 DEF FollowsShape, CallShape
<1>5. ~HasRow(u, o) /\ ~Follower(u, o)
  BY <1>2, <1>4 DEF FindNoRow, HasRow, Follower, FollowsOf
<1>6. UNCHANGED <<fTables, fHistory>> /\ follows' = follows /\ wish' = wish
  BY DEF FindNoRow, fTables, fHistory
<1>7. \A p \in Topics : (HasRow(u, p)' <=> HasRow(u, p)) /\ (Follower(u, p)' <=> Follower(u, p))
  BY <1>6 DEF HasRow, Follower
<1>8. c.cancels \cap c.news = {}
  BY <1>1, <1>2, <1>3 DEF FollowsShape, CallShape
<1>a. CASE Cancelling(c) /\ CallGoes(w, TopicDone(c, o))
  <2>1. PICK d \in CallTypes :
          /\ d = TopicDone(c, o)
          /\ d.pc = "next" /\ d.whose = c.whose /\ d.about = c.about /\ d.from = c.from
          /\ d.cancels = c.cancels \ {o} /\ d.news = c.news
    BY <1>a, TopicDoneIs
  <2>2. call'[w] = d
    BY <1>1, <1>a, <2>1, CallsTyped DEF CallGoes
  <2>3. ASSUME NEW p \in Topics, AtWorkOn(w, u, p) PROVE AtWorkOn(w, u, p)'
    BY <1>2, <1>3, <1>5, <1>6, <1>7, <1>8, <1>a, <2>1, <2>2, <2>3
    DEF AtWorkOn, Merges, Changing, NextTopics
  <2>4. ASSUME NEW v \in Fans, NEW p \in Topics, About(w, v, p), AtWorkOn(w, v, p)
        PROVE  AtWorkOn(w, v, p)'
    BY <1>2, <1>4, <2>3, <2>4 DEF About
  <2>5. CallGoes(w, d) /\ d.whose # {}
    BY <1>4, <1>a, <2>1
  <2> QED
    BY <1>1, <1>2, <1>6, <2>1, <2>4, <2>5, ReadStep
<1>b. CASE ~Cancelling(c) /\ CallGoes(w, [c EXCEPT !.pc = "write", !.topic = o])
  <2>1. PICK d : d = [c EXCEPT !.pc = "write", !.topic = o]
    OBVIOUS
  <2>2. /\ d \in CallTypes
        /\ d.pc = "write" /\ d.topic = o /\ d.whose = c.whose /\ d.about = c.about /\ d.from = c.from
        /\ d.cancels = c.cancels /\ d.news = c.news /\ d.row = 0
    BY <1>3, <2>1 DEF CallTypes, CallPCs
  <2>3. call'[w] = d
    BY <1>1, <1>b, <2>1, CallsTyped DEF CallGoes
  <2>4. ~Cancelling(d)
    BY <1>b, <2>2 DEF Cancelling
  <2>5. ASSUME NEW p \in Topics, AtWorkOn(w, u, p) PROVE AtWorkOn(w, u, p)'
    BY <1>2, <1>3, <1>5, <1>6, <1>7, <2>2, <2>3, <2>4, <2>5 DEF AtWorkOn, Merges, Changing
  <2>6. ASSUME NEW v \in Fans, NEW p \in Topics, About(w, v, p), AtWorkOn(w, v, p)
        PROVE  AtWorkOn(w, v, p)'
    BY <1>2, <1>4, <2>5, <2>6 DEF About
  <2>7. CallGoes(w, d) /\ d.whose # {}
    BY <1>4, <1>b, <2>1, <2>2
  <2> QED
    BY <1>1, <1>2, <1>6, <2>2, <2>6, <2>7, ReadStep
<1> QED
  BY <1>2, <1>a, <1>b DEF FindNoRow

LEMMA FindRowStep ==
  ASSUME FollowsInv, NEW w \in Calls, NEW o \in Topics, FindRow(w, o)
  PROVE  FollowsInv'
<1>1. FollowsShape /\ FollowsShape'
  BY FindRowShape DEF FollowsInv
<1>2. PICK c \in CallTypes : c = call[w]
  BY <1>1, CallsTyped
<1>3. c.pc = "next" /\ o \in NextTopics(c) /\ c.row = 0 /\ c.from = NoTopic
  BY <1>1, <1>2 DEF FindRow, FollowsShape, CallShape
<1>4. PICK u \in Fans : c.whose = {u}
  BY <1>1, <1>2, <1>3 DEF FollowsShape, CallShape
<1>5. PICK r \in FollowsOf(u, o) :
        CallGoes(w, IF r.live # Cancelling(c) THEN TopicDone(c, o)
                    ELSE [c EXCEPT !.pc = "write", !.topic = o, !.row = r.row])
  BY <1>2, <1>4 DEF FindRow
<1>6. UNCHANGED <<fTables, fHistory>> /\ follows' = follows /\ wish' = wish
  BY DEF FindRow, fTables, fHistory
<1>7. \A p \in Topics : (HasRow(u, p)' <=> HasRow(u, p)) /\ (Follower(u, p)' <=> Follower(u, p))
  BY <1>6 DEF HasRow, Follower
<1>8. c.cancels \cap c.news = {}
  BY <1>1, <1>2, <1>3 DEF FollowsShape, CallShape
<1>9. r \in follows /\ r.fan = u /\ r.topic = o /\ r \in FollowRows /\ r.row # 0
  BY <1>1, <1>5 DEF FollowsOf, FollowsShape, FTypeOK
<1>10. OneRow(u, o) => (Follower(u, o) <=> r.live)
  BY <1>9 DEF OneRow, FollowsOf, Follower
<1>a. CASE r.live # Cancelling(c)
  <2>1. PICK d \in CallTypes :
          /\ d = TopicDone(c, o)
          /\ d.pc = "next" /\ d.whose = c.whose /\ d.about = c.about /\ d.from = c.from
          /\ d.cancels = c.cancels \ {o}
          /\ d.news = IF Cancelling(c) THEN c.news ELSE c.news \ {o}
    BY TopicDoneIs
  <2>2. CallGoes(w, d) /\ call'[w] = d
    BY <1>1, <1>5, <1>a, <2>1, CallsTyped DEF CallGoes
  <2>3. ASSUME NEW p \in Topics, AtWorkOn(w, u, p), OneRow(u, p) PROVE AtWorkOn(w, u, p)'
    <3>1. Changing(w, u, p)
      BY <1>2, <1>3, <2>3 DEF AtWorkOn, Merges
    <3>2. r.live \in BOOLEAN /\ Cancelling(c) \in BOOLEAN
      BY <1>9 DEF FollowRows, Cancelling
    <3>3. CASE Cancelling(c)
      <4>1. o \in c.cancels /\ d.news = c.news /\ ~r.live
        BY <1>3, <1>a, <2>1, <3>2, <3>3 DEF NextTopics
      <4> QED
        BY <1>2, <1>3, <1>6, <1>7, <1>8, <1>10, <2>1, <2>2, <2>3, <3>1, <4>1
        DEF AtWorkOn, Merges, Changing
    <3>4. CASE ~Cancelling(c)
      <4>1. o \in c.news /\ c.cancels = {} /\ d.cancels = {} /\ d.news = c.news \ {o} /\ r.live
        BY <1>3, <1>a, <2>1, <3>2, <3>4 DEF NextTopics, Cancelling
      <4> QED
        BY <1>2, <1>3, <1>6, <1>7, <1>8, <1>10, <2>1, <2>2, <2>3, <3>1, <4>1
        DEF AtWorkOn, Merges, Changing
    <3> QED
      BY <3>3, <3>4
  <2>4. ASSUME NEW v \in Fans, NEW p \in Topics, About(w, v, p), AtWorkOn(w, v, p), OneRow(v, p)
        PROVE  AtWorkOn(w, v, p)'
    BY <1>2, <1>4, <2>3, <2>4 DEF About
  <2>5. d.whose # {}
    BY <1>4, <2>1
  <2> QED
    BY <1>1, <1>2, <1>6, <2>1, <2>2, <2>4, <2>5, ReadStep
<1>b. CASE r.live = Cancelling(c)
  <2>1. PICK d : d = [c EXCEPT !.pc = "write", !.topic = o, !.row = r.row]
    OBVIOUS
  <2>2. /\ d \in CallTypes
        /\ d.pc = "write" /\ d.topic = o /\ d.whose = c.whose /\ d.about = c.about /\ d.from = c.from
        /\ d.cancels = c.cancels /\ d.news = c.news /\ d.row = r.row
    BY <1>9, <2>1 DEF CallTypes, CallPCs, FollowRows
  <2>3. CallGoes(w, d) /\ call'[w] = d
    BY <1>1, <1>5, <1>b, <2>1, CallsTyped DEF CallGoes
  <2>4. Cancelling(d) = Cancelling(c)
    BY <2>2 DEF Cancelling
  <2>5. [row |-> d.row, fan |-> u, topic |-> o, live |-> Cancelling(d)] \in follows'
    <3>1. r = [row |-> r.row, fan |-> r.fan, topic |-> r.topic, live |-> r.live]
      BY <1>9 DEF FollowRows
    <3>2. r = [row |-> d.row, fan |-> u, topic |-> o, live |-> Cancelling(d)]
      BY <1>9, <1>b, <2>2, <2>4, <3>1
    <3> QED
      BY <1>6, <1>9, <3>2
  <2>6. ASSUME NEW p \in Topics, AtWorkOn(w, u, p) PROVE AtWorkOn(w, u, p)'
    BY <1>2, <1>3, <1>6, <1>7, <1>9, <2>2, <2>3, <2>5, <2>6 DEF AtWorkOn, Merges, Changing
  <2>7. ASSUME NEW v \in Fans, NEW p \in Topics, About(w, v, p), AtWorkOn(w, v, p)
        PROVE  AtWorkOn(w, v, p)'
    BY <1>2, <1>4, <2>6, <2>7 DEF About
  <2>8. d.whose # {}
    BY <1>4, <2>2
  <2> QED
    BY <1>1, <1>2, <1>6, <2>2, <2>3, <2>7, <2>8, ReadStep
<1> QED
  BY <1>a, <1>b

LEMMA FollowDoneStep ==
  ASSUME FollowsInv, NEW w \in Calls, FollowDone(w)
  PROVE  FollowsInv'
<1>1. FollowsShape /\ FollowsShape'
  BY FollowDoneShape DEF FollowsInv
<1>2. PICK c \in CallTypes : c = NoCall /\ c.whose = {}
  BY NoCallIs
<1>3. call[w].pc = "next" /\ call[w].from = NoTopic
  BY <1>1 DEF FollowDone, FollowsShape, CallShape
<1>4. call[w].cancels = {} /\ call[w].news = {}
  BY <1>3 DEF FollowDone, NextTopics, Cancelling
<1>5. ASSUME NEW u \in Fans, NEW o \in Topics, AtWorkOn(w, u, o) PROVE Follower(u, o) <=> o \in wish[u]
  BY <1>3, <1>4, <1>5 DEF AtWorkOn, Merges, Changing
<1> QED
  BY <1>1, <1>2, <1>5, ReadStep DEF FollowDone

LEMMA ListFollowersStep ==
  ASSUME FollowsInv, NEW w \in Calls, ListFollowers(w)
  PROVE  FollowsInv'
<1>1. FollowsShape /\ FollowsShape'
  BY ListFollowersShape DEF FollowsInv
<1>2. PICK k \in CallTypes : k = call[w]
  BY <1>1, CallsTyped
<1>3. PICK c : c = [k EXCEPT !.pc = "look", !.who = FollowersOf(k.from)]
  OBVIOUS
<1>4. CallGoes(w, c) /\ UNCHANGED <<fTables, fHistory>>
  BY <1>2, <1>3 DEF ListFollowers
<1>5. /\ c.pc = "look" /\ c.who = FollowersOf(k.from)
      /\ c.whose = k.whose /\ c.about = k.about /\ c.from = k.from /\ c.topic = k.topic
  BY <1>3 DEF CallTypes
<1>6. call'[w] = c /\ c \in CallTypes
  <2>1. call'[w] = c
    BY <1>1, <1>4, CallsTyped DEF CallGoes
  <2> QED
    BY <1>1, <2>1 DEF FollowsShape, FTypeOK, CallTypes
<1>7. k.from # NoTopic /\ k.whose = Fans
  BY <1>1, <1>2 DEF ListFollowers, FollowsShape, CallShape
<1>8. ASSUME NEW u \in Fans, NEW o \in Topics, AtWorkOn(w, u, o) PROVE AtWorkOn(w, u, o)'
  <2>1. follows' = follows /\ wish' = wish
    BY <1>4 DEF fTables, fHistory
  <2>2. u \in c.who <=> Follower(u, k.from)
    BY <1>5 DEF FollowersOf, LiveRows, Follower
  <2> QED
    BY <1>2, <1>5, <1>6, <1>7, <1>8, <2>1, <2>2 DEF AtWorkOn, Merges, Merging, Follower, HasRow
<1>9. c.whose = {} => ~\E u \in Fans : TRUE
  BY <1>5, <1>7
<1> QED
  BY <1>1, <1>2, <1>4, <1>5, <1>6, <1>8, <1>9, ReadStep

LEMMA LookAtTargetStep ==
  ASSUME FollowsInv, NEW w \in Calls, LookAtTarget(w)
  PROVE  FollowsInv'
<1>1. FollowsShape /\ FollowsShape'
  BY LookAtTargetShape DEF FollowsInv
<1>2. PICK k \in CallTypes : k = call[w]
  BY <1>1, CallsTyped
<1>3. PICK m : m = {u \in k.who : FollowsOf(u, k.topic) # {}} \cup FollowersOf(k.topic)
  OBVIOUS
<1>4. PICK c : c = [k EXCEPT !.pc = "move", !.seen = m]
  OBVIOUS
<1>5. CallGoes(w, c) /\ UNCHANGED <<fTables, fHistory>>
  BY <1>2, <1>3, <1>4 DEF LookAtTarget
<1>6. /\ c.pc = "move" /\ c.seen = m /\ c.who = k.who
      /\ c.whose = k.whose /\ c.about = k.about /\ c.from = k.from /\ c.topic = k.topic
  BY <1>4 DEF CallTypes
<1>7. call'[w] = c /\ c \in CallTypes
  <2>1. call'[w] = c
    BY <1>1, <1>5, CallsTyped DEF CallGoes
  <2> QED
    BY <1>1, <2>1 DEF FollowsShape, FTypeOK, CallTypes
<1>8. k.from # NoTopic /\ k.whose = Fans /\ k.pc = "look"
  BY <1>1, <1>2 DEF LookAtTarget, FollowsShape, CallShape
<1>9. ASSUME NEW u \in Fans, NEW o \in Topics, AtWorkOn(w, u, o) PROVE AtWorkOn(w, u, o)'
  <2>1. follows' = follows /\ wish' = wish
    BY <1>5 DEF fTables, fHistory
  <2>2. u \in c.seen <=> (u \in k.who /\ HasRow(u, k.topic)) \/ Follower(u, k.topic)
    BY <1>3, <1>6 DEF FollowersOf, LiveRows, FollowsOf, Follower, HasRow
  <2> QED
    BY <1>2, <1>6, <1>7, <1>8, <1>9, <2>1, <2>2 DEF AtWorkOn, Merges, Merging, Follower, HasRow
<1>10. c.whose = {} => ~\E u \in Fans : TRUE
  BY <1>6, <1>8
<1> QED
  BY <1>1, <1>2, <1>5, <1>6, <1>7, <1>9, <1>10, ReadStep

LEMMA WriteTagStep ==
  ASSUME FollowsInv, NEW w \in Calls, WriteTag(w)
  PROVE  FollowsInv'
<1>1. FollowsShape /\ FollowsShape' /\ Doubts /\ WishesKept /\ CountOK
  BY WriteTagShape DEF FollowsInv
<1>2. PICK c \in CallTypes : c = NoCall /\ c.whose = {}
  BY NoCallIs
<1>3. call' = [call EXCEPT ![w] = c] /\ UNCHANGED <<follows, wish, blurred, moved>>
  BY <1>2 DEF WriteTag, CallGoes
<1>4. \A u \in Fans, o \in Topics : SameRows(u, o) /\ ~About(w, u, o)
  BY <1>1, <1>3 DEF SameRows, About, WriteTag, FollowsShape, CallShape
<1>5. Doubts'
  BY <1>1, <1>2, <1>3, GoesDoubts
<1>6. WishesKept'
  BY <1>1, <1>2, <1>3, <1>4, GoesAsked
<1>7. PICK t \in Topics : t = call[w].topic
  BY <1>1 DEF WriteTag, FollowsShape, CallShape
<1>8. \A o \in Topics : o \notin overwritten' => followCount'[o] = followCount[o] /\ o \notin overwritten
  BY <1>1, <1>7 DEF WriteTag, FollowsShape, FTypeOK
<1>9. CountOK'
  BY <1>1, <1>3, <1>8 DEF CountOK, LiveRows
<1> QED
  BY <1>1, <1>5, <1>6, <1>9 DEF FollowsInv

LEMMA CallFailsStep ==
  ASSUME FollowsInv, NEW w \in Calls, CallFails(w)
  PROVE  FollowsInv'
<1>1. FollowsShape /\ FollowsShape' /\ Doubts /\ WishesKept /\ CountOK
  BY CallFailsShape DEF FollowsInv
<1>2. PICK c \in CallTypes : c = NoCall /\ c.whose = {}
  BY NoCallIs
<1>3. /\ call' = [call EXCEPT ![w] = c]
      /\ UNCHANGED <<follows, followCount, wish, moved, overwritten>>
      /\ blurred \subseteq blurred'
  BY <1>2 DEF CallFails, fTables
<1>4. \A u \in Fans, o \in Topics : <<u, o>> \in blurred' <=> <<u, o>> \in blurred \/ About(w, u, o)
  BY ConcernsIs DEF CallFails, About
<1>5. /\ call' \in [Calls -> CallTypes]
      /\ call'[w] = c
      /\ \A v \in Calls : v # w => call'[v] = call[v]
  BY <1>1, <1>3, CallSetShape
<1>6. Doubts'
  <2>1. \A v \in Calls, u \in Fans, o \in Topics : About(v, u, o)' => About(v, u, o) /\ v # w
    BY <1>2, <1>5 DEF About
  <2>2. \A v, x \in Calls, u \in Fans, o \in Topics :
          v # x /\ About(v, u, o)' /\ About(x, u, o)' => <<u, o>> \in blurred'
    BY <1>1, <1>3, <2>1 DEF Doubts
  <2>3. ASSUME NEW v \in Calls, NEW u \in Fans, NEW o \in Topics, NEW p \in Topics, Merges(v)',
               About(v, u, o)', About(v, u, p)', <<u, o>> \in blurred'
        PROVE  <<u, p>> \in blurred'
    <3>1. v # w /\ About(v, u, o) /\ About(v, u, p) /\ Merges(v)
      BY <1>5, <2>1, <2>3 DEF Merges
    <3>2. <<u, o>> \in blurred
      BY <1>1, <1>4, <2>3, <3>1 DEF Doubts
    <3> QED
      BY <1>1, <1>3, <3>1, <3>2 DEF Doubts
  <2> QED
    BY <2>2, <2>3 DEF Doubts
<1>7. \A u \in Fans, o \in Topics : SameRows(u, o)
  BY <1>3 DEF SameRows
<1>8. WishesKept'
  BY <1>1, <1>2, <1>3, <1>4, <1>7, GoesAsked
<1>9. CountOK'
  BY <1>1, <1>3, CountFrame
<1> QED
  BY <1>1, <1>6, <1>8, <1>9 DEF FollowsInv

(* What a function makes of a finite set is finite. *)
LEMMA MadeFinite ==
  ASSUME NEW S, IsFiniteSet(S), NEW T, NEW f \in [S -> T], \A t \in T : \E s \in S : f[s] = t
  PROVE  IsFiniteSet(T)
<1>1. f \in Surjection(S, T)
  BY DEF Surjection
<1> QED
  BY <1>1, FS_Surjection

(* The commit of a change, by what it has found. *)
LEMMA WriteRowIs ==
  ASSUME FollowsShape, NEW w \in Calls, NEW c \in CallTypes, c = call[w], WriteRow(w)
  PROVE  \E u \in Fans : \E t \in Topics :
           /\ c.whose = {u} /\ c.topic = t /\ t \in NextTopics(c) /\ t \in c.about
           /\ c.row = 0 => /\ inserted' = inserted + 1
                           /\ follows' = follows \cup {[row |-> inserted', fan |-> u, topic |-> t, live |-> TRUE]}
           /\ c.row # 0 => /\ inserted' = inserted
                           /\ follows' = {IF r.row = c.row /\ r.fan = u /\ r.topic = t
                                          THEN [r EXCEPT !.live = ~Cancelling(c)] ELSE r : r \in follows}
<1>1. CallShape(w) /\ c.pc = "write"
  BY DEF FollowsShape, WriteRow
<1>2. PICK u \in Fans : c.whose = {u}
  BY <1>1 DEF CallShape
<1>3. PICK t : t = c.topic
  OBVIOUS
<1>4. t \in Topics /\ t \in NextTopics(c) /\ t \in c.about
  BY <1>1, <1>3 DEF CallShape, NextTopics, CallTypes
<1>5. c.row # 0 => /\ inserted' = inserted
                   /\ follows' = {IF r.row = c.row /\ r \in FollowsOf(u, t)
                                  THEN [r EXCEPT !.live = ~Cancelling(c)] ELSE r : r \in follows}
  BY <1>2, <1>3 DEF WriteRow
<1>6. c.row = 0 => /\ inserted' = inserted + 1
                   /\ follows' = follows \cup {[row |-> inserted', fan |-> u, topic |-> t, live |-> TRUE]}
  BY <1>2, <1>3 DEF WriteRow
<1>7. \A r \in follows : r \in FollowsOf(u, t) <=> r.fan = u /\ r.topic = t
  BY DEF FollowsOf
<1>8. c.row # 0 => /\ inserted' = inserted
                   /\ follows' = {IF r.row = c.row /\ r.fan = u /\ r.topic = t
                                  THEN [r EXCEPT !.live = ~Cancelling(c)] ELSE r : r \in follows}
  BY <1>5, <1>7
<1> QED
  BY <1>2, <1>3, <1>4, <1>6, <1>8

LEMMA WriteRowShape ==
  ASSUME FollowsShape, NEW w \in Calls, WriteRow(w)
  PROVE  FollowsShape'
<1>1. PICK c \in CallTypes : c = call[w]
  BY CallsTyped
<1>2. PICK u \in Fans, t \in Topics :
           /\ c.whose = {u} /\ c.topic = t /\ t \in NextTopics(c) /\ t \in c.about
           /\ c.row = 0 => /\ inserted' = inserted + 1
                           /\ follows' = follows \cup {[row |-> inserted', fan |-> u, topic |-> t, live |-> TRUE]}
           /\ c.row # 0 => /\ inserted' = inserted
                           /\ follows' = {IF r.row = c.row /\ r.fan = u /\ r.topic = t
                                          THEN [r EXCEPT !.live = ~Cancelling(c)] ELSE r : r \in follows}
  BY <1>1, WriteRowIs
<1>3. follows \subseteq FollowRows /\ IsFiniteSet(follows) /\ inserted \in Nat /\ \A r \in follows : r.row # 0
  BY DEF FollowsShape, FTypeOK
<1>4. follows' \subseteq FollowRows /\ IsFiniteSet(follows') /\ inserted' \in Nat /\ \A r \in follows' : r.row # 0
  <2>1. CASE c.row = 0
    <3>1. PICK n : n = [row |-> inserted', fan |-> u, topic |-> t, live |-> TRUE]
      OBVIOUS
    <3>2. n \in FollowRows /\ n.row # 0 /\ inserted' \in Nat
      BY <1>2, <1>3, <2>1, <3>1 DEF FollowRows
    <3>3. follows' = follows \cup {n}
      BY <1>2, <2>1, <3>1
    <3> QED
      BY <1>3, <3>2, <3>3, FS_AddElement
  <2>2. CASE c.row # 0
    <3>1. PICK f : f = [r \in follows |-> IF r.row = c.row /\ r.fan = u /\ r.topic = t
                                           THEN [r EXCEPT !.live = ~Cancelling(c)] ELSE r]
      OBVIOUS
    <3>2. \A r \in follows : f[r] \in FollowRows /\ f[r].row # 0
      BY <1>3, <3>1 DEF FollowRows, Cancelling
    <3>3. follows' = {f[r] : r \in follows}
      BY <1>2, <2>2, <3>1
    <3>4. f \in [follows -> follows']
      BY <3>1, <3>3
    <3>5. \A x \in follows' : \E r \in follows : f[r] = x
      BY <3>3
    <3>6. IsFiniteSet(follows')
      BY <1>3, <3>4, <3>5, MadeFinite
    <3> QED
      BY <1>2, <1>3, <2>2, <3>2, <3>3, <3>6
  <2> QED
    BY <2>1, <2>2
<1>5. PICK d \in CallTypes :
        /\ d = TopicDone(c, t)
        /\ d.pc = "next" /\ d.row = 0 /\ d.whose = c.whose /\ d.about = c.about /\ d.from = c.from
        /\ d.cancels = c.cancels \ {t}
        /\ d.news = IF Cancelling(c) THEN c.news ELSE c.news \ {t}
  BY TopicDoneIs
<1>6. call' = [call EXCEPT ![w] = d] /\ UNCHANGED <<callsMade, drops, fHistory>>
  BY <1>1, <1>2, <1>5 DEF WriteRow, CallGoes
<1>7. /\ call' \in [Calls -> CallTypes] /\ call'[w] = d
      /\ \A v \in Calls : v # w => CallShape(v)'
  BY <1>6, CallSetShape
<1>8. CallShape(w)'
  <2>1. CallShape(w) /\ c.pc = "write"
    BY <1>1 DEF FollowsShape, WriteRow
  <2> QED
    BY <1>1, <1>5, <1>7, <2>1 DEF CallShape
<1>9. followCount' \in [Topics -> Int]
  BY <1>1, <1>2 DEF WriteRow, FollowsShape, FTypeOK
<1> QED
  BY <1>4, <1>6, <1>7, <1>8, <1>9 DEF FollowsShape, FTypeOK, CallTypes, fHistory

(* What the commit leaves alone, and what it makes of the rows it is about. *)
LEMMA WriteRowRows ==
  ASSUME FollowsShape, NEW w \in Calls, NEW c \in CallTypes, c = call[w], WriteRow(w),
         NEW u \in Fans, c.whose = {u}, NEW t \in Topics, c.topic = t
  PROVE  /\ \A v \in Fans, o \in Topics : v # u \/ o # t => SameRows(v, o)
         /\ OneRow(u, t) /\ AtWorkOn(w, u, t) =>
              /\ OneRow(u, t)'
              /\ Follower(u, t)' <=> ~Cancelling(c)
              /\ Cancelling(c) => \E r \in LiveRows(t) : LiveRows(t)' = LiveRows(t) \ {r}
              /\ ~Cancelling(c) => \E r : r \notin LiveRows(t) /\ LiveRows(t)' = LiveRows(t) \cup {r}
<1>1. /\ c.row = 0 => /\ inserted' = inserted + 1
                      /\ follows' = follows \cup {[row |-> inserted', fan |-> u, topic |-> t, live |-> TRUE]}
      /\ c.row # 0 => follows' = {IF r.row = c.row /\ r.fan = u /\ r.topic = t
                                  THEN [r EXCEPT !.live = ~Cancelling(c)] ELSE r : r \in follows}
  BY WriteRowIs
<1>2. follows \subseteq FollowRows
  BY DEF FollowsShape, FTypeOK
<1>3. CASE c.row = 0
  <2>1. PICK n : n = [row |-> inserted', fan |-> u, topic |-> t, live |-> TRUE]
    OBVIOUS
  <2>2. n.fan = u /\ n.topic = t /\ n.live /\ follows' = follows \cup {n}
    BY <1>1, <1>3, <2>1
  <2>3. \A v \in Fans, o \in Topics : v # u \/ o # t => SameRows(v, o)
    BY <2>2 DEF SameRows
  <2>4. ASSUME AtWorkOn(w, u, t)
        PROVE  ~HasRow(u, t) /\ ~Cancelling(c)
    <3>1. c.pc = "write" /\ c.from = NoTopic
      BY DEF WriteRow, FollowsShape, CallShape
    <3> QED
      BY <1>3, <2>4, <3>1 DEF AtWorkOn, Merges, Changing
  <2>5. ~HasRow(u, t) => /\ OneRow(u, t)' /\ Follower(u, t)'
                         /\ n \notin LiveRows(t) /\ LiveRows(t)' = LiveRows(t) \cup {n}
    BY <2>2 DEF HasRow, OneRow, FollowsOf, Follower, LiveRows
  <2> QED
    BY <2>3, <2>4, <2>5
<1>4. CASE c.row # 0
  <2>1. follows' = {IF r.row = c.row /\ r.fan = u /\ r.topic = t
                    THEN [r EXCEPT !.live = ~Cancelling(c)] ELSE r : r \in follows}
    BY <1>1, <1>4
  <2>2. \A r \in follows : /\ [r EXCEPT !.live = ~Cancelling(c)].fan = r.fan
                           /\ [r EXCEPT !.live = ~Cancelling(c)].topic = r.topic
                           /\ [r EXCEPT !.live = ~Cancelling(c)].live = ~Cancelling(c)
    BY <1>2 DEF FollowRows
  <2>3. \A r : r.fan # u \/ r.topic # t => (r \in follows' <=> r \in follows)
    <3>1. ASSUME NEW r, r.fan # u \/ r.topic # t, r \in follows PROVE r \in follows'
      BY <2>1, <3>1
    <3>2. ASSUME NEW r, r.fan # u \/ r.topic # t, r \in follows' PROVE r \in follows
      <4>1. PICK x \in follows : r = IF x.row = c.row /\ x.fan = u /\ x.topic = t
                                     THEN [x EXCEPT !.live = ~Cancelling(c)] ELSE x
        BY <2>1, <3>2
      <4> QED
        BY <2>2, <3>2, <4>1
    <3> QED
      BY <3>1, <3>2
  <2>4. \A v \in Fans, o \in Topics : v # u \/ o # t => SameRows(v, o)
    BY <2>3 DEF SameRows
  <2>5. ASSUME OneRow(u, t), AtWorkOn(w, u, t)
        PROVE  /\ OneRow(u, t)'
               /\ Follower(u, t)' <=> ~Cancelling(c)
               /\ Cancelling(c) => \E r \in LiveRows(t) : LiveRows(t)' = LiveRows(t) \ {r}
               /\ ~Cancelling(c) => \E r : r \notin LiveRows(t) /\ LiveRows(t)' = LiveRows(t) \cup {r}
    <3>1. c.pc = "write" /\ c.from = NoTopic
      BY DEF WriteRow, FollowsShape, CallShape
    <3>2. PICK r \in follows : r = [row |-> c.row, fan |-> u, topic |-> t, live |-> Cancelling(c)]
      BY <1>4, <2>5, <3>1 DEF AtWorkOn, Merges, Changing
    <3>3. r.row = c.row /\ r.fan = u /\ r.topic = t /\ r.live = Cancelling(c)
      BY <3>2
    <3>4. PICK n : n = [r EXCEPT !.live = ~Cancelling(c)]
      OBVIOUS
    <3>5. n.fan = u /\ n.topic = t /\ n.live = ~Cancelling(c)
      BY <2>2, <3>2, <3>3, <3>4
    <3>6. \A x \in follows : x.fan = u /\ x.topic = t => x = r
      BY <2>5, <3>2, <3>3 DEF OneRow, FollowsOf
    <3>7. \A x : x \in follows' <=> x = n \/ (x \in follows /\ x # r)
      BY <2>1, <3>2, <3>3, <3>4, <3>5, <3>6
    <3>8. Cancelling(c) \in BOOLEAN
      BY DEF Cancelling
    <3>9. OneRow(u, t)' /\ (Follower(u, t)' <=> ~Cancelling(c))
      BY <3>5, <3>6, <3>7, <3>8 DEF OneRow, FollowsOf, Follower
    <3>10. ASSUME Cancelling(c) PROVE r \in LiveRows(t) /\ LiveRows(t)' = LiveRows(t) \ {r}
      BY <3>2, <3>3, <3>5, <3>7, <3>8, <3>10 DEF LiveRows
    <3>11. ASSUME ~Cancelling(c) PROVE n \notin LiveRows(t) /\ LiveRows(t)' = LiveRows(t) \cup {n}
      BY <3>2, <3>3, <3>5, <3>6, <3>7, <3>8, <3>11 DEF LiveRows
    <3> QED
      BY <3>9, <3>10, <3>11
  <2> QED
    BY <2>4, <2>5
<1> QED
  BY <1>3, <1>4

LEMMA WriteRowStep ==
  ASSUME FollowsInv, NEW w \in Calls, WriteRow(w)
  PROVE  FollowsInv'
<1>1. FollowsShape /\ FollowsShape' /\ Doubts /\ WishesKept /\ CountOK
  BY WriteRowShape DEF FollowsInv
<1>2. PICK c \in CallTypes : c = call[w]
  BY <1>1, CallsTyped
<1>3. PICK u \in Fans, t \in Topics : c.whose = {u} /\ c.topic = t /\ t \in NextTopics(c) /\ t \in c.about
  BY <1>1, <1>2, WriteRowIs
<1>4. PICK d \in CallTypes :
        /\ d = TopicDone(c, t)
        /\ d.pc = "next" /\ d.row = 0 /\ d.whose = c.whose /\ d.about = c.about /\ d.from = c.from
        /\ d.cancels = c.cancels \ {t}
        /\ d.news = IF Cancelling(c) THEN c.news ELSE c.news \ {t}
  BY TopicDoneIs
<1>5. /\ call' = [call EXCEPT ![w] = d] /\ UNCHANGED <<wish, blurred, moved, overwritten>>
      /\ followCount' = [followCount EXCEPT ![t] = @ + (IF ~Cancelling(c) THEN 1 ELSE -1)]
  BY <1>2, <1>3, <1>4 DEF WriteRow, CallGoes, fHistory
<1>6. call'[w] = d
  BY <1>1, <1>5, CallsTyped
<1>7. /\ \A v \in Fans, o \in Topics : v # u \/ o # t => SameRows(v, o)
      /\ OneRow(u, t) /\ AtWorkOn(w, u, t) =>
           /\ OneRow(u, t)'
           /\ Follower(u, t)' <=> ~Cancelling(c)
           /\ Cancelling(c) => \E r \in LiveRows(t) : LiveRows(t)' = LiveRows(t) \ {r}
           /\ ~Cancelling(c) => \E r : r \notin LiveRows(t) /\ LiveRows(t)' = LiveRows(t) \cup {r}
  BY <1>1, <1>2, <1>3, WriteRowRows
<1>8. Doubts'
  BY <1>1, <1>2, <1>4, <1>5, GoesDoubts
<1>9. c.pc = "write" /\ c.from = NoTopic /\ c.cancels \cap c.news = {}
  BY <1>1, <1>2 DEF WriteRow, FollowsShape, CallShape
<1>10. ASSUME NEW o \in Topics, OneRow(u, o), AtWorkOn(w, u, o)
       PROVE  OneRow(u, o)' /\ AtWorkOn(w, u, o)'
  <2>1. Changing(w, u, o)
    BY <1>2, <1>9, <1>10 DEF AtWorkOn, Merges
  <2>2. CASE o # t
    <3>1. OneRow(u, o)' /\ (Follower(u, o)' <=> Follower(u, o))
      BY <1>1, <1>7, <1>10, <2>2, SameRowsSame
    <3>2. (o \in d.cancels <=> o \in c.cancels) /\ (o \in d.news <=> o \in c.news)
      BY <1>4, <2>2
    <3>3. Changing(w, u, o)'
      BY <1>2, <1>4, <1>5, <1>6, <2>1, <3>1, <3>2 DEF Changing
    <3> QED
      BY <1>4, <1>6, <1>9, <3>1, <3>3 DEF AtWorkOn, Merges
  <2>3. CASE o = t
    <3>1. OneRow(u, t)' /\ (Follower(u, t)' <=> ~Cancelling(c))
      BY <1>7, <1>10, <2>3
    <3>2. t \notin d.cancels \cup d.news /\ (t \in wish[u] <=> ~Cancelling(c))
      BY <1>2, <1>3, <1>4, <1>9, <2>1, <2>3 DEF Changing, NextTopics, Cancelling
    <3>3. Changing(w, u, t)'
      BY <1>4, <1>5, <1>6, <3>1, <3>2 DEF Changing
    <3> QED
      BY <1>4, <1>6, <1>9, <2>3, <3>1, <3>3 DEF AtWorkOn, Merges
  <2> QED
    BY <2>2, <2>3
<1>11. WishesKept'
  <2>1. \A v \in Fans, o \in Topics : ~About(w, v, o) => SameRows(v, o)
    BY <1>2, <1>3, <1>7 DEF About
  <2>2. ASSUME NEW v \in Fans, NEW o \in Topics, About(w, v, o), OneRow(v, o), AtWorkOn(w, v, o)
        PROVE  OneRow(v, o)' /\ AtWorkOn(w, v, o)'
    BY <1>2, <1>3, <1>10, <2>2 DEF About
  <2>3. d.whose # {}
    BY <1>3, <1>4
  <2> QED
    BY <1>1, <1>2, <1>4, <1>5, <2>1, <2>2, <2>3, GoesAsked
<1>12. CountOK'
  <2>1. SUFFICES ASSUME NEW o \in Topics, o \notin overwritten, \A v \in Fans : <<v, o>> \notin blurred
                 PROVE  followCount'[o] = Cardinality(LiveRows(o)') - moved[o]
    BY <1>5 DEF CountOK
  <2>2. followCount[o] = Cardinality(LiveRows(o)) - moved[o] /\ moved[o] \in Int /\ followCount \in [Topics -> Int]
    BY <1>1, <2>1 DEF CountOK, FollowsShape, FTypeOK
  <2>3. IsFiniteSet(LiveRows(o)) /\ Cardinality(LiveRows(o)) \in Nat
    BY <1>1, LiveRowsFinite
  <2>4. CASE o # t
    <3>1. \A v \in Fans : SameRows(v, o)
      BY <1>7, <2>4
    <3>2. follows \subseteq FollowRows /\ follows' \subseteq FollowRows
      BY <1>1 DEF FollowsShape, FTypeOK
    <3>3. \A r : r.topic = o => (r \in follows' <=> r \in follows)
      BY <3>1, <3>2 DEF SameRows, FollowRows
    <3>4. LiveRows(o)' = LiveRows(o)
      BY <3>3 DEF LiveRows
    <3> QED
      BY <1>5, <2>2, <2>4, <3>4
  <2>5. CASE o = t
    <3>1. About(w, u, t)
      BY <1>2, <1>3 DEF About
    <3>2. OneRow(u, t) /\ AtWorkOn(w, u, t)
      BY <1>1, <2>1, <2>5, <3>1 DEF WishesKept
    <3>3. CASE Cancelling(c)
      <4>1. PICK r \in LiveRows(t) : LiveRows(t)' = LiveRows(t) \ {r}
        BY <1>7, <3>2, <3>3
      <4>2. Cardinality(LiveRows(t)') = Cardinality(LiveRows(t)) - 1
        BY <2>3, <2>5, <4>1, FS_RemoveElement
      <4> QED
        BY <1>5, <2>2, <2>3, <2>5, <3>3, <4>2
    <3>4. CASE ~Cancelling(c)
      <4>1. PICK r : r \notin LiveRows(t) /\ LiveRows(t)' = LiveRows(t) \cup {r}
        BY <1>7, <3>2, <3>4
      <4>2. Cardinality(LiveRows(t)') = Cardinality(LiveRows(t)) + 1
        BY <2>3, <2>5, <4>1, FS_AddElement
      <4> QED
        BY <1>5, <2>2, <2>3, <2>5, <3>4, <4>2
    <3> QED
      BY <3>3, <3>4
  <2> QED
    BY <2>4, <2>5
<1> QED
  BY <1>1, <1>8, <1>11, <1>12 DEF FollowsInv

(* The commit of a merge. *)
LEMMA MoveFollowersIs ==
  ASSUME FollowsShape, NEW w \in Calls, NEW c \in CallTypes, c = call[w], MoveFollowers(w)
  PROVE  /\ c.pc = "move" /\ c.from \in Topics /\ c.topic \in Topics /\ c.topic # c.from
         /\ c.about = {c.from, c.topic} /\ c.whose = Fans
         /\ inserted' = inserted + 1
         /\ call' = [call EXCEPT ![w] = NoCall]
         /\ UNCHANGED <<followCount, wish, blurred, overwritten, callsMade, drops>>
         /\ moved' = [o \in Topics |-> moved[o] + Cardinality(LiveRows(o)') - Cardinality(LiveRows(o))]
<1>1. CallShape(w) /\ c.pc = "move"
  BY DEF FollowsShape, MoveFollowers
<1>2. c.from # NoTopic
  BY <1>1 DEF CallShape
<1> QED
  BY <1>1, <1>2 DEF CallShape, MoveFollowers, CallGoes, CallTypes

LEMMA MovedRowsAre ==
  ASSUME FollowsShape, NEW w \in Calls, NEW c \in CallTypes, c = call[w], MoveFollowers(w)
  PROVE  \A r : r \in follows' <=>
           \/ \E x \in follows : x.topic # c.from /\ r = Revived(c, x)
           \/ \E u \in c.who \ c.seen : r = [row |-> inserted', fan |-> u, topic |-> c.topic, live |-> TRUE]
<1>1. follows' = {Revived(c, r) : r \in {x \in follows : x.topic # c.from}}
          \cup {[row |-> inserted', fan |-> u, topic |-> c.topic, live |-> TRUE] : u \in c.who \ c.seen}
  BY DEF MoveFollowers
<1> QED
  BY <1>1

LEMMA RevivedIs ==
  ASSUME NEW c \in CallTypes, NEW x \in FollowRows
  PROVE  /\ Revived(c, x) \in FollowRows
         /\ Revived(c, x).row = x.row /\ Revived(c, x).fan = x.fan /\ Revived(c, x).topic = x.topic
         /\ Revived(c, x).live <=> x.live \/ (x.topic = c.topic /\ x.fan \in c.who)
         /\ ~(x.topic = c.topic /\ x.fan \in c.who) => Revived(c, x) = x
BY DEF Revived, FollowRows

LEMMA MoveFollowersShape ==
  ASSUME FollowsShape, NEW w \in Calls, MoveFollowers(w)
  PROVE  FollowsShape'
<1>1. PICK c \in CallTypes : c = call[w]
  BY CallsTyped
<1>2. follows \subseteq FollowRows /\ IsFiniteSet(follows) /\ inserted \in Nat /\ \A r \in follows : r.row # 0
  BY DEF FollowsShape, FTypeOK
<1>3. PICK k : k = inserted'
  OBVIOUS
<1>4. k \in Nat /\ k # 0
  BY <1>1, <1>2, <1>3, MoveFollowersIs
<1>5. PICK old : old = {Revived(c, r) : r \in {x \in follows : x.topic # c.from}}
  OBVIOUS
<1>6. PICK new : new = {[row |-> k, fan |-> u, topic |-> c.topic, live |-> TRUE] : u \in c.who \ c.seen}
  OBVIOUS
<1>7. follows' = old \cup new
  BY <1>1, <1>3, <1>5, <1>6 DEF MoveFollowers
<1>8. old \subseteq FollowRows /\ \A r \in old : r.row # 0
  BY <1>2, <1>5, RevivedIs
<1>9. new \subseteq FollowRows /\ \A r \in new : r.row # 0
  <2>1. c.topic \in Topics /\ c.who \subseteq Fans
    BY <1>1, MoveFollowersIs DEF CallTypes
  <2> QED
    <3>1. ASSUME NEW u \in Fans, NEW r, r = [row |-> k, fan |-> u, topic |-> c.topic, live |-> TRUE]
          PROVE  r \in FollowRows /\ r.row # 0
      BY <1>4, <2>1, <3>1 DEF FollowRows
    <3> QED
      BY <1>6, <2>1, <3>1
<1>10. IsFiniteSet(old)
  <2>1. PICK S : S = {x \in follows : x.topic # c.from}
    OBVIOUS
  <2>2. IsFiniteSet(S)
    BY <1>2, <2>1, FS_Subset
  <2>3. PICK f : f = [r \in S |-> Revived(c, r)]
    OBVIOUS
  <2>4. f \in [S -> old] /\ \A t \in old : \E s \in S : f[s] = t
    BY <1>5, <2>1, <2>3
  <2> QED
    BY <2>2, <2>4, MadeFinite
<1>11. IsFiniteSet(new)
  <2>1. PICK S : S = c.who \ c.seen
    OBVIOUS
  <2>2. IsFiniteSet(S)
    BY <2>1, FS_Subset DEF CallTypes
  <2>3. PICK f : f = [u \in S |-> [row |-> k, fan |-> u, topic |-> c.topic, live |-> TRUE]]
    OBVIOUS
  <2>4. f \in [S -> new] /\ \A t \in new : \E s \in S : f[s] = t
    BY <1>6, <2>1, <2>3
  <2> QED
    BY <2>2, <2>4, MadeFinite
<1>12. follows' \subseteq FollowRows /\ IsFiniteSet(follows') /\ \A r \in follows' : r.row # 0
  BY <1>7, <1>8, <1>9, <1>10, <1>11, FS_Union
<1>13. /\ call' \in [Calls -> CallTypes]
       /\ \A v \in Calls : CallShape(v)'
  <2>1. NoCall \in CallTypes /\ call' = [call EXCEPT ![w] = NoCall]
    BY <1>1, NoCallIs, MoveFollowersIs
  <2>2. /\ call' \in [Calls -> CallTypes] /\ call'[w] = NoCall
        /\ \A v \in Calls : v # w => CallShape(v)'
    BY <2>1, CallSetShape
  <2>3. CallShape(w)'
    BY <2>2, NoCallIs DEF CallShape
  <2> QED
    BY <2>2, <2>3
<1>14. moved' \in [Topics -> Int]
  <2>1. ASSUME NEW o \in Topics
        PROVE  moved[o] + Cardinality(LiveRows(o)') - Cardinality(LiveRows(o)) \in Int
    <3>1. LiveRows(o)' \in SUBSET follows'
      BY DEF LiveRows
    <3>2. IsFiniteSet(LiveRows(o)')
      BY <1>12, <3>1, FS_Subset
    <3>3. Cardinality(LiveRows(o)') \in Nat
      BY <3>2, FS_CardinalityType
    <3>4. Cardinality(LiveRows(o)) \in Nat /\ moved[o] \in Int
      BY LiveRowsFinite DEF FollowsShape, FTypeOK
    <3> QED
      BY <3>3, <3>4
  <2> QED
    BY <1>1, <2>1, MoveFollowersIs
<1> QED
  BY <1>1, <1>3, <1>4, <1>12, <1>13, <1>14, MoveFollowersIs DEF FollowsShape, FTypeOK, CallTypes

LEMMA MoveFollowersStep ==
  ASSUME FollowsInv, NEW w \in Calls, MoveFollowers(w)
  PROVE  FollowsInv'
<1>1. FollowsShape /\ FollowsShape' /\ Doubts /\ WishesKept /\ CountOK
  BY MoveFollowersShape DEF FollowsInv
<1>2. PICK c \in CallTypes : c = call[w]
  BY <1>1, CallsTyped
<1>3. PICK s \in Topics, t \in Topics : s = c.from /\ t = c.topic
  BY <1>1, <1>2, MoveFollowersIs
<1>4. c.pc = "move" /\ s # t /\ c.about = {s, t} /\ c.whose = Fans
  BY <1>1, <1>2, <1>3, MoveFollowersIs
<1>5. /\ call' = [call EXCEPT ![w] = NoCall]
      /\ UNCHANGED <<followCount, wish, blurred, overwritten>>
      /\ moved' = [o \in Topics |-> moved[o] + Cardinality(LiveRows(o)') - Cardinality(LiveRows(o))]
  BY <1>1, <1>2, MoveFollowersIs
<1>6. follows \subseteq FollowRows /\ follows' \subseteq FollowRows
  BY <1>1 DEF FollowsShape, FTypeOK
<1>7. PICK k : k = inserted'
  OBVIOUS
<1>8. \A r : r \in follows' <=>
           \/ \E x \in follows : x.topic # s /\ r = Revived(c, x)
           \/ \E u \in c.who \ c.seen : r = [row |-> k, fan |-> u, topic |-> t, live |-> TRUE]
  BY <1>1, <1>2, <1>3, <1>7, MovedRowsAre
<1>9. \A u : /\ [row |-> k, fan |-> u, topic |-> t, live |-> TRUE].fan = u
             /\ [row |-> k, fan |-> u, topic |-> t, live |-> TRUE].topic = t
             /\ [row |-> k, fan |-> u, topic |-> t, live |-> TRUE].live
  OBVIOUS
<1>10. \A x \in follows : /\ Revived(c, x).fan = x.fan /\ Revived(c, x).topic = x.topic
                          /\ Revived(c, x).live <=> x.live \/ (x.topic = t /\ x.fan \in c.who)
                          /\ x.topic # t => Revived(c, x) = x
  BY <1>3, <1>6, RevivedIs
<1>11. \A r : r.topic # s /\ r.topic # t => (r \in follows' <=> r \in follows)
  BY <1>8, <1>9, <1>10
<1>12. \A u \in Fans, o \in Topics : ~About(w, u, o) => SameRows(u, o)
  BY <1>2, <1>4, <1>11 DEF About, SameRows
<1>13. ASSUME NEW u \in Fans, Merging(w, u)
       PROVE  /\ OneRow(u, s)' /\ (Follower(u, s)' <=> s \in wish[u])
              /\ OneRow(u, t) => OneRow(u, t)'
              /\ Follower(u, t)' <=> t \in wish[u]
  <2>1. \A r \in follows' : r.topic # s
    BY <1>4, <1>8, <1>9, <1>10
  <2>2. OneRow(u, s)' /\ ~Follower(u, s)'
    BY <2>1 DEF OneRow, FollowsOf, Follower
  <2>3. /\ s \notin wish[u]
        /\ t \in wish[u] <=> u \in c.who \/ Follower(u, t)
        /\ u \in c.seen <=> (u \in c.who /\ HasRow(u, t)) \/ Follower(u, t)
    BY <1>2, <1>3, <1>4, <1>13 DEF Merging
  <2>4. CASE u \in c.who /\ u \notin c.seen
    <3>1. ~HasRow(u, t)
      BY <2>3, <2>4
    <3>2. \A r : r \in follows' /\ r.fan = u /\ r.topic = t
                   => r = [row |-> k, fan |-> u, topic |-> t, live |-> TRUE]
      BY <1>8, <1>9, <1>10, <3>1 DEF HasRow
    <3>3. [row |-> k, fan |-> u, topic |-> t, live |-> TRUE] \in follows'
      BY <1>8, <2>4
    <3>4. OneRow(u, t)' /\ Follower(u, t)'
      BY <1>9, <3>2, <3>3 DEF OneRow, FollowsOf, Follower
    <3> QED
      BY <2>2, <2>3, <2>4, <3>4
  <2>5. CASE ~(u \in c.who /\ u \notin c.seen)
    <3>1. \A r : r \in follows' /\ r.fan = u /\ r.topic = t
                   => \E x \in follows : x.fan = u /\ x.topic = t /\ r = Revived(c, x)
      BY <1>8, <1>9, <1>10, <2>5
    <3>2. \A x \in follows : x.topic = t => Revived(c, x) \in follows'
      BY <1>4, <1>8
    <3>3. OneRow(u, t) => OneRow(u, t)'
      BY <3>1 DEF OneRow, FollowsOf
    <3>4. Follower(u, t)' <=> (u \in c.who /\ HasRow(u, t)) \/ Follower(u, t)
      BY <1>10, <3>1, <3>2 DEF Follower, HasRow
    <3> QED
      BY <2>2, <2>3, <2>5, <3>3, <3>4
  <2> QED
    BY <2>4, <2>5
<1>14. PICK d \in CallTypes : d = NoCall /\ d.whose = {}
  BY NoCallIs
<1>15. Doubts'
  BY <1>1, <1>5, <1>14, GoesDoubts
<1>16. WishesKept'
  <2>1. ASSUME NEW u \in Fans, NEW o \in Topics, About(w, u, o), OneRow(u, o), AtWorkOn(w, u, o)
        PROVE  OneRow(u, o)' /\ (Follower(u, o)' <=> o \in wish[u])
    <3>1. o \in {s, t}
      BY <1>2, <1>4, <2>1 DEF About
    <3>2. Merging(w, u)
      BY <1>2, <1>3, <2>1 DEF AtWorkOn, Merges
    <3> QED
      BY <1>13, <2>1, <3>1, <3>2
  <2> QED
    BY <1>1, <1>5, <1>12, <1>14, <2>1, GoesAsked
<1>17. CountOK'
  <2>1. SUFFICES ASSUME NEW o \in Topics, o \notin overwritten, \A v \in Fans : <<v, o>> \notin blurred
                 PROVE  followCount[o] = Cardinality(LiveRows(o)') - moved'[o]
    BY <1>5 DEF CountOK
  <2>2. followCount[o] = Cardinality(LiveRows(o)) - moved[o]
    BY <1>1, <2>1 DEF CountOK
  <2>3. moved'[o] = moved[o] + Cardinality(LiveRows(o)') - Cardinality(LiveRows(o))
    BY <1>5
  <2>4. moved[o] \in Int /\ Cardinality(LiveRows(o)) \in Nat
    BY <1>1, LiveRowsFinite DEF FollowsShape, FTypeOK
  <2>5. Cardinality(LiveRows(o)') \in Nat
    <3>1. LiveRows(o)' \in SUBSET follows' /\ IsFiniteSet(follows')
      BY <1>1 DEF LiveRows, FollowsShape
    <3> QED
      BY <3>1, FS_Subset, FS_CardinalityType
  <2> QED
    BY <2>2, <2>3, <2>4, <2>5
<1> QED
  BY <1>1, <1>15, <1>16, <1>17 DEF FollowsInv

(* The rows at the start are as wished. *)
LEMMA FollowsInitInv ==
  ASSUME FInit
  PROVE  FollowsInv
<1>1. wish \in [Fans -> SUBSET Topics]
  BY DEF FInit
<1>2. PICK past \in [Fans -> SUBSET Topics] :
        follows = UNION {{[row |-> 1, fan |-> u, topic |-> o, live |-> o \in wish[u]] :
                           o \in wish[u] \cup past[u]} : u \in Fans}
  BY DEF FInit
<1>3. \A r : r \in follows <=>
        \E u \in Fans : \E o \in wish[u] \cup past[u] :
          r = [row |-> 1, fan |-> u, topic |-> o, live |-> o \in wish[u]]
  BY <1>2
<1>4. follows \subseteq FollowRows /\ \A r \in follows : r.row # 0 /\ r.fan \in Fans
        /\ r.topic \in wish[r.fan] \cup past[r.fan]
        /\ r = [row |-> 1, fan |-> r.fan, topic |-> r.topic, live |-> r.topic \in wish[r.fan]]
  <2>1. SUFFICES ASSUME NEW r \in follows
                 PROVE  /\ r \in FollowRows /\ r.row # 0 /\ r.fan \in Fans
                        /\ r.topic \in wish[r.fan] \cup past[r.fan]
                        /\ r = [row |-> 1, fan |-> r.fan, topic |-> r.topic, live |-> r.topic \in wish[r.fan]]
    OBVIOUS
  <2>2. PICK u \in Fans : \E o \in wish[u] \cup past[u] :
          r = [row |-> 1, fan |-> u, topic |-> o, live |-> o \in wish[u]]
    BY <1>3
  <2>3. PICK o \in wish[u] \cup past[u] : r = [row |-> 1, fan |-> u, topic |-> o, live |-> o \in wish[u]]
    BY <2>2
  <2>4. r.row = 1 /\ r.fan = u /\ r.topic = o
    BY <2>3
  <2>5. r \in FollowRows
    BY <1>1, <2>3 DEF FollowRows
  <2> QED
    BY <2>3, <2>4, <2>5
<1>5. IsFiniteSet(follows)
  <2>1. PICK P : P = {p \in Fans \X Topics : p[2] \in wish[p[1]] \cup past[p[1]]}
    OBVIOUS
  <2>2. IsFiniteSet(P)
    BY <2>1, FS_Product, FS_Subset
  <2>3. PICK f : f = [p \in P |-> [row |-> 1, fan |-> p[1], topic |-> p[2], live |-> p[2] \in wish[p[1]]]]
    OBVIOUS
  <2>4. f \in [P -> follows]
    BY <1>3, <2>1, <2>3
  <2>5. ASSUME NEW r \in follows PROVE \E p \in P : f[p] = r
    <3>1. <<r.fan, r.topic>> \in P
      BY <1>1, <1>4, <2>1, <2>5
    <3>2. f[<<r.fan, r.topic>>] = r
      BY <1>4, <2>3, <2>5, <3>1
    <3> QED
      BY <3>1, <3>2
  <2> QED
    BY <2>2, <2>4, <2>5, MadeFinite
<1>6. \A o \in Topics : LiveRows(o) \in SUBSET follows
  BY DEF LiveRows
<1>7. \A o \in Topics : Cardinality(LiveRows(o)) \in Nat
  BY <1>5, <1>6, FS_Subset, FS_CardinalityType
<1>8. call \in [Calls -> CallTypes] /\ \A w \in Calls : call[w] = NoCall /\ CallShape(w)
  BY NoCallIs DEF FInit, CallShape
<1>9. FollowsShape
  BY <1>1, <1>4, <1>5, <1>7, <1>8 DEF FollowsShape, FTypeOK, FInit, CallTypes
<1>10. \A w \in Calls, u \in Fans, o \in Topics : ~About(w, u, o)
  BY <1>8, NoCallIs DEF About
<1>11. Doubts
  BY <1>10 DEF Doubts
<1>12. ASSUME NEW u \in Fans, NEW o \in Topics
       PROVE  OneRow(u, o) /\ (Follower(u, o) <=> o \in wish[u])
  <2>1. OneRow(u, o)
    BY <1>4 DEF OneRow, FollowsOf
  <2>2. ASSUME Follower(u, o) PROVE o \in wish[u]
    <3>1. PICK r \in follows : r.fan = u /\ r.topic = o /\ r.live
      BY <2>2 DEF Follower
    <3>2. r.live = (r.topic \in wish[r.fan])
      BY <1>4
    <3> QED
      BY <3>1, <3>2
  <2>3. ASSUME o \in wish[u] PROVE Follower(u, o)
    <3>1. PICK r : r = [row |-> 1, fan |-> u, topic |-> o, live |-> o \in wish[u]]
      OBVIOUS
    <3>2. r \in follows /\ r.fan = u /\ r.topic = o /\ r.live
      BY <1>3, <2>3, <3>1
    <3> QED
      BY <3>2 DEF Follower
  <2> QED
    BY <2>1, <2>2, <2>3
<1>13. WishesKept
  BY <1>10, <1>12 DEF WishesKept
<1>14. CountOK
  BY <1>7 DEF CountOK, FInit
<1> QED
  BY <1>9, <1>11, <1>13, <1>14 DEF FollowsInv

(* Every step keeps the invariant. *)
LEMMA FollowsStepInv ==
  ASSUME FollowsInv, [FNext]_fVars
  PROVE  FollowsInv'
<1>1. CASE FNext
  <2>1. PICK w \in Calls : FollowSteps(w)
    BY <1>1 DEF FNext
  <2>2. CASE \E u \in Fans : \/ \E o \in Topics : FollowTag(w, u, o) \/ FollowCancel(w, u, o)
                             \/ \E wanted \in SUBSET Topics : UpdateFollowTags(w, u, wanted)
    BY <2>2, FollowTagStep, FollowCancelStep, UpdateFollowTagsStep
  <2>3. CASE \E o \in Topics : FindNoRow(w, o) \/ FindRow(w, o) \/ EditTag(w, o)
    BY <2>3, FindNoRowStep, FindRowStep, EditTagStep
  <2>4. CASE WriteRow(w) \/ FollowDone(w)
    BY <2>4, WriteRowStep, FollowDoneStep
  <2>5. CASE \E s, t \in Topics : MergeTag(w, s, t)
    BY <2>5, MergeTagStep
  <2>6. CASE ListFollowers(w) \/ LookAtTarget(w) \/ MoveFollowers(w)
    BY <2>6, ListFollowersStep, LookAtTargetStep, MoveFollowersStep
  <2>7. CASE WriteTag(w) \/ CallFails(w)
    BY <2>7, WriteTagStep, CallFailsStep
  <2> QED
    BY <2>1, <2>2, <2>3, <2>4, <2>5, <2>6, <2>7 DEF FollowSteps
<1>2. CASE UNCHANGED fVars
  <2>1. UNCHANGED <<follows, inserted, followCount, call, callsMade, drops, wish, blurred, moved, overwritten>>
    BY <1>2 DEF fVars, fTables, fHistory
  <2>2. FollowsShape' /\ Doubts'
    BY <2>1 DEF FollowsInv, FollowsShape, FTypeOK, CallShape, Doubts, About, Merges
  <2>3. WishesKept'
    BY <2>1 DEF FollowsInv, WishesKept, OneRow, FollowsOf, Nobody, About, Follower, HasRow, AtWorkOn, Merges, Merging, Changing
  <2>4. CountOK'
    BY <2>1 DEF FollowsInv, CountOK, LiveRows
  <2> QED
    BY <2>2, <2>3, <2>4 DEF FollowsInv
<1> QED
  BY <1>1, <1>2

(* Inside the invariant the property holds. *)
LEMMA FollowsInvAsked ==
  ASSUME FollowsInv
  PROVE  FollowsAsAsked
<1>1. FollowsShape /\ WishesKept /\ CountOK
  BY DEF FollowsInv
<1>2. ASSUME NEW u \in Fans, NEW o \in Topics, <<u, o>> \notin blurred
      PROVE  /\ Cardinality(FollowsOf(u, o)) <= 1
             /\ \/ \E w \in Calls : <<u, o>> \in Concerns(call[w])
                \/ u \in FollowersOf(o) <=> o \in wish[u]
  <2>1. OneRow(u, o) /\ (Nobody(u, o) => (Follower(u, o) <=> o \in wish[u]))
    BY <1>1, <1>2 DEF WishesKept
  <2>2. Cardinality(FollowsOf(u, o)) <= 1
    <3>1. CASE FollowsOf(u, o) = {}
      BY <3>1, FS_EmptySet
    <3>2. ASSUME NEW r \in FollowsOf(u, o) PROVE Cardinality(FollowsOf(u, o)) <= 1
      <4>1. FollowsOf(u, o) = {r}
        BY <2>1, <3>2 DEF OneRow
      <4>2. Cardinality({r}) = 1
        BY FS_Singleton
      <4> QED
        BY <4>1, <4>2
    <3> QED
      BY <3>1, <3>2
  <2>3. Nobody(u, o) \/ \E w \in Calls : <<u, o>> \in Concerns(call[w])
    BY ConcernsIs DEF Nobody, About
  <2>4. u \in FollowersOf(o) <=> Follower(u, o)
    BY DEF FollowersOf, LiveRows, Follower
  <2> QED
    BY <2>1, <2>2, <2>3, <2>4
<1>3. ASSUME NEW o \in Topics, o \notin overwritten, blurred \cap (Fans \X {o}) = {}
      PROVE  followCount[o] = Cardinality(LiveRows(o)) - moved[o]
  <2>1. \A u \in Fans : <<u, o>> \notin blurred
    BY <1>3
  <2> QED
    BY <1>1, <1>3, <2>1 DEF CountOK
<1> QED
  BY <1>2, <1>3 DEF FollowsAsAsked

LEMMA FollowsInductive == FSpec => []FollowsInv
<1>1. FInit => FollowsInv
  BY FollowsInitInv
<1>2. FollowsInv /\ [FNext]_fVars => FollowsInv'
  BY FollowsStepInv
<1> QED
  BY <1>1, <1>2, PTL DEF FSpec

(* Every step of every request about follows, merges and edits keeps the rows,
   the counters and the requests what they are. *)
THEOREM FollowsTyped == FSpec => []FTypeOK
<1>1. FollowsInv => FTypeOK
  BY DEF FollowsInv, FollowsShape
<1> QED
  BY <1>1, FollowsInductive, PTL

(* Whoever asked to follow a tag follows it in one row, through any number of
   requests, merges and failures, and the counter of a tag counts them: but for
   user and tag about which two requests have overlapped or one has failed, and
   for tags whose counter an edit set back. *)
THEOREM FollowsAsAskedTheorem == FSpec => []FollowsAsAsked
<1>1. FollowsInv => FollowsAsAsked
  BY FollowsInvAsked
<1> QED
  BY <1>1, FollowsInductive, PTL
=============================================================================
