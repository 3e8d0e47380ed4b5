------------------------------ MODULE Follows ------------------------------
(***************************************************************************)
(* Who follows which tag: Follow and UpdateFollowTags in internal/service/ *)
(* follow, the transactions of internal/repo/activity/follow_repo.go, the  *)
(* merge of two tags (MergeTag with MigrateFollowers), and the edit of a   *)
(* tag, which writes back the column follow_count with the rest of the row.*)
(*                                                                         *)
(* A transaction is two actions, what it reads and its commit.  The table  *)
(* activity has no unique key and nothing is locked.  Questions and users  *)
(* are followed by the same code and are never merged.                     *)
(***************************************************************************)
EXTENDS Integers, FiniteSets

CONSTANTS Fans,         (* users *)
          Topics,       (* tags *)
          Calls,        (* HTTP requests in progress *)
          NoTopic,
          MaxCalls,     (* bound: requests altogether *)
          MaxDrops      (* bound: failing statements *)

ASSUME FollowsAssumption ==
  /\ NoTopic \notin Topics /\ IsFiniteSet(Fans) /\ IsFiniteSet(Topics)
  /\ MaxCalls \in Nat
  /\ MaxDrops \in Nat

VARIABLES follows,      (* rows of activity: who follows what, cancelled or live,
                           and the number of the insertion *)
          inserted,     (* insertions so far *)
          followCount,  (* follow_count of the tags *)
          call,         (* what each request is about and does next *)
          callsMade,    (* how many requests have arrived *)
          drops,        (* how many statements have failed *)
          wish,         (* history: what each user has asked to follow *)
          blurred,        (* history: user and tag two requests about which have
                           overlapped, or one has failed *)
          moved,        (* history: by how many live rows merges changed a tag *)
          overwritten   (* history: tags whose count an edit set back *)

fTables == <<follows, inserted, followCount>>
fHistory == <<wish, blurred, moved, overwritten>>
fVars == <<fTables, call, callsMade, drops, fHistory>>

FollowRows == [row : Nat, fan : Fans, topic : Topics, live : BOOLEAN]
CallPCs == {"idle", "next", "write", "list", "look", "move", "edit"}

(* whose and about are the users and tags a request concerns.  cancels and news
   are what a change of follows has left to do, topic and row what the current
   transaction is about and has found (0: nothing).  A merge of from into topic
   has found the followers who, and seen those of topic.  An edit has read
   count. *)
NoCall == [pc |-> "idle", whose |-> {}, about |-> {}, cancels |-> {}, news |-> {},
           topic |-> NoTopic, row |-> 0, from |-> NoTopic, who |-> {}, seen |-> {},
           count |-> 0]

FTypeOK ==
  /\ follows \subseteq FollowRows
  /\ inserted \in Nat
  /\ followCount \in [Topics -> Int]
  /\ call \in [Calls -> [pc : CallPCs, whose : SUBSET Fans, about : SUBSET Topics,
                         cancels : SUBSET Topics, news : SUBSET Topics,
                         topic : Topics \cup {NoTopic}, row : Nat,
                         from : Topics \cup {NoTopic}, who : SUBSET Fans,
                         seen : SUBSET Fans, count : Int]]
  /\ callsMade \in 0..MaxCalls
  /\ drops \in 0..MaxDrops
  /\ wish \in [Fans -> SUBSET Topics]
  /\ blurred \subseteq Fans \X Topics
  /\ moved \in [Topics -> Int]
  /\ overwritten \subseteq Topics

-----------------------------------------------------------------------------
FollowsOf(u, o) == {r \in follows : r.fan = u /\ r.topic = o}
LiveRows(o) == {r \in follows : r.topic = o /\ r.live}
FollowersOf(o) == {r.fan : r \in LiveRows(o)}

(* Whoever has followed a tag before has a row about it, live or cancelled. *)
FInit ==
  /\ wish \in [Fans -> SUBSET Topics]
  /\ \E past \in [Fans -> SUBSET Topics] :
       follows = UNION {{[row |-> 1, fan |-> u, topic |-> o, live |-> o \in wish[u]] :
                          o \in wish[u] \cup past[u]} : u \in Fans}
  /\ inserted = 1
  /\ followCount = [o \in Topics |-> Cardinality(LiveRows(o))]
  /\ call = [w \in Calls |-> NoCall]
  /\ callsMade = 0
  /\ drops = 0
  /\ blurred = {}
  /\ moved = [o \in Topics |-> 0]
  /\ overwritten = {}

Concerns(c) == c.whose \X c.about

(* A merge carries a doubt about a user from one tag to the other. *)
Spread(pairs, jobs) ==
  pairs \cup {p \in Fans \X Topics :
    \E c \in jobs : /\ c.from # NoTopic /\ p[2] \in c.about
                    /\ \E o \in c.about : <<p[1], o>> \in pairs}

CallArrives(w, c) ==
  /\ call[w].pc = "idle"
  /\ callsMade < MaxCalls
  /\ callsMade' = callsMade + 1
  /\ call' = [call EXCEPT ![w] = c]
  /\ LET others == {call[v] : v \in Calls}
         overlap == Concerns(c) \cap UNION {Concerns(x) : x \in others}
     IN blurred' = Spread(blurred \cup overlap, others \cup {c})
  /\ UNCHANGED <<fTables, drops, moved, overwritten>>

CallGoes(w, c) == call' = [call EXCEPT ![w] = c] /\ UNCHANGED <<callsMade, drops>>

ChangeOf(u, about, cancels, news) ==
  [NoCall EXCEPT !.pc = "next", !.whose = {u}, !.about = about, !.cancels = cancels, !.news = news]

FollowTag(w, u, o) ==
  /\ CallArrives(w, ChangeOf(u, {o}, {}, {o}))
  /\ wish' = [wish EXCEPT ![u] = @ \cup {o}]

FollowCancel(w, u, o) ==
  /\ CallArrives(w, ChangeOf(u, {o}, {o}, {}))
  /\ wish' = [wish EXCEPT ![u] = @ \ {o}]

(* What is followed is read once; each change is a transaction of its own. *)
UpdateFollowTags(w, u, wanted) ==
  LET old == {o \in Topics : u \in FollowersOf(o)}
  IN /\ CallArrives(w, ChangeOf(u, Topics, old \ wanted, wanted \ old))
     /\ wish' = [wish EXCEPT ![u] = wanted]

(* The next transaction, the cancellations first. *)
Cancelling(c) == c.cancels # {}
NextTopics(c) == IF Cancelling(c) THEN c.cancels ELSE c.news

TopicDone(c, o) ==
  [c EXCEPT !.pc = "next", !.topic = NoTopic, !.row = 0,
            !.cancels = @ \ {o}, !.news = IF Cancelling(c) THEN @ ELSE @ \ {o}]

(* Get returns any of the rows about the user and the tag, cancelled or not.
   Nothing is done for what is followed already, or not at all. *)
FindNoRow(w, o) ==
  LET c == call[w]
  IN /\ c.pc = "next" /\ o \in NextTopics(c)
     /\ \A u \in c.whose : FollowsOf(u, o) = {}
     /\ CallGoes(w, IF Cancelling(c) THEN TopicDone(c, o)
                    ELSE [c EXCEPT !.pc = "write", !.topic = o])
     /\ UNCHANGED <<fTables, fHistory>>

FindRow(w, o) ==
  LET c == call[w]
  IN /\ c.pc = "next" /\ o \in NextTopics(c)
     /\ \E u \in c.whose : \E r \in FollowsOf(u, o) :
          CallGoes(w, IF r.live # Cancelling(c) THEN TopicDone(c, o)
                      ELSE [c EXCEPT !.pc = "write", !.topic = o, !.row = r.row])
     /\ UNCHANGED <<fTables, fHistory>>

(* The commit: the row that was found is written, should it still be there, or
   one is inserted, and the count of the tag goes up or down by one. *)
WriteRow(w) ==
  LET c == call[w]
      on == ~Cancelling(c)
  IN /\ c.pc = "write"
     /\ \E u \in c.whose :
          IF c.row = 0
          THEN /\ inserted' = inserted + 1
               /\ follows' = follows \cup {[row |-> inserted', fan |-> u, topic |-> c.topic, live |-> TRUE]}
          ELSE /\ follows' = {IF r.row = c.row /\ r \in FollowsOf(u, c.topic) THEN [r EXCEPT !.live = on] ELSE r : r \in follows}
               /\ UNCHANGED inserted
     /\ followCount' = [followCount EXCEPT ![c.topic] = @ + (IF on THEN 1 ELSE -1)]
     /\ CallGoes(w, TopicDone(c, c.topic))
     /\ UNCHANGED fHistory

FollowDone(w) ==
  /\ call[w].pc = "next"
  /\ NextTopics(call[w]) = {}
  /\ CallGoes(w, NoCall)
  /\ UNCHANGED <<fTables, fHistory>>

-----------------------------------------------------------------------------
(* The names at the synonyms and the questions of the tags, which a merge also
   changes, are not modelled. *)
MergeTag(w, s, t) ==
  /\ s # t
  /\ CallArrives(w, [NoCall EXCEPT !.pc = "list", !.whose = Fans, !.about = {s, t},
                                   !.from = s, !.topic = t])
  /\ wish' = [u \in Fans |-> IF s \in wish[u] THEN (wish[u] \ {s}) \cup {t} ELSE wish[u]]

(* MigrateFollowers lists the followers before its transaction. *)
ListFollowers(w) ==
  /\ call[w].pc = "list"
  /\ CallGoes(w, [call[w] EXCEPT !.pc = "look", !.who = FollowersOf(call[w].from)])
  /\ UNCHANGED <<fTables, fHistory>>

(* In the transaction the rows of those who once followed the target are made
   live, so that they are among its followers. *)
LookAtTarget(w) ==
  LET c == call[w]
      known == {u \in c.who : FollowsOf(u, c.topic) # {}}
  IN /\ c.pc = "look"
     /\ CallGoes(w, [c EXCEPT !.pc = "move", !.seen = known \cup FollowersOf(c.topic)])
     /\ UNCHANGED <<fTables, fHistory>>

(* Mutant: what was cancelled stays so. *)
LeftCancelled(c, r) == r

Revived(c, r) == [r EXCEPT !.live = @ \/ (r.topic = c.topic /\ r.fan \in c.who)]

(* The commit.  Neither follow_count is changed. *)
MoveFollowers(w) ==
  LET c == call[w]
  IN /\ c.pc = "move"
     /\ inserted' = inserted + 1
     /\ follows' = {Revived(c, r) : r \in {x \in follows : x.topic # c.from}}
          \cup {[row |-> inserted', fan |-> u, topic |-> c.topic, live |-> TRUE] : u \in c.who \ c.seen}
     /\ moved' = [o \in Topics |-> moved[o] + Cardinality(LiveRows(o)') - Cardinality(LiveRows(o))]
     /\ CallGoes(w, NoCall)
     /\ UNCHANGED <<followCount, wish, blurred, overwritten>>

-----------------------------------------------------------------------------
(* UpdateTag reads the row of the tag and writes it back with the new text: all
   its columns that are not zero, follow_count among them. *)
EditTag(w, o) ==
  /\ CallArrives(w, [NoCall EXCEPT !.pc = "edit", !.topic = o, !.count = followCount[o]])
  /\ UNCHANGED wish

WriteTag(w) ==
  LET c == call[w]
  IN /\ c.pc = "edit"
     /\ followCount' = IF c.count = 0 THEN followCount
                       ELSE [followCount EXCEPT ![c.topic] = c.count]
     /\ overwritten' = IF followCount' = followCount THEN overwritten
                       ELSE overwritten \cup {c.topic}
     /\ CallGoes(w, NoCall)
     /\ UNCHANGED <<follows, inserted, wish, blurred, moved>>

(* A statement fails: its transaction is rolled back and the request ends. *)
CallFails(w) ==
  /\ call[w].pc # "idle"
  /\ drops < MaxDrops
  /\ drops' = drops + 1
  /\ blurred' = blurred \cup Concerns(call[w])
  /\ call' = [call EXCEPT ![w] = NoCall]
  /\ UNCHANGED <<fTables, callsMade, wish, moved, overwritten>>

-----------------------------------------------------------------------------
FollowSteps(w) ==
  \/ \E u \in Fans :
       \/ \E o \in Topics : FollowTag(w, u, o) \/ FollowCancel(w, u, o)
       \/ \E wanted \in SUBSET Topics : UpdateFollowTags(w, u, wanted)
  \/ \E o \in Topics : FindNoRow(w, o) \/ FindRow(w, o) \/ EditTag(w, o)
  \/ WriteRow(w) \/ FollowDone(w)
  \/ \E s, t \in Topics : MergeTag(w, s, t)
  \/ ListFollowers(w) \/ LookAtTarget(w) \/ MoveFollowers(w)
  \/ WriteTag(w) \/ CallFails(w)

FNext == \E w \in Calls : FollowSteps(w)
FSpec == FInit /\ [][FNext]_fVars

-----------------------------------------------------------------------------
(* Users follow what they have asked for last, in one row, and whoever followed
   a tag that was merged into another follows that one: the cancelled rows of a
   target are revived, not doubled.  The counter of a tag is the number of its
   followers, but for those whom a merge moved (it does not count them), and
   unless an edit of the tag wrote back an old number.  Left out are user and
   tag when two requests about them overlapped or one failed. *)
FollowsAsAsked ==
  /\ \A u \in Fans, o \in Topics : <<u, o>> \notin blurred =>
       /\ Cardinality(FollowsOf(u, o)) <= 1
       /\ \/ \E w \in Calls : <<u, o>> \in Concerns(call[w])
          \/ u \in FollowersOf(o) <=> o \in wish[u]
  /\ \A o \in Topics \ overwritten : blurred \cap (Fans \X {o}) = {} =>
       followCount[o] = Cardinality(LiveRows(o)) - moved[o]
=============================================================================
