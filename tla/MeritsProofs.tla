---------------------------- MODULE MeritsProofs ----------------------------
(***************************************************************************)
(* Theorems about what users earn, for every set of objects, users and     *)
(* requests and any number of requests and failures: suggestions that are  *)
(* accepted, with their reputation, and awards of a badge.                 *)
(*                                                                         *)
(* Revisions.  One edit or one audit at a time works on an object, unless  *)
(* two overlap: an edit when no suggestion waits, an audit about the       *)
(* suggestion that waits, which is the newest revision.  What they write   *)
(* on the way is known, so that the object shows its newest revision that  *)
(* has passed when they end.  The row of a user that a reward has locked   *)
(* keeps all other rewards of the user out.                                *)
(*                                                                         *)
(* Badges.  The transaction of the one worker sees every award that there  *)
(* is, hidden or not; the rows of two awards differ, so that hiding them   *)
(* does not change their number.                                           *)
(***************************************************************************)
EXTENDS Revisions, Badges, SequenceTheorems, FiniteSetTheorems, TLAPS

(* Revisions. *)
USE RevisionsAssumption DEF RevisionsAssumption

(* A request in progress is about an object, and one that audits or rewards about
   one of its revisions; whoever writes content may edit without review. *)
DeskType == [pc : DeskPCs, subject : Subjects \cup {NoSubject}, n : Nat,
             to : Bodies, by : Suggesters, direct : BOOLEAN]

RewardPCs == {"reward", "book"}

Numbered(w) ==
  /\ desk[w].pc = "idle" <=> desk[w].subject = NoSubject
  /\ desk[w].pc \in AuditPCs \cup RewardPCs => desk[w].n \in DOMAIN revisions[desk[w].subject]
  /\ desk[w].pc \in {"text", "second"} => desk[w].direct

RShape ==
  /\ RTypeOK
  /\ revisions \in [Subjects -> Seq(RevisionRows)]
  /\ \A w \in Desks : Numbered(w)

(* Between lock and commit the author has not been rewarded for the revision, and
   nobody else rewards the same author. *)
Booking(w) == desk[w].pc = "book"

RewardInv ==
  /\ \A o \in Subjects : \A n \in DOMAIN revisions[o] : revisions[o][n].rewards <= 1
  /\ \A w \in Desks : Booking(w) =>
       /\ AuditedBy(w) \in rankLocks
       /\ revisions[desk[w].subject][desk[w].n].rewards = 0
  /\ \A v, w \in Desks : Booking(v) /\ Booking(w) /\ AuditedBy(v) = AuditedBy(w) => v = w

(* One edit or audit at a time is at work on an object: an edit when nothing
   waits, an audit about what waits. *)
Works(w, o) == desk[w].subject = o /\ desk[w].pc \in EditPCs \cup AuditPCs

OneWorks(o) == \A v, w \in Desks : Works(v, o) /\ Works(w, o) => v = w

WaitingLast(o) ==
  /\ \A n \in Unreviewed(o) : n = Len(revisions[o])
  /\ \A w \in Desks : desk[w].subject = o =>
       /\ desk[w].pc \in EditPCs => Unreviewed(o) = {}
       /\ desk[w].pc \in AuditPCs => desk[w].n \in Unreviewed(o)

(* A revision is rewarded after it has passed. *)
RewardsPassed(o) ==
  /\ \A w \in Desks : desk[w].subject = o /\ desk[w].pc \in RewardPCs => desk[w].n \in Passed(o)
  /\ \A n \in DOMAIN revisions[o] : revisions[o][n].rewards = 1 => n \in Passed(o)

(* What an object shows: its newest revision that has passed with a text, or the
   one that is being written, if it has a text. *)
Shows(o, c) ==
  /\ body[o].text = c.text
  /\ KindOf[o] = "question" => body[o].label = c.label

Newest(o, p) == p \in Worded(o) /\ \A q \in Worded(o) : q <= p

Halfway(w) == \/ desk[w].pc \in {"second", "apply_second", "pass"}
              \/ desk[w].pc = "add" /\ desk[w].direct

Writes(w) == IF desk[w].pc \in EditPCs THEN desk[w].to ELSE Audited(w)

Replaces(w, o) == desk[w].subject = o /\ Halfway(w) /\ HasText(o, Writes(w))

ShowsNewest(o) ==
  \E p \in Worded(o) : /\ Newest(o, p)
                       /\ \/ \E w \in Desks : Replaces(w, o)
                          \/ Shows(o, revisions[o][p].content)

TextWritten(w, o) == HasText(o, Writes(w)) => body[o].text = Writes(w).text
LabelWritten(w, o) == KindOf[o] = "question" => body[o].label = Writes(w).label

ShowsWritten(o) ==
  \A w \in Desks : desk[w].subject = o /\ Halfway(w) =>
    /\ TextWritten(w, o)
    /\ desk[w].pc \in {"add", "pass"} => LabelWritten(w, o)

InOrder(o) ==
  OneWorks(o) /\ WaitingLast(o) /\ RewardsPassed(o) /\ ShowsNewest(o) /\ ShowsWritten(o)

OrderInv == \A o \in Subjects \ contested : InOrder(o)

RInv == RShape /\ RewardInv /\ OrderInv

-----------------------------------------------------------------------------
(* What the code writes in a revision leaves the others alone. *)
LEMMA RowWritten ==
  ASSUME RShape, NEW o \in Subjects, NEW n \in DOMAIN revisions[o], NEW e \in RevisionRows,
         revisions' = [revisions EXCEPT ![o][n] = e]
  PROVE  /\ revisions' \in [Subjects -> Seq(RevisionRows)]
         /\ \A u \in Subjects \ {o} : revisions'[u] = revisions[u]
         /\ \A u \in Subjects : /\ Len(revisions'[u]) = Len(revisions[u])
                                 /\ DOMAIN revisions'[u] = DOMAIN revisions[u]
         /\ \A m \in DOMAIN revisions[o] : revisions'[o][m] = IF m = n THEN e ELSE revisions[o][m]
<1>1. revisions \in [Subjects -> Seq(RevisionRows)] /\ revisions[o] \in Seq(RevisionRows)
  BY DEF RShape
<1>2. revisions'[o] = [revisions[o] EXCEPT ![n] = e]
  BY <1>1
<1>3. n \in 1..Len(revisions[o])
  BY <1>1
<1>4. /\ revisions'[o] \in Seq(RevisionRows)
      /\ Len(revisions'[o]) = Len(revisions[o])
      /\ \A m \in 1..Len(revisions[o]) : revisions'[o][m] = IF m = n THEN e ELSE revisions[o][m]
  BY <1>1, <1>2, <1>3, ExceptSeq
<1>5. DOMAIN revisions'[o] = DOMAIN revisions[o]
  BY <1>1, <1>4
<1> QED BY <1>1, <1>3, <1>4, <1>5

LEMMA RowAdded ==
  ASSUME RShape, NEW o \in Subjects, NEW e \in RevisionRows,
         revisions' = [revisions EXCEPT ![o] = Append(@, e)]
  PROVE  /\ revisions' \in [Subjects -> Seq(RevisionRows)]
         /\ \A u \in Subjects \ {o} : revisions'[u] = revisions[u]
         /\ Len(revisions'[o]) = Len(revisions[o]) + 1
         /\ DOMAIN revisions'[o] = DOMAIN revisions[o] \cup {Len(revisions[o]) + 1}
         /\ \A m \in DOMAIN revisions[o] : m <= Len(revisions[o]) /\ revisions'[o][m] = revisions[o][m]
         /\ revisions'[o][Len(revisions[o]) + 1] = e
<1>1. revisions \in [Subjects -> Seq(RevisionRows)] /\ revisions[o] \in Seq(RevisionRows)
  BY DEF RShape
<1>2. revisions'[o] = Append(revisions[o], e)
  BY <1>1
<1> QED BY <1>1, <1>2

(* A request that ends leaves an idle desk. *)
LEMMA NoDeskType ==
  ASSUME RShape, NEW w \in Desks
  PROVE  NoDesk \in DeskType /\ desk[w] \in DeskType /\ NoDesk.pc = "idle" /\ NoDesk.subject = NoSubject
<1>1. desk[w] \in DeskType
  BY DEF RShape, RTypeOK, DeskType
<1>2. \E c \in Bodies : TRUE
  BY <1>1 DEF DeskType
<1>3. \E u \in Suggesters : TRUE
  BY <1>1 DEF DeskType
<1> QED BY <1>1, <1>2, <1>3 DEF NoDesk, DeskType, DeskPCs

LEMMA SameRows ==
  ASSUME NEW o \in Subjects, revisions'[o] = revisions[o]
  PROVE  Unreviewed(o)' = Unreviewed(o) /\ Passed(o)' = Passed(o) /\ Worded(o)' = Worded(o)
<1>1. Unreviewed(o)' = Unreviewed(o) /\ Passed(o)' = Passed(o)
  BY DEF Unreviewed, Passed
<1> QED BY <1>1 DEF Worded

(* Of a question or an answer, and of a tag with a text, what is written shows. *)
LEMMA WrittenShows ==
  ASSUME NEW o \in Subjects, NEW w \in Desks, HasText(o, Writes(w)),
         TextWritten(w, o), LabelWritten(w, o)
  PROVE  Shows(o, Writes(w))
BY DEF TextWritten, LabelWritten, Shows

(* An object that a step is not about stays in order. *)
LEMMA Elsewhere ==
  ASSUME NEW w \in Desks, NEW o \in Subjects, InOrder(o),
         body'[o] = body[o], revisions'[o] = revisions[o],
         \A v \in Desks \ {w} : desk'[v] = desk[v],
         desk[w].subject # o, desk'[w].subject # o
  PROVE  InOrder(o)'
<1>1. Unreviewed(o)' = Unreviewed(o) /\ Passed(o)' = Passed(o) /\ Worded(o)' = Worded(o)
  BY SameRows
<1>2. OneWorks(o)'
  BY DEF InOrder, OneWorks, Works
<1>3. WaitingLast(o)'
  BY <1>1 DEF InOrder, WaitingLast
<1>4. RewardsPassed(o)'
  BY <1>1 DEF InOrder, RewardsPassed
<1>5. \A v \in Desks : desk'[v].subject = o => desk'[v] = desk[v] /\ Writes(v)' = Writes(v)
  BY DEF Writes, Audited
<1>6. \A v \in Desks : Replaces(v, o) => Replaces(v, o)'
  BY <1>5 DEF Replaces, Halfway, Writes, Audited
<1>7. ShowsNewest(o)'
  BY <1>1, <1>6 DEF InOrder, ShowsNewest, Newest, Shows
<1>8. ShowsWritten(o)'
  BY <1>5 DEF InOrder, ShowsWritten, TextWritten, LabelWritten, Halfway
<1> QED BY <1>2, <1>3, <1>4, <1>7, <1>8 DEF InOrder

-----------------------------------------------------------------------------
(* Types. *)
Others(w) == \A v \in Desks \ {w} : desk'[v] = desk[v]

LEMMA GotoType ==
  ASSUME RShape, NEW w \in Desks, NEW pc \in DeskPCs, DeskGoto(w, pc)
  PROVE  /\ desk' \in [Desks -> DeskType] /\ Others(w)
         /\ desk'[w].pc = pc /\ desk'[w].subject = desk[w].subject /\ desk'[w].n = desk[w].n
         /\ desk'[w].to = desk[w].to /\ desk'[w].by = desk[w].by /\ desk'[w].direct = desk[w].direct
BY DEF RShape, RTypeOK, DeskType, DeskGoto, Others

LEMMA DoneType ==
  ASSUME RShape, NEW w \in Desks, DeskDone(w)
  PROVE  /\ desk' \in [Desks -> DeskType] /\ Others(w)
         /\ desk'[w].pc = "idle" /\ desk'[w].subject = NoSubject
BY NoDeskType DEF RShape, RTypeOK, DeskType, DeskDone, Others

LEMMA ShapeStep ==
  ASSUME RShape, NEW w \in Desks,
         desk' \in [Desks -> DeskType], Others(w),
         body' \in [Subjects -> Bodies],
         revisions' \in [Subjects -> Seq(RevisionRows)],
         \A u \in Subjects : DOMAIN revisions[u] \subseteq DOMAIN revisions'[u],
         rankLocks' \subseteq Suggesters,
         deskWork' \in 0..MaxDeskWork, slips' \in 0..MaxSlips, contested' \subseteq Subjects,
         Numbered(w)'
  PROVE  RShape'
<1>1. \A v \in Desks : Numbered(v)'
  <2> SUFFICES ASSUME NEW v \in Desks \ {w} PROVE Numbered(v)'
    OBVIOUS
  <2>1. Numbered(v) /\ desk[v].subject \in Subjects \cup {NoSubject} /\ desk'[v] = desk[v]
    BY DEF RShape, RTypeOK, Others
  <2> QED BY <2>1 DEF Numbered, AuditPCs, RewardPCs
<1>2. \A o \in Subjects : \A n \in DOMAIN revisions'[o] : revisions'[o][n] \in RevisionRows
  OBVIOUS
<1> QED BY <1>1, <1>2 DEF RShape, RTypeOK, DeskType

LEMMA AuditedType ==
  ASSUME RShape, NEW w \in Desks, desk[w].pc \in AuditPCs \cup RewardPCs
  PROVE  /\ desk[w].subject \in Subjects
         /\ desk[w].n \in DOMAIN revisions[desk[w].subject]
         /\ desk[w].n \in 1..Len(revisions[desk[w].subject])
         /\ revisions[desk[w].subject][desk[w].n] \in RevisionRows
         /\ Audited(w) \in Bodies /\ AuditedBy(w) \in Suggesters
<1>1. desk[w].subject \in Subjects /\ desk[w].n \in DOMAIN revisions[desk[w].subject]
  BY DEF RShape, RTypeOK, Numbered, AuditPCs, RewardPCs
<1>2. revisions[desk[w].subject][desk[w].n] \in RevisionRows
  BY <1>1 DEF RShape, RTypeOK
<1>3. desk[w].n \in 1..Len(revisions[desk[w].subject])
  BY <1>1 DEF RShape
<1> QED BY <1>1, <1>2, <1>3 DEF Audited, AuditedBy, RevisionRows

(* The verdict, or the reward, is written in the row of the revision. *)
SettledRow(w, verdict) == [revisions[desk[w].subject][desk[w].n] EXCEPT !.status = verdict]

LEMMA SettleIs ==
  ASSUME RShape, NEW w \in Desks, desk[w].pc \in AuditPCs \cup RewardPCs,
         NEW verdict \in {"passed", "rejected"}, Settle(w, verdict)
  PROVE  /\ SettledRow(w, verdict) \in RevisionRows
         /\ SettledRow(w, verdict).status = verdict
         /\ SettledRow(w, verdict).content = Audited(w)
         /\ SettledRow(w, verdict).by = AuditedBy(w)
         /\ SettledRow(w, verdict).rewards = revisions[desk[w].subject][desk[w].n].rewards
         /\ revisions' = [revisions EXCEPT ![desk[w].subject][desk[w].n] = SettledRow(w, verdict)]
BY AuditedType DEF SettledRow, Settle, RevisionRows, Audited, AuditedBy, RShape

RewardedRow(w) ==
  LET row == revisions[desk[w].subject][desk[w].n]
  IN [row EXCEPT !.rewards = row.rewards + 1]

LEMMA RewardIs ==
  ASSUME RShape, NEW w \in Desks, BookReward(w)
  PROVE  /\ RewardedRow(w) \in RevisionRows
         /\ RewardedRow(w).status = revisions[desk[w].subject][desk[w].n].status
         /\ RewardedRow(w).content = Audited(w)
         /\ RewardedRow(w).by = AuditedBy(w)
         /\ RewardedRow(w).rewards = revisions[desk[w].subject][desk[w].n].rewards + 1
         /\ revisions' = [revisions EXCEPT ![desk[w].subject][desk[w].n] = RewardedRow(w)]
<1>1. desk[w].pc = "book"
  BY DEF BookReward
<1>2. /\ revisions[desk[w].subject][desk[w].n] \in RevisionRows
      /\ desk[w].subject \in Subjects
      /\ desk[w].n \in DOMAIN revisions[desk[w].subject]
  BY <1>1, AuditedType DEF RewardPCs
<1>3. revisions' = [revisions EXCEPT ![desk[w].subject][desk[w].n] = RewardedRow(w)]
  BY <1>2 DEF BookReward, RewardedRow, RevisionRows, RShape
<1> QED BY <1>2, <1>3 DEF RewardedRow, RevisionRows, Audited, AuditedBy

LEMMA RInitInv == RInit => RInv
<1> SUFFICES ASSUME RInit PROVE RInv
  OBVIOUS
<1>1. PICK c \in Bodies, u \in Suggesters :
        /\ body = [o \in Subjects |-> c]
        /\ revisions = [o \in Subjects |->
             <<[content |-> c, by |-> u, status |-> "passed", rewards |-> 0]>>]
  BY DEF RInit
<1> DEFINE first == [content |-> c, by |-> u, status |-> "passed", rewards |-> 0]
<1>2. first \in RevisionRows /\ first.rewards = 0 /\ first.status = "passed" /\ first.content = c
  BY DEF RevisionRows
<1>3. \A o \in Subjects : revisions[o] = <<first>>
  BY <1>1
<1> HIDE DEF first
<1>4. \A o \in Subjects : /\ revisions[o] \in Seq(RevisionRows)
                          /\ DOMAIN revisions[o] = {1} /\ Len(revisions[o]) = 1
                          /\ revisions[o][1] = first
  <2> SUFFICES ASSUME NEW o \in Subjects, NEW q, q = <<first>>
               PROVE  q \in Seq(RevisionRows) /\ DOMAIN q = {1} /\ Len(q) = 1 /\ q[1] = first
    BY <1>3
  <2> QED BY <1>2
<1>5. \A w \in Desks : desk[w] = NoDesk /\ desk[w].pc = "idle" /\ desk[w].subject = NoSubject
                        /\ desk[w] \in DeskType
  BY DEF RInit, NoDesk, DeskType, DeskPCs
<1>6. revisions \in [Subjects -> Seq(RevisionRows)]
  BY <1>1, <1>4
<1>7. RShape
  <2>1. desk \in [Desks -> DeskType]
    BY <1>5 DEF RInit
  <2>2. body \in [Subjects -> Bodies]
    BY <1>1
  <2>3. \A o \in Subjects : \A n \in DOMAIN revisions[o] : revisions[o][n] \in RevisionRows
    BY <1>2, <1>4
  <2>4. \A w \in Desks : Numbered(w)
    BY <1>5 DEF Numbered, AuditPCs, RewardPCs
  <2> QED BY <1>6, <2>1, <2>2, <2>3, <2>4 DEF RInit, RShape, RTypeOK, DeskType
<1>8. RewardInv
  BY <1>2, <1>4, <1>5 DEF RewardInv, Booking
<1>9. ASSUME NEW o \in Subjects PROVE InOrder(o)
  <2>1. Unreviewed(o) = {} /\ Passed(o) = {1} /\ Worded(o) = {1}
    BY <1>2, <1>4 DEF Unreviewed, Passed, Worded
  <2>2. \A w \in Desks : desk[w].subject # o
    BY <1>5
  <2>3. OneWorks(o) /\ ShowsWritten(o)
    BY <2>2 DEF OneWorks, Works, ShowsWritten
  <2>4. WaitingLast(o) /\ RewardsPassed(o)
    BY <1>2, <1>4, <2>1, <2>2 DEF WaitingLast, RewardsPassed
  <2>5. Shows(o, revisions[o][1].content)
    BY <1>1, <1>2, <1>4 DEF Shows
  <2>6. ShowsNewest(o)
    BY <2>1, <2>5 DEF ShowsNewest, Newest
  <2> QED BY <2>3, <2>4, <2>6 DEF InOrder
<1> QED BY <1>7, <1>8, <1>9 DEF RInv, OrderInv

-----------------------------------------------------------------------------
(* Shape, action by action. *)
LEMMA ArrivesShape ==
  ASSUME RShape, NEW w \in Desks, NEW job \in DeskType, NEW pcs, DeskArrives(w, job, pcs),
         job.subject \in Subjects, job.pc \notin {"idle", "text", "second"},
         job.pc \in AuditPCs \cup RewardPCs => job.n \in DOMAIN revisions[job.subject]
  PROVE  RShape' /\ Others(w) /\ desk'[w] = job
<1>1. desk' \in [Desks -> DeskType] /\ Others(w) /\ desk'[w] = job
  BY DEF DeskArrives, Others, RShape, RTypeOK, DeskType
<1>2. /\ deskWork' \in 0..MaxDeskWork /\ contested' \subseteq Subjects
      /\ UNCHANGED <<body, revisions, rankLocks, slips>>
  <2>1. deskWork \in 0..MaxDeskWork /\ contested \subseteq Subjects
    BY DEF RShape, RTypeOK
  <2> QED BY <2>1 DEF DeskArrives
<1>3. Numbered(w)'
  BY <1>1, <1>2 DEF Numbered
<1> QED BY <1>1, <1>2, <1>3, ShapeStep DEF RShape, RTypeOK

LEMMA AuditJobIs ==
  ASSUME RShape, NEW w \in Desks, NEW o \in Subjects, NEW n \in Unreviewed(o), NEW approve \in BOOLEAN
  PROVE  /\ AuditJob(o, n, approve) \in DeskType
         /\ AuditJob(o, n, approve).subject = o /\ AuditJob(o, n, approve).n = n
         /\ AuditJob(o, n, approve).pc \in {"reject", "find", "apply"}
<1>1. NoDesk \in DeskType
  BY NoDeskType
<1>2. n \in Nat
  BY DEF Unreviewed, RShape
<1>3. CASE ~approve
  BY <1>1, <1>2, <1>3 DEF AuditJob, DeskType, DeskPCs, AuditPCs
<1>4. CASE approve /\ KindOf[o] = "tag"
  BY <1>1, <1>2, <1>4 DEF AuditJob, DeskType, DeskPCs, AuditPCs
<1>5. CASE approve /\ KindOf[o] # "tag"
  BY <1>1, <1>2, <1>5 DEF AuditJob, DeskType, DeskPCs, AuditPCs
<1> QED BY <1>3, <1>4, <1>5

(* The statements between the first and the last of a request. *)
LEMMA GotoShape ==
  ASSUME RShape, NEW w \in Desks, NEW pc \in DeskPCs \ {"idle"}, DeskGoto(w, pc),
         desk[w].pc # "idle",
         pc \in AuditPCs \cup RewardPCs => desk[w].pc \in AuditPCs \cup RewardPCs,
         pc \in {"text", "second"} => desk[w].direct,
         body' \in [Subjects -> Bodies],
         revisions' \in [Subjects -> Seq(RevisionRows)],
         \A u \in Subjects : DOMAIN revisions[u] \subseteq DOMAIN revisions'[u],
         rankLocks' \subseteq Suggesters,
         deskWork' \in 0..MaxDeskWork, slips' \in 0..MaxSlips, contested' \subseteq Subjects
  PROVE  RShape'
<1>1. /\ desk' \in [Desks -> DeskType] /\ Others(w)
      /\ desk'[w].pc = pc /\ desk'[w].subject = desk[w].subject /\ desk'[w].n = desk[w].n
      /\ desk'[w].direct = desk[w].direct
  BY GotoType
<1>2. Numbered(w) /\ desk[w].subject \in Subjects
  BY DEF RShape, RTypeOK, Numbered
<1>3. Numbered(w)'
  BY <1>1, <1>2 DEF Numbered
<1> QED BY <1>1, <1>3, ShapeStep

LEMMA DoneShape ==
  ASSUME RShape, NEW w \in Desks, DeskDone(w),
         body' \in [Subjects -> Bodies],
         revisions' \in [Subjects -> Seq(RevisionRows)],
         \A u \in Subjects : DOMAIN revisions[u] \subseteq DOMAIN revisions'[u],
         rankLocks' \subseteq Suggesters,
         deskWork' \in 0..MaxDeskWork, slips' \in 0..MaxSlips, contested' \subseteq Subjects
  PROVE  RShape'
<1>1. desk' \in [Desks -> DeskType] /\ Others(w) /\ desk'[w].pc = "idle" /\ desk'[w].subject = NoSubject
  BY DoneType
<1>2. Numbered(w)'
  BY <1>1 DEF Numbered, AuditPCs, RewardPCs
<1> QED BY <1>1, <1>2, ShapeStep

Typed ==
  /\ body \in [Subjects -> Bodies] /\ revisions \in [Subjects -> Seq(RevisionRows)]
  /\ rankLocks \subseteq Suggesters
  /\ deskWork \in 0..MaxDeskWork /\ slips \in 0..MaxSlips /\ contested \subseteq Subjects

LEMMA TypedIs == RShape => Typed
BY DEF RShape, RTypeOK, Typed

LEMMA ReadShape ==
  ASSUME RShape, NEW w \in Desks, ReadContent(w) \/ ReadLabels(w)
  PROVE  RShape'
<1>1. desk[w].pc \in EditPCs /\ UNCHANGED <<body, revisions, rankLocks, deskWork, slips, contested>>
  BY DEF ReadContent, ReadLabels, DeskRest, EditPCs
<1>2. DeskDone(w) \/ \E pc \in {"labels", "text", "add"} :
                       DeskGoto(w, pc) /\ (pc = "text" => desk[w].direct)
  BY DEF ReadContent, ReadLabels, Ignored, AfterReading
<1>3. CASE DeskDone(w)
  BY <1>1, <1>3, TypedIs, DoneShape DEF Typed
<1>4. CASE \E pc \in {"labels", "text", "add"} : DeskGoto(w, pc) /\ (pc = "text" => desk[w].direct)
  <2>1. PICK pc \in {"labels", "text", "add"} : DeskGoto(w, pc) /\ (pc = "text" => desk[w].direct)
    BY <1>4
  <2>2. pc \in DeskPCs \ {"idle"} /\ pc \notin AuditPCs \cup RewardPCs /\ desk[w].pc # "idle"
    BY <1>1 DEF DeskPCs, EditPCs, AuditPCs, RewardPCs
  <2> QED BY <1>1, <2>1, <2>2, TypedIs, GotoShape DEF Typed
<1> QED BY <1>2, <1>3, <1>4

(* Content is written whole or in part. *)
LEMMA WritesText ==
  ASSUME Typed, NEW o \in Subjects, NEW t \in Texts, body' = [body EXCEPT ![o].text = t]
  PROVE  /\ body' \in [Subjects -> Bodies] /\ \A u \in Subjects \ {o} : body'[u] = body[u]
         /\ body'[o].text = t /\ body'[o].label = body[o].label
<1>1. body[o] \in Bodies /\ body'[o] = [body[o] EXCEPT !.text = t]
  BY DEF Typed
<1>2. body'[o] \in Bodies /\ body'[o].text = t /\ body'[o].label = body[o].label
  BY <1>1 DEF Bodies
<1> QED BY <1>2 DEF Typed

LEMMA WritesTag ==
  ASSUME Typed, NEW o \in Subjects, NEW t \in Texts, NEW l \in Labels, UpdateTag(o, t, l)
  PROVE  /\ body' \in [Subjects -> Bodies] /\ \A u \in Subjects \ {o} : body'[u] = body[u]
         /\ body'[o].text = IF t = NoText THEN body[o].text ELSE t
<1> DEFINE new == [text |-> IF t = NoText THEN body[o].text ELSE t,
                   label |-> IF l = NoLabel THEN body[o].label ELSE l]
<1>1. body[o] \in Bodies /\ body[o].text \in Texts /\ body[o].label \in Labels
  BY DEF Typed, Bodies
<1>2. new \in Bodies
  BY <1>1 DEF Bodies
<1>3. body' = [body EXCEPT ![o] = new]
  BY DEF UpdateTag
<1> QED BY <1>2, <1>3 DEF Typed

LEMMA WritesLabel ==
  ASSUME Typed, NEW o \in Subjects, NEW c \in Bodies, WriteLabel(o, c)
  PROVE  /\ body' \in [Subjects -> Bodies] /\ \A u \in Subjects \ {o} : body'[u] = body[u]
         /\ body'[o].text = body[o].text
         /\ KindOf[o] = "question" => body'[o].label = c.label
<1>1. CASE KindOf[o] = "question"
  <2>1. body[o] \in Bodies /\ body' = [body EXCEPT ![o].label = c.label]
    BY <1>1 DEF Typed, WriteLabel
  <2>2. body'[o] = [body[o] EXCEPT !.label = c.label]
    BY <2>1 DEF Typed
  <2>3. body'[o] \in Bodies /\ body'[o].text = body[o].text /\ body'[o].label = c.label
    BY <2>1, <2>2 DEF Bodies
  <2> QED BY <2>1, <2>3 DEF Typed
<1>2. CASE KindOf[o] # "question"
  BY <1>2 DEF Typed, WriteLabel
<1> QED BY <1>1, <1>2

LEMMA EditWritesShape ==
  ASSUME RShape, NEW w \in Desks, WriteText(w) \/ WriteSecond(w)
  PROVE  RShape' /\ body' \in [Subjects -> Bodies]
<1>1. /\ desk[w].pc \in {"text", "second"}
      /\ UNCHANGED <<revisions, rankLocks, deskWork, slips, contested>>
  BY DEF WriteText, WriteSecond, DeskRest
<1>2. desk[w].to \in Bodies /\ desk[w].to.text \in Texts /\ desk[w].to.label \in Labels
  BY DEF RShape, RTypeOK, Bodies
<1>3. body' \in [Subjects -> Bodies]
  <2>1. desk[w].subject \in Subjects /\ Typed
    BY <1>1, TypedIs DEF RShape, RTypeOK, Numbered
  <2>2. CASE WriteText(w) /\ KindOf[desk[w].subject] = "tag"
    BY <1>2, <2>1, <2>2, WritesTag DEF WriteText
  <2>3. CASE WriteText(w) /\ KindOf[desk[w].subject] # "tag"
    <3>1. body' = [body EXCEPT ![desk[w].subject].text = desk[w].to.text]
      BY <2>3 DEF WriteText
    <3> QED BY <1>2, <2>1, <3>1, WritesText
  <2>4. CASE WriteSecond(w)
    BY <1>2, <2>1, <2>4, WritesLabel DEF WriteSecond
  <2> QED BY <2>2, <2>3, <2>4
<1>4. PICK pc \in {"second", "add"} : DeskGoto(w, pc)
  BY DEF WriteText, WriteSecond
<1>5. /\ pc \in DeskPCs \ {"idle"} /\ pc \notin AuditPCs \cup RewardPCs /\ desk[w].pc # "idle"
      /\ desk[w].direct
  BY <1>1 DEF DeskPCs, EditPCs, AuditPCs, RewardPCs, RShape, Numbered
<1> QED BY <1>1, <1>3, <1>4, <1>5, TypedIs, GotoShape DEF Typed

LEMMA AuditWritesShape ==
  ASSUME RShape, NEW w \in Desks, ApplyText(w) \/ ApplySecond(w)
  PROVE  RShape' /\ body' \in [Subjects -> Bodies]
<1>1. /\ desk[w].pc \in {"apply", "apply_second"}
      /\ UNCHANGED <<revisions, rankLocks, deskWork, slips, contested>>
  BY DEF ApplyText, ApplySecond, DeskRest
<1>2. Audited(w).text \in Texts /\ Audited(w).label \in Labels
  BY <1>1, AuditedType DEF AuditPCs, Bodies
<1>3. body' \in [Subjects -> Bodies]
  <2>1. desk[w].subject \in Subjects /\ Typed /\ Audited(w) \in Bodies
    BY <1>1, TypedIs, AuditedType DEF AuditPCs
  <2>2. CASE ApplyText(w) /\ KindOf[desk[w].subject] = "tag"
    BY <1>2, <2>1, <2>2, WritesTag DEF ApplyText
  <2>4. CASE ApplyText(w) /\ KindOf[desk[w].subject] # "tag"
    <3>1. body' = [body EXCEPT ![desk[w].subject].text = Audited(w).text]
      BY <2>4 DEF ApplyText
    <3> QED BY <1>2, <2>1, <3>1, WritesText
  <2>3. CASE ApplySecond(w)
    BY <2>1, <2>3, WritesLabel DEF ApplySecond
  <2> QED BY <2>2, <2>3, <2>4
<1>4. PICK pc \in {"apply_second", "pass"} : DeskGoto(w, pc)
  BY DEF ApplyText, ApplySecond
<1>5. pc \in DeskPCs \ {"idle"} /\ desk[w].pc \in AuditPCs /\ desk[w].pc # "idle"
  BY <1>1 DEF DeskPCs, EditPCs, AuditPCs, RewardPCs
<1> QED BY <1>1, <1>3, <1>4, <1>5, TypedIs, GotoShape DEF Typed

LEMMA FindShape ==
  ASSUME RShape, NEW w \in Desks, FindSubject(w) \/ FindSubjectFails(w)
  PROVE  RShape'
<1>1. /\ desk[w].pc = "find" /\ UNCHANGED <<body, revisions, rankLocks, deskWork>>
      /\ slips' \in 0..MaxSlips /\ contested' \subseteq Subjects
  BY AuditedType, TypedIs DEF FindSubject, FindSubjectFails, DeskRest, Typed, AuditPCs
<1>2. PICK pc \in {"apply", "pass"} : DeskGoto(w, pc)
  BY DEF FindSubject, FindSubjectFails
<1>3. pc \in DeskPCs \ {"idle"} /\ desk[w].pc \in AuditPCs /\ desk[w].pc # "idle"
  BY <1>1 DEF DeskPCs, AuditPCs
<1> QED BY <1>1, <1>2, <1>3, TypedIs, GotoShape DEF Typed

LEMMA AddedShape ==
  ASSUME RShape, NEW w \in Desks, AddRevision(w)
  PROVE  RShape'
<1> DEFINE row == [content |-> desk[w].to, by |-> desk[w].by, rewards |-> 0,
                   status |-> IF desk[w].direct THEN "passed" ELSE "unreviewed"]
<1>1. desk[w].pc = "add" /\ revisions' = [revisions EXCEPT ![desk[w].subject] = Append(@, row)]
  BY DEF AddRevision
<1>2. DeskDone(w) /\ UNCHANGED <<body, rankLocks, deskWork, slips, contested>>
  BY DEF AddRevision, DeskRest
<1>3. desk[w].subject \in Subjects /\ row \in RevisionRows
  BY <1>1 DEF RShape, RTypeOK, Numbered, RevisionRows
<1> HIDE DEF row
<1>4. /\ revisions' \in [Subjects -> Seq(RevisionRows)]
      /\ \A u \in Subjects \ {desk[w].subject} : revisions'[u] = revisions[u]
      /\ DOMAIN revisions'[desk[w].subject]
           = DOMAIN revisions[desk[w].subject] \cup {Len(revisions[desk[w].subject]) + 1}
  BY <1>1, <1>3, RowAdded
<1>5. \A u \in Subjects : DOMAIN revisions[u] \subseteq DOMAIN revisions'[u]
  BY <1>4
<1> QED BY <1>2, <1>4, <1>5, TypedIs, DoneShape DEF Typed

LEMMA SettledShape ==
  ASSUME RShape, NEW w \in Desks, Reject(w) \/ Pass(w)
  PROVE  RShape'
<1>1. PICK verdict \in {"passed", "rejected"} : Settle(w, verdict)
  BY DEF Reject, Pass
<1>2. desk[w].pc \in AuditPCs /\ UNCHANGED <<body, rankLocks, deskWork, slips, contested>>
  BY DEF Reject, Pass, DeskRest, AuditPCs
<1>3. /\ SettledRow(w, verdict) \in RevisionRows
      /\ revisions' = [revisions EXCEPT ![desk[w].subject][desk[w].n] = SettledRow(w, verdict)]
  BY <1>1, <1>2, SettleIs
<1>4. /\ revisions' \in [Subjects -> Seq(RevisionRows)]
      /\ \A u \in Subjects : DOMAIN revisions[u] \subseteq DOMAIN revisions'[u]
  BY <1>2, <1>3, AuditedType, RowWritten
<1>5. CASE Reject(w)
  BY <1>2, <1>4, <1>5, TypedIs, DoneShape DEF Typed, Reject
<1>6. CASE Pass(w)
  <2>1. DeskGoto(w, "reward") /\ "reward" \in DeskPCs \ {"idle"} /\ desk[w].pc # "idle"
    BY <1>6 DEF Pass, DeskPCs
  <2> QED BY <1>2, <1>4, <2>1, TypedIs, GotoShape DEF Typed
<1> QED BY <1>5, <1>6

LEMMA LockShape ==
  ASSUME RShape, NEW w \in Desks, LockAuthor(w)
  PROVE  RShape'
<1>1. /\ desk[w].pc = "reward" /\ UNCHANGED <<body, revisions, deskWork, slips, contested>>
      /\ AuditedBy(w) \in Suggesters
  BY AuditedType DEF LockAuthor, DeskRest, RewardPCs
<1>2. \/ DeskDone(w) /\ rankLocks' = rankLocks
      \/ DeskGoto(w, "book") /\ rankLocks' = rankLocks \cup {AuditedBy(w)}
  BY DEF LockAuthor
<1>3. CASE DeskDone(w) /\ rankLocks' = rankLocks
  BY <1>1, <1>3, TypedIs, DoneShape DEF Typed
<1>4. CASE DeskGoto(w, "book") /\ rankLocks' = rankLocks \cup {AuditedBy(w)}
  <2>1. "book" \in DeskPCs \ {"idle"} /\ desk[w].pc \in RewardPCs /\ rankLocks' \subseteq Suggesters
    BY <1>1, <1>4, TypedIs DEF DeskPCs, RewardPCs, Typed
  <2> QED BY <1>1, <1>4, <2>1, TypedIs, GotoShape DEF Typed
<1> QED BY <1>2, <1>3, <1>4

LEMMA BookShape ==
  ASSUME RShape, NEW w \in Desks, BookReward(w)
  PROVE  RShape'
<1>1. /\ desk[w].pc \in RewardPCs /\ DeskDone(w)
      /\ UNCHANGED <<body, deskWork, slips, contested>> /\ rankLocks' \subseteq rankLocks
  BY DEF BookReward, DeskRest, RewardPCs
<1>2. /\ RewardedRow(w) \in RevisionRows
      /\ revisions' = [revisions EXCEPT ![desk[w].subject][desk[w].n] = RewardedRow(w)]
  BY RewardIs
<1>3. /\ revisions' \in [Subjects -> Seq(RevisionRows)]
      /\ \A u \in Subjects : DOMAIN revisions[u] \subseteq DOMAIN revisions'[u]
  BY <1>1, <1>2, AuditedType, RowWritten
<1> QED BY <1>1, <1>3, TypedIs, DoneShape DEF Typed

LEMMA BreakShape ==
  ASSUME RShape, NEW w \in Desks, DeskBreaksOff(w)
  PROVE  RShape'
<1>1. /\ DeskDone(w) /\ UNCHANGED <<body, revisions, deskWork>> /\ desk[w].pc # "idle"
      /\ slips' \in 0..MaxSlips /\ rankLocks' \subseteq Suggesters
  BY TypedIs DEF DeskBreaksOff, Typed
<1>2. desk[w].subject \in Subjects
  BY <1>1 DEF RShape, RTypeOK, Numbered
<1>3. contested' \subseteq Subjects
  BY <1>2, TypedIs DEF DeskBreaksOff, Typed
<1> QED BY <1>1, <1>3, TypedIs, DoneShape DEF Typed

LEMMA ArrivalShape ==
  ASSUME RShape, NEW w \in Desks, NEW o \in Subjects,
         \/ \E u \in Suggesters, c \in Bodies, direct \in BOOLEAN : Edit(w, o, u, c, direct)
         \/ \E n \in Unreviewed(o), approve \in BOOLEAN : RevisionAudit(w, o, n, approve)
  PROVE  RShape'
<1>1. CASE \E u \in Suggesters, c \in Bodies, direct \in BOOLEAN : Edit(w, o, u, c, direct)
  <2>1. PICK u \in Suggesters, c \in Bodies, direct \in BOOLEAN : Edit(w, o, u, c, direct)
    BY <1>1
  <2> DEFINE job == [pc |-> "read", subject |-> o, n |-> 0, to |-> c, by |-> u, direct |-> direct]
  <2>2. DeskArrives(w, job, EditPCs)
    BY <2>1 DEF Edit
  <2>3. job \in DeskType /\ job.subject \in Subjects /\ job.pc \notin {"idle", "text", "second"}
        /\ job.pc \notin AuditPCs \cup RewardPCs
    BY DEF DeskType, DeskPCs, EditPCs, AuditPCs, RewardPCs
  <2> HIDE DEF job
  <2> QED BY <2>2, <2>3, ArrivesShape
<1>2. CASE \E n \in Unreviewed(o), approve \in BOOLEAN : RevisionAudit(w, o, n, approve)
  <2>1. PICK n \in Unreviewed(o), approve \in BOOLEAN : RevisionAudit(w, o, n, approve)
    BY <1>2
  <2>2. n \in DOMAIN revisions[o] /\ DeskArrives(w, AuditJob(o, n, approve), AuditPCs)
    BY <2>1 DEF RevisionAudit, Unreviewed
  <2> QED BY <2>1, <2>2, AuditJobIs, ArrivesShape
<1> QED BY <1>1, <1>2

-----------------------------------------------------------------------------
(* Rewards.  Whoever leaves the author and the reward of every revision alone does
   not disturb those who are rewarding. *)
RewardsKept ==
  /\ \A o \in Subjects : \A n \in DOMAIN revisions[o] :
       /\ n \in DOMAIN revisions'[o]
       /\ revisions'[o][n].by = revisions[o][n].by
       /\ revisions'[o][n].rewards = revisions[o][n].rewards
  /\ \A o \in Subjects : \A n \in DOMAIN revisions'[o] :
       n \notin DOMAIN revisions[o] => revisions'[o][n].rewards = 0

LEMMA RewardStep ==
  ASSUME RShape, RewardInv, NEW w \in Desks, Others(w), desk'[w].pc # "book", RewardsKept,
         \/ rankLocks' = rankLocks
         \/ desk[w].pc = "book" /\ rankLocks' = rankLocks \ {AuditedBy(w)}
  PROVE  RewardInv'
<1>1. \A o \in Subjects : \A n \in DOMAIN revisions'[o] : revisions'[o][n].rewards <= 1
  <2> SUFFICES ASSUME NEW o \in Subjects, NEW n \in DOMAIN revisions'[o]
               PROVE  revisions'[o][n].rewards <= 1
    OBVIOUS
  <2>1. CASE n \in DOMAIN revisions[o]
    BY <2>1 DEF RewardsKept, RewardInv
  <2>2. CASE n \notin DOMAIN revisions[o]
    BY <2>2 DEF RewardsKept
  <2> QED BY <2>1, <2>2
<1>2. ASSUME NEW v \in Desks, Booking(v)'
      PROVE  /\ v # w /\ Booking(v) /\ AuditedBy(v)' = AuditedBy(v)
             /\ revisions'[desk'[v].subject][desk'[v].n].rewards
                  = revisions[desk[v].subject][desk[v].n].rewards
  <2>1. v # w /\ desk'[v] = desk[v] /\ Booking(v)
    BY <1>2 DEF Booking, Others
  <2>2. desk[v].subject \in Subjects /\ desk[v].n \in DOMAIN revisions[desk[v].subject]
    BY <2>1, AuditedType DEF Booking, RewardPCs
  <2> QED BY <2>1, <2>2 DEF RewardsKept, AuditedBy
<1>3. ASSUME NEW v \in Desks, Booking(v)'
      PROVE  AuditedBy(v)' \in rankLocks'
  BY <1>2, <1>3 DEF RewardInv, Booking
<1>4. \A v \in Desks : Booking(v)' => revisions'[desk'[v].subject][desk'[v].n].rewards = 0
  BY <1>2 DEF RewardInv
<1>5. \A u, v \in Desks : Booking(u)' /\ Booking(v)' /\ AuditedBy(u)' = AuditedBy(v)' => u = v
  BY <1>2 DEF RewardInv
<1> QED BY <1>1, <1>3, <1>4, <1>5 DEF RewardInv

LEMMA UnchangedRewards == ASSUME RShape, revisions' = revisions PROVE RewardsKept
BY DEF RewardsKept

LEMMA AddedRewards == ASSUME RShape, NEW w \in Desks, AddRevision(w) PROVE RewardsKept
<1> DEFINE row == [content |-> desk[w].to, by |-> desk[w].by, rewards |-> 0,
                   status |-> IF desk[w].direct THEN "passed" ELSE "unreviewed"]
<1>1. desk[w].pc = "add" /\ revisions' = [revisions EXCEPT ![desk[w].subject] = Append(@, row)]
  BY DEF AddRevision
<1>2. desk[w].subject \in Subjects /\ row \in RevisionRows /\ row.rewards = 0
  BY <1>1 DEF RShape, RTypeOK, Numbered, RevisionRows
<1> HIDE DEF row
<1>3. /\ \A u \in Subjects \ {desk[w].subject} : revisions'[u] = revisions[u]
      /\ DOMAIN revisions'[desk[w].subject]
           = DOMAIN revisions[desk[w].subject] \cup {Len(revisions[desk[w].subject]) + 1}
      /\ \A m \in DOMAIN revisions[desk[w].subject] :
           revisions'[desk[w].subject][m] = revisions[desk[w].subject][m]
      /\ revisions'[desk[w].subject][Len(revisions[desk[w].subject]) + 1] = row
  BY <1>1, <1>2, RowAdded
<1> QED BY <1>2, <1>3 DEF RewardsKept

LEMMA SettledRewards ==
  ASSUME RShape, NEW w \in Desks, NEW verdict \in {"passed", "rejected"},
         desk[w].pc \in AuditPCs, Settle(w, verdict)
  PROVE  RewardsKept
<1>1. /\ SettledRow(w, verdict) \in RevisionRows
      /\ SettledRow(w, verdict).by = AuditedBy(w)
      /\ SettledRow(w, verdict).rewards = revisions[desk[w].subject][desk[w].n].rewards
      /\ revisions' = [revisions EXCEPT ![desk[w].subject][desk[w].n] = SettledRow(w, verdict)]
  BY SettleIs
<1>2. /\ desk[w].subject \in Subjects /\ desk[w].n \in DOMAIN revisions[desk[w].subject]
  BY AuditedType
<1>3. /\ \A u \in Subjects \ {desk[w].subject} : revisions'[u] = revisions[u]
      /\ \A u \in Subjects : DOMAIN revisions'[u] = DOMAIN revisions[u]
      /\ \A m \in DOMAIN revisions[desk[w].subject] :
           revisions'[desk[w].subject][m] = IF m = desk[w].n THEN SettledRow(w, verdict)
                                            ELSE revisions[desk[w].subject][m]
  BY <1>1, <1>2, RowWritten
<1> QED BY <1>1, <1>2, <1>3 DEF RewardsKept, AuditedBy

LEMMA LockRewards ==
  ASSUME RShape, RewardInv, NEW w \in Desks, LockAuthor(w)
  PROVE  RewardInv'
<1>1. /\ desk[w].pc = "reward" /\ revisions' = revisions /\ AuditedBy(w) \notin rankLocks
      /\ desk[w].subject \in Subjects
      /\ revisions[desk[w].subject][desk[w].n].rewards \in Nat
  BY AuditedType DEF LockAuthor, RewardPCs, RevisionRows
<1>2. CASE DeskDone(w) /\ rankLocks' = rankLocks
  BY <1>1, <1>2, DoneType, UnchangedRewards, RewardStep
<1>3. CASE /\ DeskGoto(w, "book") /\ rankLocks' = rankLocks \cup {AuditedBy(w)}
           /\ ~(revisions[desk[w].subject][desk[w].n].rewards > 0)
  <2>1. /\ Others(w) /\ desk'[w].pc = "book" /\ desk'[w].subject = desk[w].subject
        /\ desk'[w].n = desk[w].n
    BY <1>3, GotoType DEF DeskPCs
  <2>2. AuditedBy(w)' = AuditedBy(w) /\ \A v \in Desks \ {w} : AuditedBy(v)' = AuditedBy(v)
    BY <1>1, <2>1 DEF AuditedBy, Others
  <2>3. \A v \in Desks \ {w} : Booking(v)' <=> Booking(v)
    BY <2>1 DEF Booking, Others
  <2>4. \A v \in Desks : Booking(v)' => /\ AuditedBy(v)' \in rankLocks'
                                      /\ revisions'[desk'[v].subject][desk'[v].n].rewards = 0
    BY <1>1, <1>3, <2>1, <2>2, <2>3 DEF RewardInv, Others
  <2>5. \A u, v \in Desks : Booking(u)' /\ Booking(v)' /\ AuditedBy(u)' = AuditedBy(v)' => u = v
    BY <1>1, <2>2, <2>3 DEF RewardInv
  <2> QED BY <1>1, <2>4, <2>5 DEF RewardInv
<1> QED BY <1>2, <1>3 DEF LockAuthor

LEMMA BookRewards ==
  ASSUME RShape, RewardInv, NEW w \in Desks, BookReward(w)
  PROVE  RewardInv'
<1> DEFINE o == desk[w].subject
           n == desk[w].n
<1>1. desk[w].pc = "book" /\ DeskDone(w) /\ rankLocks' = rankLocks \ {AuditedBy(w)}
  BY DEF BookReward
<1>2. o \in Subjects /\ n \in DOMAIN revisions[o] /\ revisions[o][n].rewards = 0
  BY <1>1, AuditedType DEF RewardPCs, RewardInv, Booking
<1>3. /\ RewardedRow(w) \in RevisionRows /\ RewardedRow(w).by = AuditedBy(w)
      /\ RewardedRow(w).rewards = 1
      /\ revisions' = [revisions EXCEPT ![o][n] = RewardedRow(w)]
  BY <1>2, RewardIs
<1>4. /\ \A u \in Subjects \ {o} : revisions'[u] = revisions[u]
      /\ \A u \in Subjects : DOMAIN revisions'[u] = DOMAIN revisions[u]
      /\ \A m \in DOMAIN revisions[o] :
           revisions'[o][m] = IF m = n THEN RewardedRow(w) ELSE revisions[o][m]
  BY <1>2, <1>3, RowWritten
<1>5. \A u \in Subjects : \A m \in DOMAIN revisions[u] :
        revisions'[u][m].by = revisions[u][m].by
  BY <1>2, <1>3, <1>4 DEF AuditedBy
<1>6. \A u \in Subjects : \A m \in DOMAIN revisions'[u] : revisions'[u][m].rewards <= 1
  BY <1>2, <1>3, <1>4 DEF RewardInv
<1>7. Others(w) /\ desk'[w].pc = "idle"
  BY <1>1, DoneType
<1>8. ASSUME NEW v \in Desks, Booking(v)'
      PROVE  /\ v # w /\ Booking(v) /\ AuditedBy(v)' = AuditedBy(v)
             /\ AuditedBy(v) # AuditedBy(w)
             /\ revisions'[desk'[v].subject][desk'[v].n].rewards = 0
  <2>1. v # w /\ desk'[v] = desk[v] /\ Booking(v)
    BY <1>7, <1>8 DEF Booking, Others
  <2>2. AuditedBy(v) # AuditedBy(w)
    BY <1>1, <2>1 DEF RewardInv, Booking
  <2>3. desk[v].subject \in Subjects /\ desk[v].n \in DOMAIN revisions[desk[v].subject]
    BY <2>1, AuditedType DEF Booking, RewardPCs
  <2>4. desk[v].subject # o \/ desk[v].n # n
    BY <2>2 DEF AuditedBy
  <2>5. AuditedBy(v)' = AuditedBy(v)
    BY <1>5, <2>1, <2>3 DEF AuditedBy
  <2>6. revisions'[desk[v].subject][desk[v].n] = revisions[desk[v].subject][desk[v].n]
    BY <1>2, <1>4, <2>3, <2>4
  <2> QED BY <2>1, <2>2, <2>5, <2>6 DEF RewardInv
<1>9. \A v \in Desks : Booking(v)' => AuditedBy(v)' \in rankLocks'
  BY <1>1, <1>8 DEF RewardInv
<1>10. \A u, v \in Desks : Booking(u)' /\ Booking(v)' /\ AuditedBy(u)' = AuditedBy(v)' => u = v
  BY <1>8 DEF RewardInv
<1> QED BY <1>6, <1>8, <1>9, <1>10 DEF RewardInv

-----------------------------------------------------------------------------
(* Order.  A step is about one object, and only that one can get out of order. *)
LEMMA OrderStep ==
  ASSUME RShape, OrderInv, NEW w \in Desks, Others(w), NEW s \in Subjects,
         desk[w].subject \in {s, NoSubject}, desk'[w].subject \in {s, NoSubject},
         \A u \in Subjects \ {s} : body'[u] = body[u] /\ revisions'[u] = revisions[u],
         contested \subseteq contested',
         s \notin contested' => InOrder(s)'
  PROVE  OrderInv'
<1> SUFFICES ASSUME NEW o \in Subjects \ contested' PROVE InOrder(o)'
  BY DEF OrderInv
<1>1. CASE o = s
  BY <1>1
<1>2. CASE o # s
  <2>1. InOrder(o) /\ desk[w].subject # o /\ desk'[w].subject # o
    BY <1>2 DEF OrderInv
  <2> QED BY <1>2, <2>1, Elsewhere DEF Others
<1> QED BY <1>1, <1>2

(* Beside whoever works on an object there are only rewards. *)
LEMMA Alone ==
  ASSUME RShape, NEW o \in Subjects, InOrder(o), NEW w \in Desks, Works(w, o),
         NEW v \in Desks \ {w}, desk[v].subject = o
  PROVE  desk[v].pc \in RewardPCs
<1>1. ~Works(v, o)
  BY DEF InOrder, OneWorks
<1>2. desk[v].pc \in DeskPCs /\ desk[v].pc # "idle"
  BY DEF RShape, RTypeOK, Numbered
<1> QED BY <1>1, <1>2 DEF Works, DeskPCs, RewardPCs

(* Statements that write neither the object nor a revision of it. *)
LEMMA QuietOrder ==
  ASSUME RShape, NEW o \in Subjects, InOrder(o), NEW w \in Desks, Others(w),
         desk[w].subject = o, ~Halfway(w),
         body'[o] = body[o], revisions'[o] = revisions[o],
         \/ desk'[w].subject = NoSubject
         \/ /\ desk'[w].subject = o /\ desk'[w].n = desk[w].n /\ ~Halfway(w)'
            /\ desk'[w].pc \in EditPCs => desk[w].pc \in EditPCs
            /\ desk'[w].pc \in AuditPCs => desk[w].pc \in AuditPCs
            /\ desk'[w].pc \in RewardPCs => desk[w].pc \in RewardPCs
  PROVE  InOrder(o)'
<1>1. Unreviewed(o)' = Unreviewed(o) /\ Passed(o)' = Passed(o) /\ Worded(o)' = Worded(o)
  BY SameRows
<1>2. \A v \in Desks : Works(v, o)' => Works(v, o)
  BY DEF Works, Others
<1>3. OneWorks(o)'
  BY <1>2 DEF InOrder, OneWorks
<1>4. WaitingLast(o)'
  BY <1>1 DEF InOrder, WaitingLast, Others
<1>5. RewardsPassed(o)'
  BY <1>1 DEF InOrder, RewardsPassed, Others
<1>6. \A v \in Desks \ {w} : desk[v].subject = o => desk'[v] = desk[v] /\ Writes(v)' = Writes(v)
  BY DEF Others, Writes, Audited
<1>7. ShowsNewest(o)'
  <2>1. \A v \in Desks : Replaces(v, o) => Replaces(v, o)'
    BY <1>6 DEF Replaces, Halfway
  <2>2. PICK p \in Worded(o) : /\ Newest(o, p)
                              /\ \/ \E v \in Desks : Replaces(v, o)
                                 \/ Shows(o, revisions[o][p].content)
    BY DEF InOrder, ShowsNewest
  <2>3. Newest(o, p)' /\ p \in Worded(o)'
    BY <1>1, <2>2 DEF Newest
  <2>4. Shows(o, revisions[o][p].content) => Shows(o, revisions[o][p].content)'
    BY DEF Shows
  <2> QED BY <2>1, <2>2, <2>3, <2>4 DEF ShowsNewest
<1>8. ShowsWritten(o)'
  <2>1. \A v \in Desks : desk'[v].subject = o /\ Halfway(v)' => v # w /\ desk'[v] = desk[v]
    BY DEF Others
  <2> QED BY <1>6, <2>1 DEF InOrder, ShowsWritten, TextWritten, LabelWritten, Halfway
<1> QED BY <1>3, <1>4, <1>5, <1>7, <1>8 DEF InOrder

(* A request that comes is the only one that works on its object. *)
LEMMA ArrivalOrder ==
  ASSUME RShape, NEW o \in Subjects, InOrder(o), NEW w \in Desks, Others(w),
         desk[w].pc = "idle", desk'[w].subject = o, ~Halfway(w)',
         body'[o] = body[o], revisions'[o] = revisions[o],
         \A v \in Desks : ~Works(v, o),
         \/ desk'[w].pc \in EditPCs /\ Unreviewed(o) = {}
         \/ desk'[w].pc \in AuditPCs /\ desk'[w].n \in Unreviewed(o)
  PROVE  InOrder(o)'
<1>1. Unreviewed(o)' = Unreviewed(o) /\ Passed(o)' = Passed(o) /\ Worded(o)' = Worded(o)
  BY SameRows
<1>2. OneWorks(o)'
  BY DEF OneWorks, Works, Others
<1>3. WaitingLast(o)'
  BY <1>1 DEF InOrder, WaitingLast, Others, EditPCs, AuditPCs
<1>4. RewardsPassed(o)'
  BY <1>1 DEF InOrder, RewardsPassed, Others, EditPCs, AuditPCs, RewardPCs
<1>5. \A v \in Desks : desk[v].subject = o => ~Halfway(v)
  BY DEF Works, Halfway, EditPCs, AuditPCs
<1>6. ShowsNewest(o)'
  <2>1. PICK p \in Worded(o) : Newest(o, p) /\ Shows(o, revisions[o][p].content)
    BY <1>5 DEF InOrder, ShowsNewest, Replaces
  <2>2. Newest(o, p)' /\ Shows(o, revisions[o][p].content)'
    BY <1>1, <2>1 DEF Newest, Shows
  <2> QED BY <1>1, <2>1, <2>2 DEF ShowsNewest
<1>7. ShowsWritten(o)'
  <2>1. \A v \in Desks : desk'[v].subject = o => ~Halfway(v)'
    BY <1>5 DEF Others, Halfway
  <2> QED BY <2>1 DEF ShowsWritten, Halfway
<1> QED BY <1>2, <1>3, <1>4, <1>6, <1>7 DEF InOrder

(* Content is written between a read and a row of revision. *)
LEMMA WritingOrder ==
  ASSUME RShape, NEW o \in Subjects, InOrder(o), NEW w \in Desks, Others(w), Works(w, o),
         desk'[w].subject = o, desk'[w].n = desk[w].n, desk'[w].to = desk[w].to, Halfway(w)',
         \/ desk[w].pc \in EditPCs /\ desk'[w].pc \in EditPCs
         \/ desk[w].pc \in AuditPCs /\ desk'[w].pc \in AuditPCs,
         revisions'[o] = revisions[o],
         ~HasText(o, Writes(w)) => body'[o].text = body[o].text,
         TextWritten(w, o)', desk'[w].pc \in {"add", "pass"} => LabelWritten(w, o)'
  PROVE  InOrder(o)'
<1>0. \A v \in Desks \ {w} : desk[v].subject = o => desk[v].pc \in RewardPCs
  BY Alone
<1>1. Unreviewed(o)' = Unreviewed(o) /\ Passed(o)' = Passed(o) /\ Worded(o)' = Worded(o)
  BY SameRows
<1>2. OneWorks(o)'
  BY <1>0 DEF OneWorks, Works, Others, RewardPCs, EditPCs, AuditPCs
<1>3. WaitingLast(o)'
  BY <1>1 DEF InOrder, WaitingLast, Others, Works, EditPCs, AuditPCs
<1>4. RewardsPassed(o)'
  BY <1>1 DEF InOrder, RewardsPassed, Others, RewardPCs, EditPCs, AuditPCs
<1>5. Writes(w)' = Writes(w)
  BY DEF Writes, Works, Audited, EditPCs, AuditPCs
<1>6. ShowsNewest(o)'
  <2>1. PICK p \in Worded(o) : /\ Newest(o, p)
                              /\ \/ \E v \in Desks : Replaces(v, o)
                                 \/ Shows(o, revisions[o][p].content)
    BY DEF InOrder, ShowsNewest
  <2>2. Newest(o, p)' /\ p \in Worded(o)'
    BY <1>1, <2>1 DEF Newest
  <2>3. CASE HasText(o, Writes(w))
    <3>1. Replaces(w, o)'
      BY <1>5, <2>3 DEF Replaces, HasText
    <3> QED BY <2>2, <3>1 DEF ShowsNewest
  <2>4. CASE ~HasText(o, Writes(w))
    <3>1. \A v \in Desks : ~Replaces(v, o)
      BY <1>0, <2>4 DEF Replaces, Halfway, RewardPCs
    <3>2. Shows(o, revisions[o][p].content) /\ KindOf[o] = "tag"
      BY <2>1, <2>4, <3>1 DEF HasText
    <3>3. Shows(o, revisions[o][p].content)'
      BY <2>4, <3>2 DEF Shows
    <3> QED BY <2>2, <3>3 DEF ShowsNewest
  <2> QED BY <2>3, <2>4
<1>7. ShowsWritten(o)'
  <2>1. \A v \in Desks : desk'[v].subject = o /\ Halfway(v)' => v = w
    BY <1>0 DEF Others, Halfway, RewardPCs
  <2> QED BY <1>5, <2>1 DEF ShowsWritten
<1> QED BY <1>2, <1>3, <1>4, <1>6, <1>7 DEF InOrder

(* A verdict: the revision no longer waits, and shows if it passes. *)
LEMMA SettledOrder ==
  ASSUME RShape, NEW o \in Subjects, InOrder(o), NEW w \in Desks, Others(w),
         desk[w].subject = o, NEW verdict \in {"passed", "rejected"}, Settle(w, verdict),
         body'[o] = body[o],
         \/ verdict = "rejected" /\ desk[w].pc = "reject" /\ desk'[w].subject = NoSubject
         \/ /\ verdict = "passed" /\ desk[w].pc = "pass" /\ desk'[w].pc = "reward"
            /\ desk'[w].n = desk[w].n
  PROVE  InOrder(o)'
<1> DEFINE n == desk[w].n
<1>0. Works(w, o) /\ desk[w].pc \in AuditPCs /\ n \in Unreviewed(o)
  BY DEF Works, AuditPCs, InOrder, WaitingLast
<1>1. \A v \in Desks \ {w} : desk[v].subject = o => desk[v].pc \in RewardPCs
  BY <1>0, Alone
<1>2. /\ SettledRow(w, verdict) \in RevisionRows
      /\ SettledRow(w, verdict).status = verdict
      /\ SettledRow(w, verdict).content = Audited(w)
      /\ SettledRow(w, verdict).rewards = revisions[o][n].rewards
      /\ revisions' = [revisions EXCEPT ![o][n] = SettledRow(w, verdict)]
  BY <1>0, SettleIs
<1>3. n \in DOMAIN revisions[o] /\ n = Len(revisions[o]) /\ n \in Nat
      /\ \A m \in DOMAIN revisions[o] : m \in Nat /\ m <= n
  BY <1>0 DEF Unreviewed, InOrder, WaitingLast, RShape
<1>4. /\ Len(revisions'[o]) = Len(revisions[o])
      /\ DOMAIN revisions'[o] = DOMAIN revisions[o]
      /\ \A m \in DOMAIN revisions[o] :
           revisions'[o][m] = IF m = n THEN SettledRow(w, verdict) ELSE revisions[o][m]
  BY <1>2, <1>3, RowWritten
<1>5. Unreviewed(o)' = {} /\ n \notin Passed(o)
  BY <1>0, <1>2, <1>3, <1>4 DEF Unreviewed, Passed, InOrder, WaitingLast
<1>6. Passed(o)' = IF verdict = "passed" THEN Passed(o) \cup {n} ELSE Passed(o)
  BY <1>2, <1>3, <1>4, <1>5 DEF Passed
<1>7. /\ \A m \in DOMAIN revisions[o] : /\ revisions'[o][m].content = revisions[o][m].content
                                         /\ revisions'[o][m].rewards = revisions[o][m].rewards
  BY <1>2, <1>4 DEF Audited
<1>8. \A v \in Desks : ~Works(v, o)'
  BY <1>1 DEF Works, Others, RewardPCs, EditPCs, AuditPCs
<1>9. OneWorks(o)' /\ WaitingLast(o)' /\ ShowsWritten(o)'
  BY <1>5, <1>8 DEF OneWorks, WaitingLast, ShowsWritten, Works, Halfway, EditPCs, AuditPCs
<1>10. RewardsPassed(o)'
  <2>1. \A v \in Desks : desk'[v].subject = o /\ desk'[v].pc \in RewardPCs => desk'[v].n \in Passed(o)'
    BY <1>6 DEF InOrder, RewardsPassed, Others
  <2>2. \A m \in DOMAIN revisions'[o] : revisions'[o][m].rewards = 1 => m \in Passed(o)'
    BY <1>4, <1>6, <1>7 DEF InOrder, RewardsPassed
  <2> QED BY <2>1, <2>2 DEF RewardsPassed
<1>11. Worded(o)' = IF verdict = "passed" /\ (n = 1 \/ HasText(o, Audited(w)))
                    THEN Worded(o) \cup {n} ELSE Worded(o)
  <2>1. \A m \in Passed(o) : m \in DOMAIN revisions[o] /\ m # n
    BY <1>5 DEF Passed
  <2>2. n \in Worded(o)' <=> verdict = "passed" /\ (n = 1 \/ HasText(o, Audited(w)))
    BY <1>2, <1>3, <1>4, <1>5, <1>6 DEF Worded, HasText
  <2>3. \A m \in Passed(o) : m \in Worded(o)' <=> m \in Worded(o)
    BY <1>6, <1>7, <2>1 DEF Worded, HasText
  <2>4. Worded(o) \subseteq Passed(o) /\ Worded(o)' \subseteq Passed(o) \cup {n}
    BY <1>6 DEF Worded
  <2> QED BY <1>5, <2>2, <2>3, <2>4
<1>12. ShowsNewest(o)'
  <2>1. CASE verdict = "passed" /\ HasText(o, Audited(w))
    <3>1. Shows(o, Audited(w)) /\ Audited(w) = revisions[o][n].content
      <4>1. Writes(w) = Audited(w) /\ Halfway(w) /\ desk[w].pc = "pass"
        BY <1>0, <2>1 DEF Writes, Halfway, EditPCs, AuditPCs
      <4>2. TextWritten(w, o) /\ LabelWritten(w, o)
        BY <4>1 DEF InOrder, ShowsWritten
      <4> QED BY <2>1, <4>1, <4>2, WrittenShows DEF Audited
    <3>2. PICK p \in Nat : p = n
      BY <1>3
    <3>3. Shows(o, revisions[o][p].content)'
      BY <1>3, <1>7, <3>1, <3>2 DEF Shows
    <3>4. p \in Worded(o)' /\ \A q \in Worded(o)' : q <= p
      BY <1>3, <1>11, <2>1, <3>2 DEF Worded, Passed
    <3> QED BY <3>3, <3>4 DEF ShowsNewest, Newest
  <2>2. CASE verdict = "rejected" \/ ~HasText(o, Audited(w))
    <3>1. \A v \in Desks : ~Replaces(v, o)
      <4>1. verdict = "rejected" => ~Halfway(w)
        BY DEF Halfway
      <4>2. Writes(w) = Audited(w)
        BY <1>0 DEF Writes, EditPCs, AuditPCs
      <4> QED BY <1>1, <2>2, <4>1, <4>2 DEF Replaces, Halfway, RewardPCs
    <3>2. PICK p \in Worded(o) : Newest(o, p) /\ Shows(o, revisions[o][p].content)
      BY <3>1 DEF InOrder, ShowsNewest
    <3>3. p \in DOMAIN revisions[o] /\ p # n
      BY <1>5 DEF Worded, Passed
    <3>4. n # 1
      BY <1>3, <3>3 DEF RShape
    <3>5. Worded(o)' = Worded(o)
      BY <1>11, <2>2, <3>4
    <3>6. Newest(o, p)' /\ Shows(o, revisions[o][p].content)'
      BY <1>7, <3>2, <3>3, <3>5 DEF Newest, Shows
    <3> QED BY <3>5, <3>6 DEF ShowsNewest
  <2> QED BY <2>1, <2>2
<1> QED BY <1>9, <1>10, <1>12 DEF InOrder

(* A new revision: what the object shows already, or what waits. *)
LEMMA AddedOrder ==
  ASSUME RShape, NEW o \in Subjects, InOrder(o), NEW w \in Desks, AddRevision(w),
         desk[w].subject = o
  PROVE  InOrder(o)'
<1> DEFINE row == [content |-> desk[w].to, by |-> desk[w].by, rewards |-> 0,
                   status |-> IF desk[w].direct THEN "passed" ELSE "unreviewed"]
           new == Len(revisions[o]) + 1
<1>1. /\ desk[w].pc = "add" /\ DeskDone(w) /\ body' = body
      /\ revisions' = [revisions EXCEPT ![o] = Append(@, row)]
  BY DEF AddRevision
<1>2. row \in RevisionRows /\ row.content = desk[w].to /\ row.rewards = 0
      /\ row.status = IF desk[w].direct THEN "passed" ELSE "unreviewed"
  BY <1>1 DEF RShape, RTypeOK, RevisionRows
<1> HIDE DEF row
<1>3. Others(w) /\ desk'[w].subject = NoSubject
  BY <1>1, DoneType
<1>4. Works(w, o) /\ Unreviewed(o) = {}
  BY <1>1 DEF Works, EditPCs, InOrder, WaitingLast
<1>5. \A v \in Desks \ {w} : desk[v].subject = o => desk[v].pc \in RewardPCs
  BY <1>4, Alone
<1>6. /\ Len(revisions'[o]) = new
      /\ DOMAIN revisions'[o] = DOMAIN revisions[o] \cup {new}
      /\ \A m \in DOMAIN revisions[o] : m <= Len(revisions[o]) /\ revisions'[o][m] = revisions[o][m]
      /\ revisions'[o][new] = row
  BY <1>1, <1>2, RowAdded
<1>7. Len(revisions[o]) \in Nat /\ DOMAIN revisions[o] \subseteq Nat
  BY DEF RShape
<1> HIDE DEF new
<1>8. new \in Nat /\ new \notin DOMAIN revisions[o] /\ \A m \in DOMAIN revisions'[o] : m <= new
  BY <1>6, <1>7 DEF new
<1>9. /\ Unreviewed(o)' = IF desk[w].direct THEN {} ELSE {new}
      /\ Passed(o)' = IF desk[w].direct THEN Passed(o) \cup {new} ELSE Passed(o)
  <2>1. CASE desk[w].direct
    BY <1>2, <1>4, <1>6, <1>8, <2>1 DEF Unreviewed, Passed
  <2>2. CASE ~desk[w].direct
    BY <1>2, <1>4, <1>6, <1>8, <2>2 DEF Unreviewed, Passed
  <2> QED BY <2>1, <2>2
<1>10. \A v \in Desks : ~Works(v, o)'
  BY <1>3, <1>5 DEF Works, Others, RewardPCs, EditPCs, AuditPCs
<1>11. OneWorks(o)' /\ WaitingLast(o)' /\ ShowsWritten(o)'
  BY <1>6, <1>9, <1>10 DEF OneWorks, WaitingLast, ShowsWritten, Works, Halfway, EditPCs, AuditPCs
<1>12. RewardsPassed(o)'
  <2>1. \A v \in Desks : desk'[v].subject = o /\ desk'[v].pc \in RewardPCs => desk'[v].n \in Passed(o)'
    BY <1>3, <1>9 DEF InOrder, RewardsPassed, Others
  <2>2. \A m \in DOMAIN revisions'[o] : revisions'[o][m].rewards = 1 => m \in Passed(o)'
    BY <1>2, <1>6, <1>9 DEF InOrder, RewardsPassed
  <2> QED BY <2>1, <2>2 DEF RewardsPassed
<1>13. Worded(o)' = IF desk[w].direct /\ (new = 1 \/ HasText(o, desk[w].to))
                    THEN Worded(o) \cup {new} ELSE Worded(o)
  <2>1. \A m \in Passed(o) : m \in DOMAIN revisions[o] /\ m # new
    BY <1>8 DEF Passed
  <2>2. new \in Worded(o)' <=> desk[w].direct /\ (new = 1 \/ HasText(o, desk[w].to))
    BY <1>2, <1>6, <1>9, <2>1 DEF Worded, HasText
  <2>3. \A m \in Passed(o) : m \in Worded(o)' <=> m \in Worded(o)
    BY <1>6, <1>9, <2>1 DEF Worded, HasText
  <2>4. Worded(o) \subseteq Passed(o) /\ Worded(o)' \subseteq Passed(o) \cup {new}
    BY <1>9 DEF Worded
  <2> QED BY <2>1, <2>2, <2>3, <2>4
<1>14. Writes(w) = desk[w].to
  BY <1>1 DEF Writes, EditPCs
<1>15. ShowsNewest(o)'
  <2>1. CASE desk[w].direct /\ HasText(o, desk[w].to)
    <3>1. Shows(o, desk[w].to)
      <4>1. TextWritten(w, o) /\ LabelWritten(w, o)
        BY <1>1, <2>1 DEF InOrder, ShowsWritten, Halfway
      <4> QED BY <1>14, <2>1, <4>1, WrittenShows
    <3>2. PICK p \in Nat : p = new
      BY <1>8
    <3>3. Shows(o, revisions[o][p].content)'
      <4>1. revisions'[o][p].content = desk[w].to /\ body'[o] = body[o]
        BY <1>1, <1>2, <1>6, <3>2
      <4> QED BY <3>1, <4>1 DEF Shows
    <3>4. p \in Worded(o)' /\ \A q \in Worded(o)' : q <= p
      BY <1>6, <1>8, <1>13, <2>1, <3>2 DEF Worded, Passed
    <3> QED BY <3>3, <3>4 DEF ShowsNewest, Newest
  <2>2. CASE ~desk[w].direct \/ ~HasText(o, desk[w].to)
    <3>1. \A v \in Desks : ~Replaces(v, o)
      BY <1>1, <1>5, <1>14, <2>2 DEF Replaces, Halfway, RewardPCs
    <3>2. PICK p \in Worded(o) : Newest(o, p) /\ Shows(o, revisions[o][p].content)
      BY <3>1 DEF InOrder, ShowsNewest
    <3>3. p \in DOMAIN revisions[o]
      BY DEF Worded, Passed
    <3>4. new # 1
      BY <1>6, <1>7, <3>3 DEF new, RShape
    <3>5. Worded(o)' = Worded(o)
      BY <1>13, <2>2, <3>4
    <3>6. Newest(o, p)' /\ Shows(o, revisions[o][p].content)'
      BY <1>1, <1>6, <3>2, <3>3, <3>5 DEF Newest, Shows
    <3> QED BY <3>5, <3>6 DEF ShowsNewest
  <2> QED BY <2>1, <2>2
<1> QED BY <1>11, <1>12, <1>15 DEF InOrder

(* A reward changes neither what has passed nor what is shown. *)
LEMMA BookOrder ==
  ASSUME RShape, NEW o \in Subjects, InOrder(o), NEW w \in Desks, BookReward(w),
         desk[w].subject = o
  PROVE  InOrder(o)'
<1> DEFINE n == desk[w].n
<1>1. desk[w].pc = "book" /\ DeskDone(w) /\ body' = body
  BY DEF BookReward
<1>2. Others(w) /\ desk'[w].subject = NoSubject
  BY <1>1, DoneType
<1>3. n \in DOMAIN revisions[o] /\ n \in Passed(o)
  BY <1>1 DEF InOrder, RewardsPassed, Passed, RewardPCs
<1>4. /\ RewardedRow(w) \in RevisionRows
      /\ RewardedRow(w).status = revisions[o][n].status
      /\ RewardedRow(w).content = Audited(w)
      /\ revisions' = [revisions EXCEPT ![o][n] = RewardedRow(w)]
  BY RewardIs
<1>5. /\ Len(revisions'[o]) = Len(revisions[o])
      /\ DOMAIN revisions'[o] = DOMAIN revisions[o]
      /\ \A m \in DOMAIN revisions[o] :
           revisions'[o][m] = IF m = n THEN RewardedRow(w) ELSE revisions[o][m]
  BY <1>3, <1>4, RowWritten
<1>6. \A m \in DOMAIN revisions[o] : /\ revisions'[o][m].status = revisions[o][m].status
                                     /\ revisions'[o][m].content = revisions[o][m].content
                                     /\ m # n => revisions'[o][m] = revisions[o][m]
  BY <1>4, <1>5 DEF Audited
<1>7. Unreviewed(o)' = Unreviewed(o) /\ Passed(o)' = Passed(o) /\ Worded(o)' = Worded(o)
  <2>1. Unreviewed(o)' = Unreviewed(o) /\ Passed(o)' = Passed(o)
    BY <1>5, <1>6 DEF Unreviewed, Passed
  <2>2. \A m \in Passed(o) : revisions'[o][m].content = revisions[o][m].content
    BY <1>6 DEF Passed
  <2> QED BY <2>1, <2>2 DEF Worded, HasText
<1>8. OneWorks(o)'
  BY <1>2 DEF InOrder, OneWorks, Works, Others
<1>9. WaitingLast(o)'
  BY <1>2, <1>5, <1>7 DEF InOrder, WaitingLast, Others
<1>10. RewardsPassed(o)'
  BY <1>2, <1>3, <1>5, <1>6, <1>7 DEF InOrder, RewardsPassed, Others
<1>11. ~Halfway(w)
  BY <1>1 DEF Halfway
<1>12. \A v \in Desks : desk[v].subject = o /\ Halfway(v) =>
         v # w /\ desk'[v] = desk[v] /\ Writes(v)' = Writes(v) /\ Halfway(v)'
  <2> SUFFICES ASSUME NEW v \in Desks, desk[v].subject = o, Halfway(v)
               PROVE  v # w /\ desk'[v] = desk[v] /\ Writes(v)' = Writes(v) /\ Halfway(v)'
    OBVIOUS
  <2>1. v # w /\ desk'[v] = desk[v] /\ Halfway(v)'
    BY <1>2, <1>11 DEF Others, Halfway
  <2>2. desk[v].pc \in AuditPCs => Audited(v)' = Audited(v)
    BY <1>6, <2>1, AuditedType DEF Audited
  <2> QED BY <2>1, <2>2 DEF Writes, Halfway, EditPCs, AuditPCs
<1>13. ShowsNewest(o)'
  <2>1. PICK p \in Worded(o) : /\ Newest(o, p)
                              /\ \/ \E v \in Desks : Replaces(v, o)
                                 \/ Shows(o, revisions[o][p].content)
    BY DEF InOrder, ShowsNewest
  <2>2. Newest(o, p)' /\ p \in Worded(o)'
    BY <1>7, <2>1 DEF Newest
  <2>3. \A v \in Desks : Replaces(v, o) => Replaces(v, o)'
    BY <1>12 DEF Replaces, HasText
  <2>4. Shows(o, revisions[o][p].content) => Shows(o, revisions[o][p].content)'
    BY <1>1, <1>6 DEF Shows, Worded, Passed
  <2> QED BY <2>1, <2>2, <2>3, <2>4 DEF ShowsNewest
<1>14. ShowsWritten(o)'
  <2>1. \A v \in Desks : desk'[v].subject = o /\ Halfway(v)' => desk[v].subject = o /\ Halfway(v)
    BY <1>2 DEF Others, Halfway
  <2> QED BY <1>1, <1>12, <2>1 DEF InOrder, ShowsWritten, TextWritten, LabelWritten, HasText
<1> QED BY <1>8, <1>9, <1>10, <1>13, <1>14 DEF InOrder

-----------------------------------------------------------------------------
(* Every action keeps all three. *)
LEMMA ArrivalInv ==
  ASSUME RInv, NEW w \in Desks, NEW o \in Subjects,
         \/ \E u \in Suggesters, c \in Bodies, direct \in BOOLEAN : Edit(w, o, u, c, direct)
         \/ \E n \in Unreviewed(o), approve \in BOOLEAN : RevisionAudit(w, o, n, approve)
  PROVE  RInv'
<1> USE DEF RInv
<1>1. RShape'
  BY ArrivalShape
<1>2. ASSUME NEW job \in DeskType, NEW pcs, DeskArrives(w, job, pcs),
             job.subject = o, job.pc \in {"read", "reject", "find", "apply"},
             job.pc \in AuditPCs => job.n \in DOMAIN revisions[o],
             \/ job.pc \in EditPCs /\ pcs = EditPCs /\ Unreviewed(o) = {}
             \/ job.pc \in AuditPCs /\ pcs = AuditPCs /\ job.n \in Unreviewed(o)
      PROVE  RewardInv' /\ OrderInv'
  <2>1. /\ UNCHANGED <<body, revisions, rankLocks, slips>> /\ desk[w].pc = "idle"
        /\ contested' = IF DeskOn(o, pcs) = {} THEN contested ELSE contested \cup {o}
    BY <1>2 DEF DeskArrives
  <2>2. Others(w) /\ desk'[w] = job
    BY <1>2, ArrivesShape DEF RewardPCs
  <2>3. desk[w].subject = NoSubject
    BY <2>1 DEF RShape, Numbered
  <2>4. RewardInv'
    BY <1>2, <2>1, <2>2, UnchangedRewards, RewardStep
  <2>5. o \notin contested' => InOrder(o)'
    <3> SUFFICES ASSUME o \notin contested' PROVE InOrder(o)'
      OBVIOUS
    <3>1. DeskOn(o, pcs) = {} /\ InOrder(o)
      BY <2>1 DEF OrderInv
    <3>2. \A v \in Desks : ~Works(v, o)
      BY <1>2, <3>1 DEF DeskOn, Works, InOrder, WaitingLast
    <3>3. ~Halfway(w)'
      BY <1>2, <2>2 DEF Halfway
    <3> QED BY <1>2, <2>1, <2>2, <3>1, <3>2, <3>3, ArrivalOrder
  <2> QED BY <1>2, <2>1, <2>2, <2>3, <2>4, <2>5, OrderStep
<1>3. CASE \E u \in Suggesters, c \in Bodies, direct \in BOOLEAN : Edit(w, o, u, c, direct)
  <2>1. PICK u \in Suggesters, c \in Bodies, direct \in BOOLEAN : Edit(w, o, u, c, direct)
    BY <1>3
  <2> DEFINE job == [pc |-> "read", subject |-> o, n |-> 0, to |-> c, by |-> u, direct |-> direct]
  <2>2. DeskArrives(w, job, EditPCs) /\ Unreviewed(o) = {}
    BY <2>1 DEF Edit
  <2>3. job \in DeskType /\ job.subject = o /\ job.pc = "read" /\ job.pc \in EditPCs /\ job.pc \notin AuditPCs
    BY DEF DeskType, DeskPCs, EditPCs, AuditPCs
  <2> HIDE DEF job
  <2> QED BY <1>1, <1>2, <2>2, <2>3
<1>4. CASE \E n \in Unreviewed(o), approve \in BOOLEAN : RevisionAudit(w, o, n, approve)
  <2>1. PICK n \in Unreviewed(o), approve \in BOOLEAN : RevisionAudit(w, o, n, approve)
    BY <1>4
  <2>2. DeskArrives(w, AuditJob(o, n, approve), AuditPCs) /\ n \in DOMAIN revisions[o]
    BY <2>1 DEF RevisionAudit, Unreviewed
  <2>3. /\ AuditJob(o, n, approve) \in DeskType
        /\ AuditJob(o, n, approve).subject = o /\ AuditJob(o, n, approve).n = n
        /\ AuditJob(o, n, approve).pc \in {"reject", "find", "apply"}
    BY AuditJobIs
  <2>4. AuditJob(o, n, approve).pc \in AuditPCs
    BY <2>3 DEF AuditPCs
  <2> QED BY <1>1, <1>2, <2>2, <2>3, <2>4
<1> QED BY <1>3, <1>4

LEMMA Busy ==
  ASSUME RShape, NEW w \in Desks, desk[w].pc # "idle"
  PROVE  desk[w].subject \in Subjects
BY DEF RShape, RTypeOK, Numbered

LEMMA ReadInv ==
  ASSUME RInv, NEW w \in Desks, NEW o \in Subjects, desk[w].subject = o,
         ReadContent(w) \/ ReadLabels(w)
  PROVE  RInv'
<1> USE DEF RInv
<1>1. /\ desk[w].pc \in {"read", "labels"}
      /\ UNCHANGED <<body, revisions, rankLocks, deskWork, slips, contested>>
  BY DEF ReadContent, ReadLabels, DeskRest
<1>2. DeskDone(w) \/ \E pc \in {"labels", "text", "add"} :
                       DeskGoto(w, pc) /\ (pc = "add" => ~desk[w].direct)
  BY DEF ReadContent, ReadLabels, Ignored, AfterReading
<1>3. /\ Others(w)
      /\ \/ desk'[w].subject = NoSubject /\ desk'[w].pc = "idle"
         \/ /\ desk'[w].subject = o /\ desk'[w].n = desk[w].n /\ desk'[w].direct = desk[w].direct
            /\ desk'[w].pc \in {"labels", "text", "add"}
            /\ desk'[w].pc = "add" => ~desk[w].direct
  <2>1. CASE DeskDone(w)
    BY <2>1, DoneType
  <2>2. CASE \E pc \in {"labels", "text", "add"} : DeskGoto(w, pc) /\ (pc = "add" => ~desk[w].direct)
    <3>1. PICK pc \in {"labels", "text", "add"} : DeskGoto(w, pc) /\ (pc = "add" => ~desk[w].direct)
      BY <2>2
    <3> QED BY <3>1, GotoType DEF DeskPCs, EditPCs
  <2> QED BY <1>2, <2>1, <2>2
<1>4. RewardInv'
  BY <1>1, <1>3, UnchangedRewards, RewardStep
<1>5. InOrder(o) => InOrder(o)'
  <2>1. ~Halfway(w) /\ (desk'[w].subject = o => ~Halfway(w)')
    BY <1>1, <1>3 DEF Halfway
  <2> QED BY <1>1, <1>3, <2>1, QuietOrder DEF EditPCs, AuditPCs, RewardPCs
<1> QED BY <1>1, <1>3, <1>4, <1>5, ReadShape, OrderStep DEF OrderInv

LEMMA FindInv ==
  ASSUME RInv, NEW w \in Desks, NEW o \in Subjects, desk[w].subject = o,
         FindSubject(w) \/ FindSubjectFails(w)
  PROVE  RInv'
<1> USE DEF RInv
<1>1. desk[w].pc = "find" /\ UNCHANGED <<body, revisions, rankLocks>>
  BY DEF FindSubject, FindSubjectFails
<1>2. PICK pc \in {"apply", "pass"} : DeskGoto(w, pc)
  BY DEF FindSubject, FindSubjectFails
<1>3. Others(w) /\ desk'[w].subject = o /\ desk'[w].n = desk[w].n /\ desk'[w].pc = pc
  BY <1>2, GotoType DEF DeskPCs, AuditPCs
<1>4. RewardInv'
  BY <1>1, <1>3, UnchangedRewards, RewardStep
<1>5. CASE FindSubject(w)
  <2>1. contested' = contested /\ desk'[w].pc = "apply"
    BY <1>2, <1>5, GotoType DEF FindSubject, DeskRest, DeskPCs, AuditPCs
  <2>2. ~Halfway(w) /\ ~Halfway(w)'
    BY <1>1, <2>1 DEF Halfway
  <2>3. InOrder(o) => InOrder(o)'
    BY <1>1, <1>3, <2>1, <2>2, QuietOrder DEF EditPCs, AuditPCs, RewardPCs
  <2> QED BY <1>1, <1>3, <1>4, <2>1, <2>3, FindShape, OrderStep DEF OrderInv
<1>6. CASE FindSubjectFails(w)
  <2>1. contested' = contested \cup {o}
    BY <1>6 DEF FindSubjectFails
  <2> QED BY <1>1, <1>3, <1>4, <2>1, FindShape, OrderStep
<1> QED BY <1>5, <1>6

LEMMA EditWritesInv ==
  ASSUME RInv, NEW w \in Desks, NEW o \in Subjects, desk[w].subject = o,
         WriteText(w) \/ WriteSecond(w)
  PROVE  RInv'
<1> USE DEF RInv
<1>1. /\ desk[w].pc \in {"text", "second"} /\ desk[w].direct
      /\ UNCHANGED <<revisions, rankLocks, contested>>
  BY DEF WriteText, WriteSecond, DeskRest, RShape, Numbered
<1>2. PICK pc \in {"second", "add"} : /\ DeskGoto(w, pc)
                                    /\ desk[w].pc = IF pc = "second" THEN "text" ELSE "second"
  BY DEF WriteText, WriteSecond
<1>3. /\ Others(w) /\ desk'[w].subject = o /\ desk'[w].n = desk[w].n /\ desk'[w].pc = pc
      /\ desk'[w].to = desk[w].to /\ desk'[w].direct
  BY <1>1, <1>2, GotoType DEF DeskPCs, EditPCs
<1>4. RewardInv'
  BY <1>1, <1>3, UnchangedRewards, RewardStep
<1>5. /\ desk[w].to \in Bodies /\ desk[w].to.text \in Texts /\ desk[w].to.label \in Labels /\ Typed
      /\ Writes(w) = desk[w].to /\ Writes(w)' = desk[w].to
  BY <1>1, <1>3, TypedIs DEF RShape, RTypeOK, Bodies, Writes, EditPCs
<1>6. CASE WriteText(w)
  <2>1. /\ \A u \in Subjects \ {o} : body'[u] = body[u]
        /\ body'[o].text = IF HasText(o, desk[w].to) THEN desk[w].to.text ELSE body[o].text
    <3>1. CASE KindOf[o] = "tag"
      BY <1>5, <1>6, <3>1, WritesTag DEF WriteText, HasText
    <3>2. CASE KindOf[o] # "tag"
      <4>1. body' = [body EXCEPT ![o].text = desk[w].to.text]
        BY <1>6, <3>2 DEF WriteText
      <4>2. /\ \A u \in Subjects \ {o} : body'[u] = body[u]
            /\ body'[o].text = desk[w].to.text
        BY <1>5, <4>1, WritesText
      <4>3. HasText(o, desk[w].to)
        BY <3>2 DEF HasText
      <4> QED BY <4>2, <4>3
    <3> QED BY <3>1, <3>2
  <2>2. desk'[w].pc = "second" /\ desk[w].pc = "text"
    BY <1>2, <1>3, <1>6 DEF WriteText
  <2>3. TextWritten(w, o)'
    BY <1>5, <2>1 DEF TextWritten, HasText
  <2>4. InOrder(o) => InOrder(o)'
    BY <1>1, <1>3, <1>5, <2>1, <2>2, <2>3, WritingOrder DEF EditPCs, Works, Halfway
  <2> QED BY <1>1, <1>3, <1>4, <2>1, <2>4, EditWritesShape, OrderStep DEF OrderInv
<1>7. CASE WriteSecond(w)
  <2>1. /\ \A u \in Subjects \ {o} : body'[u] = body[u]
        /\ body'[o].text = body[o].text
        /\ KindOf[o] = "question" => body'[o].label = desk[w].to.label
    BY <1>5, <1>7, WritesLabel DEF WriteSecond
  <2>2. desk'[w].pc = "add" /\ desk[w].pc = "second"
    BY <1>2, <1>3, <1>7 DEF WriteSecond
  <2>3. ASSUME InOrder(o) PROVE InOrder(o)'
    <3>1. TextWritten(w, o)
      BY <2>2, <2>3 DEF InOrder, ShowsWritten, Halfway
    <3>2. TextWritten(w, o)' /\ LabelWritten(w, o)'
      BY <1>5, <2>1, <3>1 DEF TextWritten, LabelWritten, HasText
    <3> QED BY <1>1, <1>3, <2>1, <2>2, <2>3, <3>2, WritingOrder DEF EditPCs, Works, Halfway
  <2> QED BY <1>1, <1>3, <1>4, <2>1, <2>3, EditWritesShape, OrderStep DEF OrderInv
<1> QED BY <1>6, <1>7

LEMMA AuditWritesInv ==
  ASSUME RInv, NEW w \in Desks, NEW o \in Subjects, desk[w].subject = o,
         ApplyText(w) \/ ApplySecond(w)
  PROVE  RInv'
<1> USE DEF RInv
<1>1. /\ desk[w].pc \in {"apply", "apply_second"}
      /\ UNCHANGED <<revisions, rankLocks, contested>>
  BY DEF ApplyText, ApplySecond, DeskRest
<1>2. PICK pc \in {"apply_second", "pass"} :
        /\ DeskGoto(w, pc)
        /\ desk[w].pc = IF pc = "apply_second" THEN "apply" ELSE "apply_second"
  BY DEF ApplyText, ApplySecond
<1>3. Others(w) /\ desk'[w].subject = o /\ desk'[w].n = desk[w].n /\ desk'[w].pc = pc
  BY <1>2, GotoType DEF DeskPCs, AuditPCs
<1>4. RewardInv'
  BY <1>1, <1>3, UnchangedRewards, RewardStep
<1>5. /\ Audited(w) \in Bodies /\ Audited(w).text \in Texts /\ Typed
      /\ Writes(w) = Audited(w) /\ Writes(w)' = Audited(w)
  BY <1>1, <1>3, TypedIs, AuditedType DEF AuditPCs, EditPCs, Bodies, Audited, Writes
<1>8. desk'[w].to = desk[w].to
  BY <1>2, GotoType DEF DeskPCs, AuditPCs
<1>6. CASE ApplyText(w)
  <2>1. /\ \A u \in Subjects \ {o} : body'[u] = body[u]
        /\ body'[o].text = IF HasText(o, Audited(w)) THEN Audited(w).text ELSE body[o].text
    <3>1. CASE KindOf[o] = "tag"
      BY <1>5, <1>6, <3>1, WritesTag DEF ApplyText, HasText
    <3>2. CASE KindOf[o] # "tag"
      <4>1. body' = [body EXCEPT ![o].text = Audited(w).text]
        BY <1>6, <3>2 DEF ApplyText
      <4>2. /\ \A u \in Subjects \ {o} : body'[u] = body[u]
            /\ body'[o].text = Audited(w).text
        BY <1>5, <4>1, WritesText
      <4>3. HasText(o, Audited(w))
        BY <3>2 DEF HasText
      <4> QED BY <4>2, <4>3
    <3> QED BY <3>1, <3>2
  <2>2. desk'[w].pc = "apply_second" /\ desk[w].pc = "apply"
    BY <1>2, <1>3, <1>6 DEF ApplyText
  <2>3. TextWritten(w, o)'
    BY <1>5, <2>1 DEF TextWritten, HasText
  <2>4. InOrder(o) => InOrder(o)'
    BY <1>1, <1>3, <1>5, <1>8, <2>1, <2>2, <2>3, WritingOrder DEF AuditPCs, Works, Halfway
  <2> QED BY <1>1, <1>3, <1>4, <2>1, <2>4, AuditWritesShape, OrderStep DEF OrderInv
<1>7. CASE ApplySecond(w)
  <2>1. /\ \A u \in Subjects \ {o} : body'[u] = body[u]
        /\ body'[o].text = body[o].text
        /\ KindOf[o] = "question" => body'[o].label = Audited(w).label
    BY <1>5, <1>7, WritesLabel DEF ApplySecond
  <2>2. desk'[w].pc = "pass" /\ desk[w].pc = "apply_second"
    BY <1>2, <1>3, <1>7 DEF ApplySecond
  <2>3. ASSUME InOrder(o) PROVE InOrder(o)'
    <3>1. TextWritten(w, o)
      BY <2>2, <2>3 DEF InOrder, ShowsWritten, Halfway
    <3>2. TextWritten(w, o)' /\ LabelWritten(w, o)'
      BY <1>5, <2>1, <3>1 DEF TextWritten, LabelWritten, HasText
    <3> QED BY <1>1, <1>3, <1>8, <2>1, <2>2, <2>3, <3>2, WritingOrder DEF AuditPCs, Works, Halfway
  <2> QED BY <1>1, <1>3, <1>4, <2>1, <2>3, AuditWritesShape, OrderStep DEF OrderInv
<1> QED BY <1>6, <1>7

LEMMA AddedInv ==
  ASSUME RInv, NEW w \in Desks, NEW o \in Subjects, desk[w].subject = o, AddRevision(w)
  PROVE  RInv'
<1> USE DEF RInv
<1>1. /\ desk[w].pc = "add" /\ DeskDone(w) /\ UNCHANGED <<body, rankLocks, contested>>
      /\ \A u \in Subjects \ {o} : revisions'[u] = revisions[u]
  BY DEF AddRevision, DeskRest, RShape
<1>2. Others(w) /\ desk'[w].subject = NoSubject /\ desk'[w].pc = "idle"
  BY <1>1, DoneType
<1>3. RewardInv'
  BY <1>1, <1>2, AddedRewards, RewardStep
<1> QED BY <1>1, <1>2, <1>3, AddedShape, AddedOrder, OrderStep DEF OrderInv

LEMMA SettledInv ==
  ASSUME RInv, NEW w \in Desks, NEW o \in Subjects, desk[w].subject = o, Reject(w) \/ Pass(w)
  PROVE  RInv'
<1> USE DEF RInv
<1>1. PICK verdict \in {"passed", "rejected"} :
        /\ Settle(w, verdict) /\ UNCHANGED <<body, rankLocks, contested>>
        /\ \/ verdict = "rejected" /\ desk[w].pc = "reject" /\ DeskDone(w)
           \/ verdict = "passed" /\ desk[w].pc = "pass" /\ DeskGoto(w, "reward")
  BY DEF Reject, Pass, DeskRest
<1>2. /\ Others(w)
      /\ \/ /\ verdict = "rejected" /\ desk[w].pc = "reject"
            /\ desk'[w].subject = NoSubject /\ desk'[w].pc = "idle"
         \/ /\ verdict = "passed" /\ desk[w].pc = "pass"
            /\ desk'[w].pc = "reward" /\ desk'[w].n = desk[w].n /\ desk'[w].subject = o
  <2>1. "reward" \in DeskPCs
    BY DEF DeskPCs
  <2> QED BY <1>1, <2>1, DoneType, GotoType
<1>3. desk[w].pc \in AuditPCs /\ \A u \in Subjects \ {o} : revisions'[u] = revisions[u]
  BY <1>1 DEF AuditPCs, Settle, RShape
<1>4. RewardInv'
  BY <1>1, <1>2, <1>3, SettledRewards, RewardStep
<1>5. InOrder(o) => InOrder(o)'
  BY <1>1, <1>2, SettledOrder
<1> QED BY <1>1, <1>2, <1>3, <1>4, <1>5, SettledShape, OrderStep DEF OrderInv

LEMMA LockInv ==
  ASSUME RInv, NEW w \in Desks, NEW o \in Subjects, desk[w].subject = o, LockAuthor(w)
  PROVE  RInv'
<1> USE DEF RInv
<1>1. desk[w].pc = "reward" /\ UNCHANGED <<body, revisions, contested>>
  BY DEF LockAuthor, DeskRest
<1>2. /\ Others(w)
      /\ \/ desk'[w].subject = NoSubject
         \/ desk'[w].subject = o /\ desk'[w].pc = "book" /\ desk'[w].n = desk[w].n
  <2>1. "book" \in DeskPCs /\ (DeskDone(w) \/ DeskGoto(w, "book"))
    BY DEF LockAuthor, DeskPCs
  <2> QED BY <2>1, DoneType, GotoType
<1>3. ~Halfway(w) /\ (desk'[w].subject = o => ~Halfway(w)')
  BY <1>1, <1>2 DEF Halfway
<1>4. InOrder(o) => InOrder(o)'
  BY <1>1, <1>2, <1>3, QuietOrder DEF EditPCs, AuditPCs, RewardPCs
<1> QED BY <1>1, <1>2, <1>4, LockShape, LockRewards, OrderStep DEF OrderInv

LEMMA BookInv ==
  ASSUME RInv, NEW w \in Desks, NEW o \in Subjects, desk[w].subject = o, BookReward(w)
  PROVE  RInv'
<1> USE DEF RInv
<1>1. /\ DeskDone(w) /\ UNCHANGED <<body, contested>>
      /\ \A u \in Subjects \ {o} : revisions'[u] = revisions[u]
  BY DEF BookReward, DeskRest, RShape
<1>2. Others(w) /\ desk'[w].subject = NoSubject
  BY <1>1, DoneType
<1> QED BY <1>1, <1>2, BookShape, BookRewards, BookOrder, OrderStep DEF OrderInv

LEMMA BreakInv ==
  ASSUME RInv, NEW w \in Desks, NEW o \in Subjects, desk[w].subject = o, DeskBreaksOff(w)
  PROVE  RInv'
<1> USE DEF RInv
<1>1. /\ DeskDone(w) /\ UNCHANGED <<body, revisions>>
      /\ contested' = IF Halfway(w) THEN contested \cup {o} ELSE contested
      /\ \/ rankLocks' = rankLocks
         \/ desk[w].pc = "book" /\ rankLocks' = rankLocks \ {AuditedBy(w)}
  BY DEF DeskBreaksOff, Halfway
<1>2. Others(w) /\ desk'[w].subject = NoSubject /\ desk'[w].pc = "idle"
  BY <1>1, DoneType
<1>3. RewardInv'
  BY <1>1, <1>2, UnchangedRewards, RewardStep
<1>4. ASSUME o \notin contested' PROVE InOrder(o)'
  <2>1. ~Halfway(w) /\ InOrder(o)
    BY <1>1, <1>4 DEF OrderInv
  <2> QED BY <1>1, <1>2, <2>1, QuietOrder
<1> QED BY <1>1, <1>2, <1>3, <1>4, BreakShape, OrderStep

LEMMA RInvStep == RInv /\ [RNext]_rVars => RInv'
<1> SUFFICES ASSUME RInv, [RNext]_rVars PROVE RInv'
  OBVIOUS
<1>1. CASE UNCHANGED rVars
  <2> USE <1>1 DEF rVars
  <2>1. RShape'
    BY DEF RInv, RShape, RTypeOK, Numbered
  <2>2. RewardInv'
    BY DEF RInv, RewardInv, Booking, AuditedBy
  <2>3. OrderInv'
    BY DEF RInv, OrderInv, InOrder, OneWorks, Works, WaitingLast, Unreviewed, RewardsPassed, Passed,
           ShowsNewest, Worded, Newest, Replaces, Writes, Halfway, Shows, ShowsWritten, TextWritten,
           LabelWritten, Audited
  <2> QED BY <2>1, <2>2, <2>3 DEF RInv
<1>2. ASSUME NEW w \in Desks, DeskSteps(w) PROVE RInv'
  <2>1. CASE \E o \in Subjects :
               \/ \E u \in Suggesters, c \in Bodies, direct \in BOOLEAN : Edit(w, o, u, c, direct)
               \/ \E n \in Unreviewed(o), approve \in BOOLEAN : RevisionAudit(w, o, n, approve)
    BY <2>1, ArrivalInv
  <2>2. CASE desk[w].subject \in Subjects /\ ~ \E o \in Subjects :
               \/ \E u \in Suggesters, c \in Bodies, direct \in BOOLEAN : Edit(w, o, u, c, direct)
               \/ \E n \in Unreviewed(o), approve \in BOOLEAN : RevisionAudit(w, o, n, approve)
    BY <1>2, <2>2, ReadInv, FindInv, EditWritesInv, AuditWritesInv, AddedInv, SettledInv, LockInv,
       BookInv, BreakInv DEF DeskSteps
  <2>3. CASE desk[w].pc # "idle"
    BY <2>1, <2>2, <2>3, Busy DEF RInv
  <2>4. CASE desk[w].pc = "idle"
    BY <1>2, <2>1, <2>4 DEF DeskSteps, ReadContent, ReadLabels, WriteText, WriteSecond, AddRevision,
       Reject, FindSubject, FindSubjectFails, ApplyText, ApplySecond, Pass, LockAuthor, BookReward,
       DeskBreaksOff
  <2> QED BY <2>3, <2>4
<1> QED BY <1>1, <1>2 DEF RNext

LEMMA RInvAlways == RSpec => []RInv
<1> QED BY RInitInv, RInvStep, PTL DEF RSpec

(* Requests, revisions and content have their types: revision.go and
   revision_service.go. *)
THEOREM RevisionTypes == RSpec => []RTypeOK
<1>1. RInv => RTypeOK
  BY DEF RInv, RShape
<1> QED BY <1>1, RInvAlways, PTL

(* However many reviewers approve a suggestion, ReviewActivityRepo.Review brings
   its author reputation once, and only after RevisionAudit has passed it. *)
THEOREM SuggestionRewardedOnce == RSpec => []RewardedOnce
<1>1. RInv => RewardedOnce
  BY DEF RInv, RewardInv, OrderInv, InOrder, RewardsPassed, RewardedOnce, Passed
<1> QED BY <1>1, RInvAlways, PTL

LEMMA NewestIsMax ==
  ASSUME NEW o \in Subjects, RShape, NEW p, Newest(o, p)
  PROVE  Max(Worded(o)) = p
<1>1. Worded(o) \subseteq Nat
  BY DEF Worded, Passed, RShape
<1>2. p \in Worded(o) /\ \A q \in Worded(o) : p >= q
  BY <1>1 DEF Newest
<1>3. \A r \in Worded(o) : (\A q \in Worded(o) : r >= q) => r = p
  BY <1>1, <1>2
<1> QED BY <1>2, <1>3 DEF Max

(* While nobody works on an object it shows its newest revision that has passed,
   of a tag the newest with a text: RevisionAudit writes the content of a revision
   before it settles it, and an edit begins only when nothing waits. *)
THEOREM DecidedTextShows == RSpec => []TextDecided
<1>1. RInv => TextDecided
  <2> SUFFICES ASSUME RInv, NEW o \in Subjects \ contested
               PROVE  /\ \A n \in Unreviewed(o) : n = Len(revisions[o])
                      /\ DeskOn(o, EditPCs \cup AuditPCs) = {} =>
                           LET shown == revisions[o][Max(Worded(o))].content
                           IN /\ body[o].text = shown.text
                              /\ KindOf[o] = "question" => body[o].label = shown.label
    BY DEF TextDecided
  <2>1. RShape /\ InOrder(o)
    BY DEF RInv, OrderInv
  <2>2. ASSUME DeskOn(o, EditPCs \cup AuditPCs) = {}
        PROVE  Shows(o, revisions[o][Max(Worded(o))].content)
    <3>1. \A w \in Desks : ~(desk[w].subject = o /\ Halfway(w))
      BY <2>2 DEF DeskOn, Halfway, EditPCs, AuditPCs
    <3>2. PICK p \in Worded(o) : Newest(o, p) /\ Shows(o, revisions[o][p].content)
      BY <2>1, <3>1 DEF InOrder, ShowsNewest, Replaces
    <3>3. Max(Worded(o)) = p
      BY <2>1, <3>2, NewestIsMax
    <3> QED BY <3>2, <3>3
  <2> QED BY <2>1, <2>2 DEF InOrder, WaitingLast, Shows
<1> QED BY <1>1, RInvAlways, PTL
-----------------------------------------------------------------------------
(* Badges. *)
USE BadgesAssumption DEF BadgesAssumption

(* No two rows are about the same award. *)
Unique == \A r, s \in awards : r.user = s.user /\ (single \/ r.key = s.key) => r = s

(* An activation that has counted holds the number of the awards, and so does the
   badge. *)
Counts ==
  ~miscounted =>
    /\ awardCount = Cardinality(awards)
    /\ \A a \in Admins : switching[a].pc = "write" => switching[a].count = Cardinality(awards)

(* The worker that awards knows for whom. *)
AwardKnown ==
  awarding.pc # "idle" => awarding.user \in Winners /\ awarding.key \in AwardKeys

BInv == BTypeOK /\ IsFiniteSet(awards) /\ AwardKnown /\ Unique /\ Counts

-----------------------------------------------------------------------------
(* There is a number that no row has. *)
LEMMA FreeRowType == BInv => FreeRow \in Nat
<1> SUFFICES ASSUME BInv PROVE FreeRow \in Nat
  OBVIOUS
<1>1. IsFiniteSet(awards) /\ Cardinality(awards) \in Nat
  BY FS_CardinalityType DEF BInv
<1>2. \E n \in 0..Cardinality(awards) : \A r \in awards : r.n # n
  <2> SUFFICES ASSUME \A n \in 0..Cardinality(awards) : \E r \in awards : r.n = n
               PROVE FALSE
    OBVIOUS
  <2> DEFINE rowOf == [n \in 0..Cardinality(awards) |-> CHOOSE r \in awards : r.n = n]
  <2>1. \A n \in 0..Cardinality(awards) : rowOf[n] \in awards /\ rowOf[n].n = n
    OBVIOUS
  <2>2. rowOf \in [0..Cardinality(awards) -> awards]
    BY <2>1
  <2>3. IsFiniteSet(0..Cardinality(awards)) /\ Cardinality(0..Cardinality(awards)) = Cardinality(awards) + 1
    BY <1>1, FS_Interval
  <2> HIDE DEF rowOf
  <2>4. \E x, y \in 0..Cardinality(awards) : x # y /\ rowOf[x] = rowOf[y]
    BY <1>1, <2>2, <2>3, FS_PigeonHole
  <2> QED BY <2>1, <2>4
<1> QED BY <1>1, <1>2 DEF FreeRow

LEMMA BInitInv == BInit => BInv
<1> SUFFICES ASSUME BInit PROVE BInv
  OBVIOUS
<1>1. IsFiniteSet(awards) /\ Cardinality(awards) = 0
  BY FS_EmptySet DEF BInit
<1>2. BTypeOK
  <2>1. single \in BOOLEAN /\ badgeActive \in BOOLEAN /\ miscounted \in BOOLEAN
    BY DEF BInit
  <2>2. awardCount \in Nat /\ awards \subseteq AwardRows
        /\ eventsDone \in 0..MaxAwardEvents /\ switches \in 0..MaxSwitches
    BY DEF BInit
  <2>3. awarding \in [pc : {"idle", "badge", "check", "award"},
                     user : Winners \cup {NoWinner}, key : AwardKeys \cup {NoKey}]
    BY DEF BInit, Resting
  <2>4. switching \in [Admins -> [pc : {"idle", "status", "count", "write"}, on : BOOLEAN, count : Nat]]
    BY DEF BInit, NotSwitching
  <2> QED BY <2>1, <2>2, <2>3, <2>4 DEF BTypeOK
<1>3. AwardKnown /\ Unique
  BY DEF BInit, AwardKnown, Unique, Resting
<1>4. Counts
  BY <1>1 DEF BInit, Counts, NotSwitching
<1> QED BY <1>1, <1>2, <1>3, <1>4 DEF BInv

(* Hiding or showing the awards changes neither their number nor what they are
   about. *)
LEMMA HidingKeeps ==
  ASSUME BInv, NEW h \in BOOLEAN,
         awards' = {[r EXCEPT !.hidden = h] : r \in awards}, single' = single
  PROVE  /\ awards' \subseteq AwardRows
         /\ IsFiniteSet(awards') /\ Cardinality(awards') = Cardinality(awards)
         /\ Unique'
<1>1. awards \subseteq AwardRows /\ IsFiniteSet(awards) /\ Unique
  BY DEF BInv, BTypeOK
<1> DEFINE f == [r \in awards |-> [r EXCEPT !.hidden = h]]
<1>2. awards' \subseteq AwardRows
  BY <1>1 DEF AwardRows
<1>3. \A r \in awards : f[r].user = r.user /\ f[r].key = r.key
  BY <1>1 DEF AwardRows
<1>4. f \in Surjection(awards, awards')
  BY DEF Surjection
<1>5. f \in Injection(awards, awards')
  <2> HIDE DEF f
  <2>1. \A r, s \in awards : f[r] = f[s] => r.user = s.user /\ r.key = s.key
    BY <1>3
  <2>2. \A r, s \in awards : f[r] = f[s] => r = s
    BY <1>1, <2>1 DEF Unique
  <2> QED BY <1>4, <2>2 DEF Surjection, Injection, IsInjective
<1>6. Unique'
  <2>1. \A x \in awards' : \E r \in awards : x = f[r]
    OBVIOUS
  <2> HIDE DEF f
  <2> QED BY <1>1, <1>3, <2>1 DEF Unique
<1> QED BY <1>1, <1>2, <1>4, <1>5, <1>6, FS_Surjection

LEMMA WorkerInv == ASSUME BInv, BWorker PROVE BInv'
<1> USE DEF BInv, BTypeOK
<1>0. Cardinality(awards) \in Nat
  BY FS_CardinalityType
<1>1. CASE \E u \in Winners, k \in AwardKeys : HandleEvent(u, k)
  BY <1>1 DEF HandleEvent, BadgeKept, AwardKnown, Unique, Counts
<1>2. CASE LookAtBadge
  BY <1>2 DEF LookAtBadge, AwardGoto, AwardEnds, Resting, BadgeKept, AwardKnown, Unique, Counts
<1>3. CASE CheckIsAward
  BY <1>3 DEF CheckIsAward, AwardGoto, AwardEnds, Resting, BadgeKept, AwardKnown, Unique, Counts
<1>4. CASE AwardBadgeForUser
  <2>1. CASE OldAwards # {}
    BY <1>4, <2>1 DEF AwardBadgeForUser, AwardEnds, Resting, BadgeKept, AwardKnown, Unique, Counts
  <2>2. CASE OldAwards = {}
    <3> DEFINE row == [n |-> FreeRow, user |-> awarding.user, key |-> awarding.key, hidden |-> FALSE]
    <3>1. /\ awards' = awards \cup {row} /\ awardCount' = awardCount + 1
          /\ miscounted' = (miscounted \/ \E a \in Admins : switching[a].pc = "write")
          /\ awarding' = Resting /\ UNCHANGED <<single, badgeActive, switching, switches, eventsDone>>
      BY <1>4, <2>2 DEF AwardBadgeForUser, AwardEnds, BadgeKept
    <3>2. row \in AwardRows
      BY <1>4, FreeRowType DEF AwardBadgeForUser, AwardKnown, AwardRows
    <3>3. \A r \in awards : ~(r.user = row.user /\ (single \/ r.key = row.key))
      BY <2>2 DEF OldAwards, SameAward
    <3>4. row \notin awards
      BY <3>3
    <3> HIDE DEF row
    <3>5. IsFiniteSet(awards') /\ Cardinality(awards') = Cardinality(awards) + 1
      BY <3>1, <3>4, FS_AddElement
    <3>6. BTypeOK'
      BY <3>1, <3>2 DEF Resting
    <3>7. Unique'
      BY <3>1, <3>3 DEF Unique
    <3>8. Counts'
      BY <1>0, <3>1, <3>5 DEF Counts
    <3>9. AwardKnown'
      BY <3>1 DEF AwardKnown, Resting
    <3> QED BY <3>5, <3>6, <3>7, <3>8, <3>9
  <2> QED BY <2>1, <2>2
<1>5. CASE AwardFails
  BY <1>5 DEF AwardFails, AwardEnds, Resting, BadgeKept, AwardKnown, Unique, Counts
<1> QED BY <1>1, <1>2, <1>3, <1>4, <1>5 DEF BWorker

LEMMA AdminInv == ASSUME BInv, NEW a \in Admins, BAdmin(a) PROVE BInv'
<1> USE DEF BInv, BTypeOK
<1>0. Cardinality(awards) \in Nat
  BY FS_CardinalityType
<1>1. CASE \E on \in BOOLEAN : UpdateStatus(a, on)
  <2>1. PICK on \in BOOLEAN : UpdateStatus(a, on)
    BY <1>1
  <2>2. /\ switching' \in [Admins -> [pc : {"idle", "status", "count", "write"}, on : BOOLEAN, count : Nat]]
        /\ \A b \in Admins : switching'[b].pc = "write" => switching'[b] = switching[b]
    BY <2>1 DEF UpdateStatus, NotSwitching
  <2> QED BY <2>1, <2>2 DEF UpdateStatus, AwardKnown, Unique, Counts
<1>2. CASE WriteBadgeStatus(a)
  <2>1. /\ awards' = {[r EXCEPT !.hidden = ~switching[a].on] : r \in awards}
        /\ UNCHANGED <<single, awardCount, awarding, eventsDone, switches, miscounted>>
    BY <1>2 DEF WriteBadgeStatus
  <2>2. (~switching[a].on) \in BOOLEAN
    OBVIOUS
  <2>3. /\ awards' \subseteq AwardRows /\ Unique'
        /\ IsFiniteSet(awards') /\ Cardinality(awards') = Cardinality(awards)
    BY <2>1, <2>2, HidingKeeps
  <2>4. /\ switching' \in [Admins -> [pc : {"idle", "status", "count", "write"}, on : BOOLEAN, count : Nat]]
        /\ \A b \in Admins : switching'[b].pc = "write" => switching'[b] = switching[b]
    <3>1. CASE switching' = [switching EXCEPT ![a].pc = "count"]
      BY <3>1
    <3>2. CASE switching' = [switching EXCEPT ![a] = NotSwitching]
      BY <3>2 DEF NotSwitching
    <3> QED BY <1>2, <3>1, <3>2 DEF WriteBadgeStatus, SwitchGoto, SwitchEnds
  <2>5. badgeActive' \in BOOLEAN
    BY <1>2 DEF WriteBadgeStatus
  <2> QED BY <2>1, <2>3, <2>4, <2>5 DEF AwardKnown, Counts
<1>3. CASE CountAwards(a)
  BY <1>0, <1>3 DEF CountAwards, AwardKnown, Unique, Counts
<1>4. CASE UpdateAwardCount(a)
  BY <1>4 DEF UpdateAwardCount, SwitchEnds, NotSwitching, AwardKnown, Unique, Counts
<1>5. CASE SwitchFails(a)
  BY <1>5 DEF SwitchFails, SwitchEnds, NotSwitching, AwardKnown, Unique, Counts
<1> QED BY <1>1, <1>2, <1>3, <1>4, <1>5 DEF BAdmin

LEMMA DeleteAwardsInv ==
  ASSUME BInv, NEW u \in Winners, DeleteUserBadgeAward(u) PROVE BInv'
<1>1. awards' \subseteq awards
  BY DEF DeleteUserBadgeAward
<1>2. IsFiniteSet(awards')
  BY <1>1, FS_Subset DEF BInv
<1> QED BY <1>1, <1>2 DEF DeleteUserBadgeAward, BadgeKept, BInv, BTypeOK, AwardKnown, Unique, Counts

LEMMA BInvStep == BInv /\ [BNext]_bVars => BInv'
<1> SUFFICES ASSUME BInv, [BNext]_bVars PROVE BInv'
  OBVIOUS
<1>1. CASE UNCHANGED bVars
  BY <1>1 DEF bVars, BInv, BTypeOK, AwardKnown, Unique, Counts
<1> QED BY <1>1, WorkerInv, AdminInv, DeleteAwardsInv DEF BNext

LEMMA BInvAlways == BSpec => []BInv
<1> QED BY BInitInv, BInvStep, PTL DEF BSpec

(* The badge, its awards and what is done with them have their types:
   badge_award_service.go and badge_service.go. *)
THEOREM BadgeTypes == BSpec => []BTypeOK
<1>1. BInv => BTypeOK
  BY DEF BInv
<1> QED BY <1>1, BInvAlways, PTL

(* AwardBadgeForUser looks again inside its transaction, so that nobody gets an
   award twice, and its count is exact but for what UpdateStatus counted before. *)
THEOREM AwardsAreUnique == BSpec => []AwardedOnce
<1>1. BInv => AwardedOnce
  BY DEF BInv, Unique, Counts, AwardedOnce
<1> QED BY <1>1, BInvAlways, PTL
=============================================================================
