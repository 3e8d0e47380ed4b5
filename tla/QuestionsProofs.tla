-------------------------- MODULE QuestionsProofs --------------------------
(***************************************************************************)
(* Theorems about Questions, for every set of questions, tags and          *)
(* requests: a pinned question is never hidden, and the numbers of the     *)
(* tags agree with the relations.                                          *)
(*                                                                         *)
(* The numbers need an invariant that also holds while requests are at     *)
(* work: a number that is wrong and not excused is owed by a request that  *)
(* has changed relations of the tag and will still count them.             *)
(*                                                                         *)
(* Answers, for every set of answers, users and requests: four invariants  *)
(* that need each other only for the types.  A count is right until it is  *)
(* late; whoever puts an answer on hold has asked for its review; the one  *)
(* request that accepts has come so far in the three places it writes;     *)
(* what a user got is the sum over the live rows, of which a cancellation  *)
(* takes back what it cancels unless it saw half of an acceptance.         *)
(***************************************************************************)
EXTENDS Questions, Answers, Sums, FiniteSetTheorems, TLAPS

USE QuestionsAssumption DEF QuestionsAssumption

(* What a request is for, by the statement that comes next. *)
QMayBe == [p \in QPCs |->
  CASE p = "idle" -> {"none"}
    [] p = "ask" -> {"add"}
    [] p = "status" -> {"add", "set", "review", "remove", "recover"}
    [] p = "settle" -> {"review"}
    [] p \in {"reject", "list_all", "drop_all"} -> {"remove"}
    [] p \in {"look", "drop", "link"} -> {"add", "edit"}
    [] p = "hide" -> {"hide"}
    [] p = "show" -> {"show"}
    [] p = "recover_rels" -> {"recover"}
    [] p = "list" -> {"hide", "show", "recover"}
    [] p \in {"count", "number"} -> {"add", "edit", "hide", "show", "remove", "recover"}
    [] p = "operation" -> Operations]

QControl ==
  \A w \in Editors :
    /\ Op(w) \in QMayBe[qpc[w]]
    /\ qpc[w] = "idle" <=> On(w) = NoQuestion
    /\ qpc[w] = "number" => qseen[w].tag \in qseen[w].refresh

(* What a request has prepared to write is never pinned and hidden. *)
PinSeen == \A w \in Editors : ~(qseen[w].pin /\ qseen[w].hide)

(* The relations a request is about to change are among those it will count. *)
WillRefreshOf(w) ==
  /\ qpc[w] \in {"drop", "link"} => qseen[w].old \cup qseen[w].new \subseteq qseen[w].refresh
  /\ qpc[w] = "drop_all" /\ w \notin late => TagsOf(On(w)) \subseteq qseen[w].refresh

WillRefresh == \A w \in Editors : WillRefreshOf(w)

(* What a request has counted is right if nobody came between. *)
CountedRightOf(w) ==
  qpc[w] = "number" /\ w \notin late => qseen[w].n = Cardinality(Linked(qseen[w].tag))

CountedRight == \A w \in Editors : CountedRightOf(w)

(* A request has changed relations of a tag, and will count them. *)
Owes(w, t) ==
  /\ qpc[w] # "idle"
  /\ rel[<<On(w), t>>] # "none"
  /\ \/ qpc[w] \in {"link", "count", "number"} /\ t \in qseen[w].refresh
     \/ qpc[w] = "list" /\ rel[<<On(w), t>>] \in {"available", "hide"}

NumbersOwed ==
  \A t \in Tags \ staleTags :
    tagCount[t] = Cardinality(Linked(t)) \/ \E w \in Editors : Owes(w, t)

NumbersInv == WillRefresh /\ CountedRight /\ NumbersOwed

(* Requests for the same question are on record. *)
AloneUnlessMixed ==
  \A v, w \in Editors : v # w /\ On(v) = On(w) /\ On(v) # NoQuestion => On(v) \in mixed

(* A request that hides or shows has changed the relations. *)
PastRelations == {"list", "count", "number", "operation"}

(* The relations of a hidden question are hidden, or about to be shown with it. *)
HiddenRelsOf(q) ==
  q \in hidden \ mixed =>
    \A t \in Tags :
      rel[<<q, t>>] = "available" =>
        \E w \in Editors : On(w) = q /\ Op(w) = "show" /\ qpc[w] \in PastRelations

HideUnderOf(w) ==
  On(w) \in QuestionIds \ mixed /\ Op(w) = "hide" /\ qpc[w] \in PastRelations =>
    \A t \in Tags : rel[<<On(w), t>>] # "available"

(* What a request has read of the question still holds if it is alone. *)
SightHoldsOf(w) ==
  /\ Op(w) \in {"show", "pin"} => ~qseen[w].hide
  /\ On(w) \notin mixed =>
       /\ Op(w) = "unpin" /\ qseen[w].hide => On(w) \in hidden
       /\ Op(w) = "add" => On(w) \notin hidden
       /\ Op(w) = "edit" => qStatus[On(w)] # "none"
       /\ qpc[w] \in {"drop", "link"} /\ On(w) \in hidden => qseen[w].default = "hide"

HiddenInv ==
  /\ AloneUnlessMixed
  /\ \A q \in QuestionIds : HiddenRelsOf(q)
  /\ \A w \in Editors : HideUnderOf(w) /\ SightHoldsOf(w)

QInv ==
  /\ QTypeOK /\ QControl
  /\ PinnedVisible /\ PinSeen
  /\ NumbersInv
  /\ HiddenInv

QShape == QTypeOK /\ QControl

-----------------------------------------------------------------------------
(* A tag has no more relations that count than there are questions. *)
LEMMA LinkedNumber ==
  \A t \in Tags : Cardinality(Linked(t)) \in 0..Cardinality(QuestionIds)
<1> TAKE t \in Tags
<1>1. Linked(t) \subseteq QuestionIds
  BY DEF Linked
<1>2. IsFiniteSet(Linked(t)) /\ Cardinality(Linked(t)) <= Cardinality(QuestionIds)
  BY <1>1, FS_Subset
<1>3. Cardinality(Linked(t)) \in Nat /\ Cardinality(QuestionIds) \in Nat
  BY <1>2, FS_CardinalityType
<1> QED
  BY <1>2, <1>3

(* The tags of a question are tags, and its relations are relations. *)
LEMMA RelsType ==
  ASSUME NEW q \in QuestionIds
  PROVE  /\ TagsOf(q) \subseteq Tags
         /\ \A sts : RelsOf(q, sts) \subseteq Rels
BY DEF TagsOf, RelsOf, Rels

LEMMA NoSightType == NoSight \in QSights /\ NoEdit \in QEdits
<1>1. 0 \in 0..Cardinality(QuestionIds)
  BY FS_CardinalityType
<1> QED
  BY <1>1 DEF NoSight, QSights, NoEdit, QEdits, QStatuses, QOps

(* Statements that go from one line to another keep the types of the lines. *)
LEMMA QGotoType ==
  ASSUME QTypeOK, NEW w \in Editors, NEW from, NEW to \in QPCs, QGoto(w, from, to)
  PROVE  qpc' \in [Editors -> QPCs]
BY DEF QTypeOK, QGoto

LEMMA QDoneType ==
  ASSUME QTypeOK, NEW w \in Editors, QDone(w)
  PROVE  qreq' \in [Editors -> QEdits] /\ qseen' \in [Editors -> QSights]
BY NoSightType DEF QTypeOK, QDone

LEMMA ArrivesType ==
  ASSUME QTypeOK, NEW w \in Editors, NEW q \in QuestionIds, NEW op \in QOps,
         NEW ts \in SUBSET Tags, NEW s \in QSights, NEW to \in QPCs,
         QArrives(w, q, op, ts, s, to)
  PROVE  /\ qpc' \in [Editors -> QPCs]
         /\ qreq' \in [Editors -> QEdits] /\ qseen' \in [Editors -> QSights]
         /\ edits' \in 0..MaxEdits /\ lapses' \in 0..MaxLapses
         /\ late' \subseteq Editors /\ staleTags' \subseteq Tags /\ mixed' \subseteq QuestionIds
<1>1. qpc' \in [Editors -> QPCs]
  BY QGotoType DEF QArrives
<1>2. qreq' \in [Editors -> QEdits]
  <2>1. [op |-> op, on |-> q, tags |-> ts] \in QEdits
    BY DEF QEdits
  <2> QED
    BY <2>1 DEF QArrives, QTypeOK
<1>3. qseen' \in [Editors -> QSights]
  BY DEF QArrives, QTypeOK
<1> QED
  BY <1>1, <1>2, <1>3 DEF QArrives, QTypeOK

LEMMA SetRelsType ==
  ASSUME QTypeOK, NEW w \in Editors, NEW ks \in SUBSET Rels,
         NEW st \in {"available", "hide", "deleted"}, SetRels(w, ks, st)
  PROVE  /\ rel' \in [Rels -> {"none", "available", "hide", "deleted"}]
         /\ late' \subseteq Editors /\ staleTags' \subseteq Tags
<1>1. rel' \in [Rels -> {"none", "available", "hide", "deleted"}]
  BY DEF SetRels, QTypeOK
<1>2. late' \subseteq Editors
  BY DEF SetRels, QTypeOK
<1>3. {k[2] : k \in ks} \subseteq Tags
  BY DEF Rels
<1>4. staleTags' \subseteq Tags
  BY <1>3 DEF SetRels, QTypeOK
<1> QED
  BY <1>1, <1>2, <1>4

(* A request that is at work has a question. *)
LEMMA OnType ==
  ASSUME QShape, NEW w \in Editors, qpc[w] # "idle"
  PROVE  On(w) \in QuestionIds
BY DEF QShape, QTypeOK, QControl, On, QEdits

(* The lines of a request whose next statement is p, and those that follow. *)
LEMMA OpType ==
  ASSUME QShape, NEW w \in Editors
  PROVE  Op(w) \in QMayBe[qpc[w]] /\ qpc[w] \in QPCs
BY DEF QShape, QTypeOK, QControl

-----------------------------------------------------------------------------
LEMMA QInitInv == QInit => QInv
<1> SUFFICES ASSUME QInit PROVE QInv
  OBVIOUS
<1> USE DEF QInit
<1>1. QTypeOK
  <2>1. tagCount \in [Tags -> 0..Cardinality(QuestionIds)]
    BY LinkedNumber
  <2>2. qpc \in [Editors -> QPCs]
    BY DEF QPCs
  <2>3. qreq \in [Editors -> QEdits] /\ qseen \in [Editors -> QSights]
    BY NoSightType
  <2>4. qReview \in [QuestionIds -> {"none", "pending", "approved", "rejected"}]
    OBVIOUS
  <2>5. qStatus \in [QuestionIds -> QStatuses \cup {"none"}]
    BY DEF QStatuses
  <2>6. edits \in 0..MaxEdits /\ lapses \in 0..MaxLapses
    OBVIOUS
  <2> QED
    BY <2>1, <2>2, <2>3, <2>4, <2>5, <2>6 DEF QTypeOK
<1>2. QControl
  BY DEF QControl, QMayBe, QPCs, Op, On, NoEdit
<1>3. PinnedVisible
  BY DEF PinnedVisible
<1>4. PinSeen /\ WillRefresh /\ CountedRight
  BY DEF PinSeen, WillRefresh, WillRefreshOf, CountedRight, CountedRightOf, NoSight
<1>5. NumbersOwed
  BY DEF NumbersOwed
<1>6. AloneUnlessMixed
  BY DEF AloneUnlessMixed, On, NoEdit
<1>7. ASSUME NEW q \in QuestionIds PROVE HiddenRelsOf(q)
  <2> SUFFICES ASSUME q \in hidden, NEW t \in Tags
               PROVE  rel[<<q, t>>] # "available"
    BY DEF HiddenRelsOf
  <2>1. <<q, t>> \in Rels /\ <<q, t>>[1] = q /\ qStatus[q] = "available"
    BY DEF Rels
  <2> QED
    BY <2>1
<1>8. \A w \in Editors : HideUnderOf(w) /\ SightHoldsOf(w)
  BY DEF HideUnderOf, SightHoldsOf, Op, On, NoEdit, NoSight
<1> QED
  BY <1>1, <1>2, <1>3, <1>4, <1>5, <1>6, <1>7, <1>8 DEF QInv, NumbersInv, HiddenInv


-----------------------------------------------------------------------------
(* Every statement keeps the types, and says what the next one is for. *)
LEMMA ArrivesControl ==
  ASSUME QShape, NEW w \in Editors, NEW q \in QuestionIds, NEW op \in QOps,
         NEW ts \in SUBSET Tags, NEW s \in QSights,
         NEW to \in QPCs \ {"idle", "number"}, op \in QMayBe[to],
         QArrives(w, q, op, ts, s, to)
  PROVE  QControl'
BY DEF QArrives, QGoto, QShape, QTypeOK, QControl, Op, On, QuestionsAssumption

LEMMA AddQuestionShape ==
  ASSUME QShape, NEW w \in Editors, NEW q \in QuestionIds, NEW ts \in SUBSET Tags,
         AddQuestion(w, q, ts)
  PROVE  QShape'
<1> DEFINE s == NoSight
<1>1. QArrives(w, q, "add", ts, s, "ask")
  BY DEF AddQuestion
<1>2. s \in QSights
  BY NoSightType DEF QSights, QStatuses
<1>3. "add" \in QOps /\ "ask" \in QPCs \ {"idle", "number"} /\ "add" \in QMayBe["ask"]
  BY DEF QOps, QPCs, QMayBe
<1> HIDE DEF s
<1>4. QControl'
  BY <1>1, <1>2, <1>3, ArrivesControl
<1>5. QTypeOK'
  <2>1. /\ qpc' \in [Editors -> QPCs]
        /\ qreq' \in [Editors -> QEdits] /\ qseen' \in [Editors -> QSights]
        /\ edits' \in 0..MaxEdits /\ lapses' \in 0..MaxLapses
        /\ late' \subseteq Editors /\ staleTags' \subseteq Tags /\ mixed' \subseteq QuestionIds
    BY <1>1, <1>2, <1>3, ArrivesType DEF QShape
  <2> QED
    BY <2>1 DEF AddQuestion, QShape, QTypeOK, qQuestion, qTags, QStatuses
<1> QED
  BY <1>4, <1>5 DEF QShape

LEMMA SetQuestionStatusShape ==
  ASSUME QShape, NEW w \in Editors, NEW q \in QuestionIds, NEW st \in {"available", "closed", "deleted"},
         SetQuestionStatus(w, q, st)
  PROVE  QShape'
<1> DEFINE s == [NoSight EXCEPT !.status = st]
<1>1. QArrives(w, q, "set", {}, s, "status")
  BY DEF SetQuestionStatus
<1>2. s \in QSights
  BY NoSightType DEF QSights, QStatuses
<1>3. "set" \in QOps /\ "status" \in QPCs \ {"idle", "number"} /\ "set" \in QMayBe["status"]
  BY DEF QOps, QPCs, QMayBe
<1> HIDE DEF s
<1>4. QControl'
  BY <1>1, <1>2, <1>3, ArrivesControl
<1>5. QTypeOK'
  <2>1. /\ qpc' \in [Editors -> QPCs]
        /\ qreq' \in [Editors -> QEdits] /\ qseen' \in [Editors -> QSights]
        /\ edits' \in 0..MaxEdits /\ lapses' \in 0..MaxLapses
        /\ late' \subseteq Editors /\ staleTags' \subseteq Tags /\ mixed' \subseteq QuestionIds
    BY <1>1, <1>2, <1>3, ArrivesType DEF QShape
  <2> QED
    BY <2>1 DEF SetQuestionStatus, QShape, QTypeOK, qQuestion, qTags, QStatuses
<1> QED
  BY <1>4, <1>5 DEF QShape

LEMMA ReviewQuestionShape ==
  ASSUME QShape, NEW w \in Editors, NEW q \in QuestionIds, NEW st \in {"available", "deleted"},
         ReviewQuestion(w, q, st)
  PROVE  QShape'
<1> DEFINE s == [NoSight EXCEPT !.status = st]
<1>1. QArrives(w, q, "review", {}, s, "status")
  BY DEF ReviewQuestion
<1>2. s \in QSights
  BY NoSightType DEF QSights, QStatuses
<1>3. "review" \in QOps /\ "status" \in QPCs \ {"idle", "number"} /\ "review" \in QMayBe["status"]
  BY DEF QOps, QPCs, QMayBe
<1> HIDE DEF s
<1>4. QControl'
  BY <1>1, <1>2, <1>3, ArrivesControl
<1>5. QTypeOK'
  <2>1. /\ qpc' \in [Editors -> QPCs]
        /\ qreq' \in [Editors -> QEdits] /\ qseen' \in [Editors -> QSights]
        /\ edits' \in 0..MaxEdits /\ lapses' \in 0..MaxLapses
        /\ late' \subseteq Editors /\ staleTags' \subseteq Tags /\ mixed' \subseteq QuestionIds
    BY <1>1, <1>2, <1>3, ArrivesType DEF QShape
  <2> QED
    BY <2>1 DEF ReviewQuestion, QShape, QTypeOK, qQuestion, qTags, QStatuses
<1> QED
  BY <1>4, <1>5 DEF QShape

LEMMA RemoveQuestionShape ==
  ASSUME QShape, NEW w \in Editors, NEW q \in QuestionIds,
         RemoveQuestion(w, q)
  PROVE  QShape'
<1> DEFINE s == [NoSight EXCEPT !.status = "deleted"]
<1>1. QArrives(w, q, "remove", {}, s, "status")
  BY DEF RemoveQuestion
<1>2. s \in QSights
  BY NoSightType DEF QSights, QStatuses
<1>3. "remove" \in QOps /\ "status" \in QPCs \ {"idle", "number"} /\ "remove" \in QMayBe["status"]
  BY DEF QOps, QPCs, QMayBe
<1> HIDE DEF s
<1>4. QControl'
  BY <1>1, <1>2, <1>3, ArrivesControl
<1>5. QTypeOK'
  <2>1. /\ qpc' \in [Editors -> QPCs]
        /\ qreq' \in [Editors -> QEdits] /\ qseen' \in [Editors -> QSights]
        /\ edits' \in 0..MaxEdits /\ lapses' \in 0..MaxLapses
        /\ late' \subseteq Editors /\ staleTags' \subseteq Tags /\ mixed' \subseteq QuestionIds
    BY <1>1, <1>2, <1>3, ArrivesType DEF QShape
  <2> QED
    BY <2>1 DEF RemoveQuestion, QShape, QTypeOK, qQuestion, qTags, QStatuses
<1> QED
  BY <1>4, <1>5 DEF QShape

LEMMA RecoverQuestionShape ==
  ASSUME QShape, NEW w \in Editors, NEW q \in QuestionIds,
         RecoverQuestion(w, q)
  PROVE  QShape'
<1> DEFINE s == [NoSight EXCEPT !.status = "available"]
<1>1. QArrives(w, q, "recover", {}, s, "status")
  BY DEF RecoverQuestion
<1>2. s \in QSights
  BY NoSightType DEF QSights, QStatuses
<1>3. "recover" \in QOps /\ "status" \in QPCs \ {"idle", "number"} /\ "recover" \in QMayBe["status"]
  BY DEF QOps, QPCs, QMayBe
<1> HIDE DEF s
<1>4. QControl'
  BY <1>1, <1>2, <1>3, ArrivesControl
<1>5. QTypeOK'
  <2>1. /\ qpc' \in [Editors -> QPCs]
        /\ qreq' \in [Editors -> QEdits] /\ qseen' \in [Editors -> QSights]
        /\ edits' \in 0..MaxEdits /\ lapses' \in 0..MaxLapses
        /\ late' \subseteq Editors /\ staleTags' \subseteq Tags /\ mixed' \subseteq QuestionIds
    BY <1>1, <1>2, <1>3, ArrivesType DEF QShape
  <2> QED
    BY <2>1 DEF RecoverQuestion, QShape, QTypeOK, qQuestion, qTags, QStatuses
<1> QED
  BY <1>4, <1>5 DEF QShape

LEMMA EditQuestionShape ==
  ASSUME QShape, NEW w \in Editors, NEW q \in QuestionIds, NEW ts \in SUBSET Tags,
         EditQuestion(w, q, ts)
  PROVE  QShape'
<1> DEFINE s == NoSight
<1>1. QArrives(w, q, "edit", ts, s, "look")
  BY DEF EditQuestion
<1>2. s \in QSights
  BY NoSightType DEF QSights, QStatuses
<1>3. "edit" \in QOps /\ "look" \in QPCs \ {"idle", "number"} /\ "edit" \in QMayBe["look"]
  BY DEF QOps, QPCs, QMayBe
<1> HIDE DEF s
<1>4. QControl'
  BY <1>1, <1>2, <1>3, ArrivesControl
<1>5. QTypeOK'
  <2>1. /\ qpc' \in [Editors -> QPCs]
        /\ qreq' \in [Editors -> QEdits] /\ qseen' \in [Editors -> QSights]
        /\ edits' \in 0..MaxEdits /\ lapses' \in 0..MaxLapses
        /\ late' \subseteq Editors /\ staleTags' \subseteq Tags /\ mixed' \subseteq QuestionIds
    BY <1>1, <1>2, <1>3, ArrivesType DEF QShape
  <2> QED
    BY <2>1 DEF EditQuestion, QShape, QTypeOK, qQuestion, qTags, QStatuses
<1> QED
  BY <1>4, <1>5 DEF QShape

LEMMA OperationQuestionShape ==
  ASSUME QShape, NEW w \in Editors, NEW q \in QuestionIds, NEW op \in Operations,
         OperationQuestion(w, q, op)
  PROVE  QShape'
<1> DEFINE s == [NoSight EXCEPT !.pin = IF op \in {"pin", "unpin"} THEN op = "pin" ELSE q \in pinned,
                                !.hide = IF op \in {"hide", "show"} THEN op = "hide" ELSE q \in hidden]
           to == IF op \in {"hide", "show"} THEN op ELSE "operation"
<1>1. QArrives(w, q, op, {}, s, to)
  BY DEF OperationQuestion
<1>2. s \in QSights
  <2> DEFINE p == IF op \in {"pin", "unpin"} THEN op = "pin" ELSE q \in pinned
             h == IF op \in {"hide", "show"} THEN op = "hide" ELSE q \in hidden
  <2>1. p \in BOOLEAN /\ h \in BOOLEAN
    <3>1. (op = "pin") \in BOOLEAN
      OBVIOUS
    <3>2. (op = "hide") \in BOOLEAN
      OBVIOUS
    <3>3. (q \in pinned) \in BOOLEAN
      OBVIOUS
    <3>4. (q \in hidden) \in BOOLEAN
      OBVIOUS
    <3>5. p \in BOOLEAN
      BY <3>1, <3>3, Zenon
    <3>6. h \in BOOLEAN
      BY <3>2, <3>4, Zenon
    <3> QED
      BY <3>5, <3>6
  <2>2. s = [NoSight EXCEPT !.pin = p, !.hide = h]
    OBVIOUS
  <2> HIDE DEF p, h, s
  <2>3. [NoSight EXCEPT !.pin = p, !.hide = h] \in QSights
    BY <2>1, NoSightType DEF QSights
  <2> QED
    BY <2>2, <2>3
<1>3. op \in QOps /\ to \in QPCs \ {"idle", "number"} /\ op \in QMayBe[to] /\ {} \in SUBSET Tags
  BY DEF QOps, QPCs, QMayBe, Operations
<1>4. UNCHANGED <<qQuestion, qTags>>
  BY DEF OperationQuestion
<1> HIDE DEF s, to
<1>5. QControl'
  BY <1>1, <1>2, <1>3, ArrivesControl
<1>6. QTypeOK'
  <2>1. /\ qpc' \in [Editors -> QPCs]
        /\ qreq' \in [Editors -> QEdits] /\ qseen' \in [Editors -> QSights]
        /\ edits' \in 0..MaxEdits /\ lapses' \in 0..MaxLapses
        /\ late' \subseteq Editors /\ staleTags' \subseteq Tags /\ mixed' \subseteq QuestionIds
    BY <1>1, <1>2, <1>3, ArrivesType DEF QShape
  <2> QED
    BY <2>1, <1>4 DEF QShape, QTypeOK, qQuestion, qTags
<1> QED
  BY <1>5, <1>6 DEF QShape

(* One statement after another: the next one is for the same request. *)
LEMMA GotoControl ==
  ASSUME QShape, NEW w \in Editors, NEW from, NEW to \in QPCs \ {"idle", "number"},
         QGoto(w, from, to), from # "idle", Op(w) \in QMayBe[to], qreq' = qreq,
         \A v \in Editors \ {w} : qseen'[v] = qseen[v]
  PROVE  QControl'
BY DEF QGoto, QShape, QTypeOK, QControl, Op, On

LEMMA ReturnControl ==
  ASSUME QShape, NEW w \in Editors, qpc' = [qpc EXCEPT ![w] = "idle"], QDone(w)
  PROVE  QControl' /\ qpc' \in [Editors -> QPCs]
<1>1. "none" \in QMayBe["idle"] /\ "idle" \in QPCs
  BY DEF QMayBe, QPCs
<1> QED
  BY <1>1 DEF QDone, NoEdit, QShape, QTypeOK, QControl, Op, On

LEMMA AddQuestionReviewShape ==
  ASSUME QShape, NEW w \in Editors, AddQuestionReview(w)
  PROVE  QShape'
<1>1. On(w) \in QuestionIds /\ Op(w) \in QMayBe["status"]
  BY OnType DEF AddQuestionReview, QGoto, QShape, QControl, QMayBe, QPCs
<1>2. PICK d \in QStatuses \ {"closed"} :
        /\ qseen' = [qseen EXCEPT ![w].status = d]
        /\ qReview' = IF d = "pending" THEN [qReview EXCEPT ![On(w)] = "pending"] ELSE qReview
  BY DEF AddQuestionReview
<1>3. qpc' \in [Editors -> QPCs]
  BY QGotoType DEF AddQuestionReview, QShape, QPCs
<1>4. qseen' \in [Editors -> QSights]
  BY <1>2 DEF QShape, QTypeOK, QSights
<1>5. qReview' \in [QuestionIds -> {"none", "pending", "approved", "rejected"}]
  BY <1>1, <1>2 DEF QShape, QTypeOK
<1>6. QTypeOK'
  BY <1>3, <1>4, <1>5 DEF AddQuestionReview, QShape, QTypeOK, qTags, qHistory
<1>7. QControl'
  BY <1>1, <1>2, GotoControl DEF AddQuestionReview, QPCs, QShape, QTypeOK
<1> QED
  BY <1>6, <1>7 DEF QShape

LEMMA WriteQuestionStatusShape ==
  ASSUME QShape, NEW w \in Editors, WriteQuestionStatus(w)
  PROVE  QShape'
<1>1. On(w) \in QuestionIds /\ Op(w) \in {"add", "set", "review", "remove", "recover"}
  BY OnType DEF WriteQuestionStatus, QShape, QControl, QMayBe, QPCs
<1>2. qStatus' \in [QuestionIds -> QStatuses \cup {"none"}]
  BY <1>1 DEF WriteQuestionStatus, QShape, QTypeOK, QSights
<1>3. UNCHANGED <<pinned, hidden, qReview, rel, tagCount, edits, lapses, late, staleTags, mixed>>
  BY DEF WriteQuestionStatus, qTags, qHistory
<1>4. CASE Op(w) = "set"
  <2>1. qpc' = [qpc EXCEPT ![w] = "idle"] /\ QDone(w)
    BY <1>4 DEF WriteQuestionStatus, AfterStatus
  <2>2. qreq' \in [Editors -> QEdits] /\ qseen' \in [Editors -> QSights]
    BY <2>1, QDoneType DEF QShape
  <2>3. QControl' /\ qpc' \in [Editors -> QPCs]
    BY <2>1, ReturnControl
  <2> QED
    BY <2>2, <2>3, <1>2, <1>3 DEF QShape, QTypeOK
<1>5. CASE Op(w) # "set"
  <2>1. AfterStatus[Op(w)] \in QPCs \ {"idle", "number"} /\ Op(w) \in QMayBe[AfterStatus[Op(w)]]
    BY <1>1, <1>5 DEF AfterStatus, QPCs, QMayBe
  <2>2. QGoto(w, "status", AfterStatus[Op(w)]) /\ UNCHANGED <<qreq, qseen>>
    BY <1>5 DEF WriteQuestionStatus, QGoto
  <2>3. QControl'
    BY <2>1, <2>2, GotoControl
  <2>4. qpc' \in [Editors -> QPCs]
    BY <2>1, <2>2, QGotoType DEF QShape
  <2> QED
    BY <2>2, <2>3, <2>4, <1>2, <1>3 DEF QShape, QTypeOK
<1> QED
  BY <1>4, <1>5

LEMMA SettleQuestionReviewShape ==
  ASSUME QShape, NEW w \in Editors, SettleQuestionReview(w)
  PROVE  QShape'
<1>1. On(w) \in QuestionIds /\ qpc' = [qpc EXCEPT ![w] = "idle"] /\ QDone(w)
  BY OnType DEF SettleQuestionReview, QReturn, QGoto
<1>2. qReview' \in [QuestionIds -> {"none", "pending", "approved", "rejected"}]
  BY <1>1 DEF SettleQuestionReview, QShape, QTypeOK
<1>3. QControl' /\ qpc' \in [Editors -> QPCs]
  BY <1>1, ReturnControl
<1>4. qreq' \in [Editors -> QEdits] /\ qseen' \in [Editors -> QSights]
  BY <1>1, QDoneType DEF QShape
<1> QED
  BY <1>2, <1>3, <1>4 DEF SettleQuestionReview, QShape, QTypeOK, qTags, qHistory

LEMMA RejectReviewShape ==
  ASSUME QShape, NEW w \in Editors, RejectReview(w)
  PROVE  QShape'
<1>1. On(w) \in QuestionIds /\ Op(w) \in QMayBe["list_all"]
  BY OnType DEF RejectReview, QGoto, QShape, QControl, QMayBe, QPCs
<1>2. qReview' \in [QuestionIds -> {"none", "pending", "approved", "rejected"}]
  BY <1>1 DEF RejectReview, QShape, QTypeOK
<1>3. QControl'
  BY <1>1, GotoControl DEF RejectReview, QPCs
<1>4. qpc' \in [Editors -> QPCs]
  BY QGotoType DEF RejectReview, QShape, QPCs
<1> QED
  BY <1>2, <1>3, <1>4 DEF RejectReview, QShape, QTypeOK, qTags, qHistory

(* What a request remembers may change field by field. *)
LEMMA SightEdits ==
  ASSUME NEW s \in QSights
  PROVE  /\ \A r \in SUBSET Tags : [s EXCEPT !.refresh = r] \in QSights
         /\ \A o, n, r \in SUBSET Tags, d \in {"available", "hide"} :
              [s EXCEPT !.old = o, !.new = n, !.default = d, !.refresh = r] \in QSights
         /\ \A t \in Tags \cup {NoTag}, n \in 0..Cardinality(QuestionIds) :
              [s EXCEPT !.tag = t, !.n = n] \in QSights
         /\ \A r \in SUBSET Tags, t \in Tags \cup {NoTag}, n \in 0..Cardinality(QuestionIds) :
              [s EXCEPT !.refresh = r, !.tag = t, !.n = n] \in QSights
BY DEF QSights

(* A statement that changes relations, *)
LEMMA RelStatement ==
  ASSUME QShape, NEW w \in Editors, NEW from, NEW to \in QPCs \ {"idle", "number"},
         QGoto(w, from, to), from # "idle", Op(w) \in QMayBe[to],
         NEW ks \in SUBSET Rels, NEW st \in {"available", "hide", "deleted"}, SetRels(w, ks, st),
         mixed' \subseteq QuestionIds,
         UNCHANGED <<qQuestion, tagCount, qreq, qseen, edits, lapses>>
  PROVE  QShape'
<1>1. QControl'
  BY GotoControl
<1>2. qpc' \in [Editors -> QPCs]
  BY QGotoType DEF QShape
<1>3. /\ rel' \in [Rels -> {"none", "available", "hide", "deleted"}]
      /\ late' \subseteq Editors /\ staleTags' \subseteq Tags
  BY SetRelsType DEF QShape
<1> QED
  BY <1>1, <1>2, <1>3 DEF QShape, QTypeOK, qQuestion

(* and one that reads. *)
LEMMA ReadStatement ==
  ASSUME QShape, NEW w \in Editors, NEW from, NEW to \in QPCs \ {"idle", "number"},
         QGoto(w, from, to), from # "idle", Op(w) \in QMayBe[to],
         NEW s \in QSights, qseen' = [qseen EXCEPT ![w] = s],
         UNCHANGED <<qQuestion, qTags, qreq, edits, lapses, qHistory>>
  PROVE  QShape'
<1>1. \A v \in Editors \ {w} : qseen'[v] = qseen[v]
  BY DEF QShape, QTypeOK
<1>2. QControl'
  BY <1>1, GotoControl
<1>3. qpc' \in [Editors -> QPCs]
  BY QGotoType DEF QShape
<1>4. qseen' \in [Editors -> QSights]
  BY DEF QShape, QTypeOK
<1> QED
  BY <1>2, <1>3, <1>4 DEF QShape, QTypeOK, qQuestion, qTags, qHistory

LEMMA DropTagsShape ==
  ASSUME QShape, NEW w \in Editors, DropTags(w)
  PROVE  QShape'
<1> DEFINE ks == {On(w)} \X qseen[w].old
<1>1. QGoto(w, "drop", "link") /\ SetRels(w, ks, "deleted") /\ On(w) \in QuestionIds
  BY OnType DEF DropTags, QGoto
<1>2. ks \in SUBSET Rels /\ "deleted" \in {"available", "hide", "deleted"}
  BY <1>1, RelsType DEF Rels, QShape, QTypeOK, QSights
<1>3. "link" \in QPCs \ {"idle", "number"} /\ Op(w) \in QMayBe["link"]
  BY <1>1, OpType DEF QGoto, QMayBe, QPCs
<1>4. mixed' \subseteq QuestionIds /\ UNCHANGED <<qQuestion, tagCount, qreq, qseen, edits, lapses>>
  BY <1>1 DEF DropTags, QShape, QTypeOK
<1> HIDE DEF ks
<1> QED
  BY <1>1, <1>2, <1>3, <1>4, RelStatement

LEMMA LinkTagsShape ==
  ASSUME QShape, NEW w \in Editors, LinkTags(w)
  PROVE  QShape'
<1> DEFINE ks == {On(w)} \X qseen[w].new
<1>1. QGoto(w, "link", "count") /\ SetRels(w, ks, qseen[w].default) /\ On(w) \in QuestionIds
  BY OnType DEF LinkTags, QGoto
<1>2. ks \in SUBSET Rels /\ qseen[w].default \in {"available", "hide", "deleted"}
  BY <1>1, RelsType DEF Rels, QShape, QTypeOK, QSights
<1>3. "count" \in QPCs \ {"idle", "number"} /\ Op(w) \in QMayBe["count"]
  BY <1>1, OpType DEF QGoto, QMayBe, QPCs
<1>4. mixed' \subseteq QuestionIds /\ UNCHANGED <<qQuestion, tagCount, qreq, qseen, edits, lapses>>
  BY <1>1 DEF LinkTags, QShape, QTypeOK
<1> HIDE DEF ks
<1> QED
  BY <1>1, <1>2, <1>3, <1>4, RelStatement

LEMMA HideTagRelsShape ==
  ASSUME QShape, NEW w \in Editors, HideTagRels(w)
  PROVE  QShape'
<1> DEFINE ks == RelsOf(On(w), {"available"})
<1>1. QGoto(w, "hide", "list") /\ SetRels(w, ks, "hide") /\ On(w) \in QuestionIds
  BY OnType DEF HideTagRels, QGoto
<1>2. ks \in SUBSET Rels /\ "hide" \in {"available", "hide", "deleted"}
  BY <1>1, RelsType DEF Rels, QShape, QTypeOK, QSights
<1>3. "list" \in QPCs \ {"idle", "number"} /\ Op(w) \in QMayBe["list"]
  BY <1>1, OpType DEF QGoto, QMayBe, QPCs
<1>4. mixed' \subseteq QuestionIds /\ UNCHANGED <<qQuestion, tagCount, qreq, qseen, edits, lapses>>
  BY <1>1 DEF HideTagRels, QShape, QTypeOK
<1> HIDE DEF ks
<1> QED
  BY <1>1, <1>2, <1>3, <1>4, RelStatement

LEMMA ShowTagRelsShape ==
  ASSUME QShape, NEW w \in Editors, ShowTagRels(w)
  PROVE  QShape'
<1> DEFINE ks == RelsOf(On(w), {"hide"})
<1>1. QGoto(w, "show", "list") /\ SetRels(w, ks, "available") /\ On(w) \in QuestionIds
  BY OnType DEF ShowTagRels, QGoto
<1>2. ks \in SUBSET Rels /\ "available" \in {"available", "hide", "deleted"}
  BY <1>1, RelsType DEF Rels, QShape, QTypeOK, QSights
<1>3. "list" \in QPCs \ {"idle", "number"} /\ Op(w) \in QMayBe["list"]
  BY <1>1, OpType DEF QGoto, QMayBe, QPCs
<1>4. mixed' \subseteq QuestionIds /\ UNCHANGED <<qQuestion, tagCount, qreq, qseen, edits, lapses>>
  BY <1>1 DEF ShowTagRels, QShape, QTypeOK
<1> HIDE DEF ks
<1> QED
  BY <1>1, <1>2, <1>3, <1>4, RelStatement

LEMMA RemoveTagRelsShape ==
  ASSUME QShape, NEW w \in Editors, RemoveTagRels(w)
  PROVE  QShape'
<1> DEFINE ks == RelsOf(On(w), {"available", "hide", "deleted"})
<1>1. QGoto(w, "drop_all", "count") /\ SetRels(w, ks, "deleted") /\ On(w) \in QuestionIds
  BY OnType DEF RemoveTagRels, QGoto
<1>2. ks \in SUBSET Rels /\ "deleted" \in {"available", "hide", "deleted"}
  BY <1>1, RelsType DEF Rels, QShape, QTypeOK, QSights
<1>3. "count" \in QPCs \ {"idle", "number"} /\ Op(w) \in QMayBe["count"]
  BY <1>1, OpType DEF QGoto, QMayBe, QPCs
<1>4. mixed' \subseteq QuestionIds /\ UNCHANGED <<qQuestion, tagCount, qreq, qseen, edits, lapses>>
  BY <1>1 DEF RemoveTagRels, QShape, QTypeOK
<1> HIDE DEF ks
<1> QED
  BY <1>1, <1>2, <1>3, <1>4, RelStatement

LEMMA RecoverTagRelsShape ==
  ASSUME QShape, NEW w \in Editors, RecoverTagRels(w)
  PROVE  QShape'
<1> DEFINE ks == RelsOf(On(w), {"available", "hide", "deleted"})
<1>1. QGoto(w, "recover_rels", "list") /\ SetRels(w, ks, "available") /\ On(w) \in QuestionIds
  BY OnType DEF RecoverTagRels, QGoto
<1>2. ks \in SUBSET Rels /\ "available" \in {"available", "hide", "deleted"}
  BY <1>1, RelsType DEF Rels, QShape, QTypeOK, QSights
<1>3. "list" \in QPCs \ {"idle", "number"} /\ Op(w) \in QMayBe["list"]
  BY <1>1, OpType DEF QGoto, QMayBe, QPCs
<1>4. mixed' \subseteq QuestionIds /\ UNCHANGED <<qQuestion, tagCount, qreq, qseen, edits, lapses>>
  BY <1>1 DEF RecoverTagRels, QShape, QTypeOK
<1> HIDE DEF ks
<1> QED
  BY <1>1, <1>2, <1>3, <1>4, RelStatement

LEMMA LookAtTagsShape ==
  ASSUME QShape, NEW w \in Editors, LookAtTags(w)
  PROVE  QShape'
<1> DEFINE s == [qseen[w] EXCEPT !.old = TagsOf(On(w)) \ qreq[w].tags,
                               !.new = qreq[w].tags \ TagsOf(On(w)),
                               !.default = DefaultStatus(On(w)),
                               !.refresh = qreq[w].tags \cup TagsOf(On(w))]
<1>1. QGoto(w, "look", "drop") /\ On(w) \in QuestionIds
  BY OnType DEF LookAtTags, QGoto
<1>2. TagsOf(On(w)) \subseteq Tags /\ DefaultStatus(On(w)) \in {"available", "hide"}
  BY <1>1, RelsType DEF DefaultStatus
<1>3. s \in QSights
  <2> DEFINE o == TagsOf(On(w)) \ qreq[w].tags
             n == qreq[w].tags \ TagsOf(On(w))
             r == qreq[w].tags \cup TagsOf(On(w))
  <2>1. qseen[w] \in QSights /\ o \in SUBSET Tags /\ n \in SUBSET Tags /\ r \in SUBSET Tags
    BY <1>2 DEF QShape, QTypeOK, QEdits
  <2> HIDE DEF o, n, r
  <2>2. [qseen[w] EXCEPT !.old = o, !.new = n, !.default = DefaultStatus(On(w)), !.refresh = r]
          \in QSights
    BY <1>2, <2>1, SightEdits
  <2> QED
    BY <2>2 DEF o, n, r
<1>4. qseen' = [qseen EXCEPT ![w] = s]
  BY DEF LookAtTags, QShape, QTypeOK
<1>5. "drop" \in QPCs \ {"idle", "number"} /\ Op(w) \in QMayBe["drop"]
  BY <1>1, OpType DEF QGoto, QMayBe, QPCs
<1>6. UNCHANGED <<qQuestion, qTags, qreq, edits, lapses, qHistory>>
  BY DEF LookAtTags
<1> HIDE DEF s
<1> QED
  BY <1>1, <1>3, <1>4, <1>5, <1>6, ReadStatement

LEMMA ListAllTagsShape ==
  ASSUME QShape, NEW w \in Editors, ListAllTags(w)
  PROVE  QShape'
<1> DEFINE s == [qseen[w] EXCEPT !.refresh = TagsOf(On(w))]
<1>1. QGoto(w, "list_all", "drop_all") /\ On(w) \in QuestionIds
  BY OnType DEF ListAllTags, QGoto
<1>2. TagsOf(On(w)) \subseteq Tags
  BY <1>1, RelsType
<1>3. s \in QSights
  <2>1. qseen[w] \in QSights /\ TagsOf(On(w)) \in SUBSET Tags
    BY <1>2 DEF QShape, QTypeOK
  <2> QED
    BY <2>1, SightEdits
<1>4. qseen' = [qseen EXCEPT ![w] = s]
  BY DEF ListAllTags, QShape, QTypeOK
<1>5. "drop_all" \in QPCs \ {"idle", "number"} /\ Op(w) \in QMayBe["drop_all"]
  BY <1>1, OpType DEF QGoto, QMayBe, QPCs
<1>6. UNCHANGED <<qQuestion, qTags, qreq, edits, lapses, qHistory>>
  BY DEF ListAllTags
<1> HIDE DEF s
<1> QED
  BY <1>1, <1>3, <1>4, <1>5, <1>6, ReadStatement

LEMMA ListTagsShape ==
  ASSUME QShape, NEW w \in Editors, ListTags(w)
  PROVE  QShape'
<1> DEFINE s == [qseen[w] EXCEPT !.refresh = TagsOf(On(w))]
<1>1. QGoto(w, "list", "count") /\ On(w) \in QuestionIds
  BY OnType DEF ListTags, QGoto
<1>2. TagsOf(On(w)) \subseteq Tags
  BY <1>1, RelsType
<1>3. s \in QSights
  <2>1. qseen[w] \in QSights /\ TagsOf(On(w)) \in SUBSET Tags
    BY <1>2 DEF QShape, QTypeOK
  <2> QED
    BY <2>1, SightEdits
<1>4. qseen' = [qseen EXCEPT ![w] = s]
  BY DEF ListTags, QShape, QTypeOK
<1>5. "count" \in QPCs \ {"idle", "number"} /\ Op(w) \in QMayBe["count"]
  BY <1>1, OpType DEF QGoto, QMayBe, QPCs
<1>6. UNCHANGED <<qQuestion, qTags, qreq, edits, lapses, qHistory>>
  BY DEF ListTags
<1> HIDE DEF s
<1> QED
  BY <1>1, <1>3, <1>4, <1>5, <1>6, ReadStatement

LEMMA CountTagShape ==
  ASSUME QShape, NEW w \in Editors, NEW t \in Tags, CountTag(w, t)
  PROVE  QShape'
<1> DEFINE c == Cardinality(Linked(t))
<1>1. c \in 0..Cardinality(QuestionIds)
  BY LinkedNumber
<1>2. /\ QGoto(w, "count", "number") /\ t \in qseen[w].refresh
      /\ qseen' = [qseen EXCEPT ![w].tag = t, ![w].n = c]
      /\ UNCHANGED <<qQuestion, qTags, qreq, edits, lapses, qHistory>>
  BY DEF CountTag
<1> HIDE DEF c
<1>3. qseen' \in [Editors -> QSights]
  <2>1. [qseen[w] EXCEPT !.tag = t, !.n = c] \in QSights
    BY <1>1, SightEdits DEF QShape, QTypeOK
  <2>2. qseen' = [qseen EXCEPT ![w] = [qseen[w] EXCEPT !.tag = t, !.n = c]]
    BY <1>2 DEF QShape, QTypeOK
  <2> QED
    BY <2>1, <2>2 DEF QShape, QTypeOK
<1>4. qpc' \in [Editors -> QPCs]
  BY <1>2, QGotoType DEF QShape, QPCs
<1>5. QControl'
  <2>1. Op(w) \in QMayBe["number"]
    BY <1>2, OpType DEF QGoto, QMayBe, QPCs
  <2>2. qseen'[w].tag = t /\ qseen'[w].refresh = qseen[w].refresh
    BY <1>2 DEF QShape, QTypeOK, QSights
  <2>3. \A v \in Editors \ {w} : qseen'[v] = qseen[v]
    BY <1>2 DEF QShape, QTypeOK
  <2> QED
    BY <1>2, <2>1, <2>2, <2>3 DEF QGoto, QShape, QTypeOK, QControl, Op, On
<1> QED
  BY <1>2, <1>3, <1>4, <1>5 DEF QShape, QTypeOK, qQuestion, qTags, qHistory

LEMMA WriteTagCountShape ==
  ASSUME QShape, NEW w \in Editors, WriteTagCount(w)
  PROVE  QShape'
<1> DEFINE t == qseen[w].tag
<1>1. /\ QGoto(w, "number", "count") /\ qpc[w] = "number"
      /\ tagCount' = [tagCount EXCEPT ![t] = qseen[w].n]
      /\ staleTags' = IF w \in late THEN staleTags \cup {t} ELSE staleTags \ {t}
      /\ late' = late \cup {v \in Editors \ {w} : qpc[v] # "idle"}
      /\ qseen' = [qseen EXCEPT ![w].refresh = @ \ {t}, ![w].tag = NoTag, ![w].n = 0]
      /\ UNCHANGED <<qQuestion, rel, qreq, edits, lapses, mixed>>
  BY DEF WriteTagCount, QGoto
<1>2. t \in Tags /\ qseen[w].n \in 0..Cardinality(QuestionIds) /\ 0 \in 0..Cardinality(QuestionIds)
  BY <1>1, FS_CardinalityType DEF QShape, QTypeOK, QControl, QSights
<1> HIDE DEF t
<1>3. qseen' \in [Editors -> QSights]
  <2> DEFINE s == [qseen[w] EXCEPT !.refresh = qseen[w].refresh \ {t}, !.tag = NoTag, !.n = 0]
  <2>1. qseen[w] \in QSights /\ qseen[w].refresh \ {t} \in SUBSET Tags
    BY DEF QShape, QTypeOK, QSights
  <2>2. s \in QSights
    BY <1>2, <2>1, SightEdits
  <2>3. qseen' = [qseen EXCEPT ![w] = s]
    BY <1>1 DEF QShape, QTypeOK
  <2> HIDE DEF s
  <2> QED
    BY <2>2, <2>3 DEF QShape, QTypeOK
<1>4. qpc' \in [Editors -> QPCs]
  BY <1>1, QGotoType DEF QShape, QPCs
<1>5. QControl'
  <2>1. "count" \in QPCs \ {"idle", "number"} /\ Op(w) \in QMayBe["count"]
    BY <1>1, OpType DEF QMayBe, QPCs
  <2>2. \A v \in Editors \ {w} : qseen'[v] = qseen[v]
    BY <1>1 DEF QShape, QTypeOK
  <2> QED
    BY <1>1, <2>1, <2>2, GotoControl
<1>6. tagCount' \in [Tags -> 0..Cardinality(QuestionIds)]
  BY <1>1, <1>2 DEF QShape, QTypeOK
<1>7. late' \subseteq Editors /\ staleTags' \subseteq Tags
  BY <1>1, <1>2 DEF QShape, QTypeOK
<1> QED
  BY <1>1, <1>3, <1>4, <1>5, <1>6, <1>7 DEF QShape, QTypeOK, qQuestion

LEMMA CountedAllShape ==
  ASSUME QShape, NEW w \in Editors, CountedAll(w)
  PROVE  QShape'
<1>1. qpc[w] = "count" /\ UNCHANGED <<qQuestion, qTags, edits, lapses, qHistory>>
  BY DEF CountedAll
<1>2. CASE Op(w) \in {"hide", "show"}
  <2>1. QGoto(w, "count", "operation") /\ UNCHANGED <<qreq, qseen>>
    BY <1>2 DEF CountedAll
  <2>2. "operation" \in QPCs \ {"idle", "number"} /\ Op(w) \in QMayBe["operation"]
    BY <1>2 DEF QMayBe, QPCs, Operations
  <2>3. QControl'
    BY <2>1, <2>2, GotoControl
  <2>4. qpc' \in [Editors -> QPCs]
    BY <2>1, <2>2, QGotoType DEF QShape
  <2> QED
    BY <1>1, <2>1, <2>3, <2>4 DEF QShape, QTypeOK, qQuestion, qTags, qHistory
<1>3. CASE Op(w) \notin {"hide", "show"}
  <2>1. qpc' = [qpc EXCEPT ![w] = "idle"] /\ QDone(w)
    BY <1>3 DEF CountedAll, QReturn, QGoto
  <2>2. QControl' /\ qpc' \in [Editors -> QPCs]
    BY <2>1, ReturnControl
  <2>3. qreq' \in [Editors -> QEdits] /\ qseen' \in [Editors -> QSights]
    BY <2>1, QDoneType DEF QShape
  <2> QED
    BY <1>1, <2>2, <2>3 DEF QShape, QTypeOK, qQuestion, qTags, qHistory
<1> QED
  BY <1>2, <1>3

LEMMA UpdateQuestionOperationShape ==
  ASSUME QShape, NEW w \in Editors, UpdateQuestionOperation(w)
  PROVE  QShape'
<1>1. On(w) \in QuestionIds /\ qpc' = [qpc EXCEPT ![w] = "idle"] /\ QDone(w)
  BY OnType DEF UpdateQuestionOperation, QReturn, QGoto
<1>2. QControl' /\ qpc' \in [Editors -> QPCs]
  BY <1>1, ReturnControl
<1>3. qreq' \in [Editors -> QEdits] /\ qseen' \in [Editors -> QSights]
  BY <1>1, QDoneType DEF QShape
<1>4. pinned' \subseteq QuestionIds /\ hidden' \subseteq QuestionIds
  BY <1>1 DEF UpdateQuestionOperation, QShape, QTypeOK
<1> QED
  BY <1>2, <1>3, <1>4 DEF UpdateQuestionOperation, QShape, QTypeOK, qTags, qHistory

LEMMA QBreakOffShape ==
  ASSUME QShape, NEW w \in Editors, QBreakOff(w)
  PROVE  QShape'
<1>1. On(w) \in QuestionIds /\ qpc' = [qpc EXCEPT ![w] = "idle"] /\ QDone(w)
  BY OnType DEF QBreakOff
<1>2. QControl' /\ qpc' \in [Editors -> QPCs]
  BY <1>1, ReturnControl
<1>3. qreq' \in [Editors -> QEdits] /\ qseen' \in [Editors -> QSights]
  BY <1>1, QDoneType DEF QShape
<1>4. qStatus' \in [QuestionIds -> QStatuses \cup {"none"}]
  BY <1>1 DEF QBreakOff, QShape, QTypeOK
<1>5. \A k \in RelsOf(On(w), {"available", "hide", "deleted"}) : k[2] \in Tags
  BY DEF RelsOf, Rels
<1>6. lapses' \in 0..MaxLapses
  BY DEF QBreakOff, QShape, QTypeOK
<1> QED
  BY <1>1, <1>2, <1>3, <1>4, <1>5, <1>6 DEF QBreakOff, QShape, QTypeOK, qTags

(* Hence every step keeps the types. *)
LEMMA ShapeStep == QShape /\ [QNext]_qVars => QShape'
<1> SUFFICES ASSUME QShape, [QNext]_qVars PROVE QShape'
  OBVIOUS
<1>1. CASE UNCHANGED qVars
  BY <1>1 DEF qVars, qQuestion, qTags, qHistory, QShape, QTypeOK, QControl, Op, On
<1>2. ASSUME NEW w \in Editors, QEdit(w) PROVE QShape'
  BY <1>2, AddQuestionShape, EditQuestionShape, SetQuestionStatusShape, ReviewQuestionShape,
     OperationQuestionShape, RemoveQuestionShape, RecoverQuestionShape, AddQuestionReviewShape,
     WriteQuestionStatusShape, SettleQuestionReviewShape, RejectReviewShape, LookAtTagsShape,
     DropTagsShape, LinkTagsShape, HideTagRelsShape, ShowTagRelsShape,
     UpdateQuestionOperationShape, ListAllTagsShape, RemoveTagRelsShape, RecoverTagRelsShape,
     ListTagsShape, CountTagShape, WriteTagCountShape, CountedAllShape, QBreakOffShape
     DEF QEdit
<1> QED
  BY <1>1, <1>2 DEF QNext

-----------------------------------------------------------------------------
(* A statement of one request leaves the others where they are. *)
LEMMA OthersStay ==
  ASSUME QShape, NEW w \in Editors, QEdit(w), NEW v \in Editors \ {w}
  PROVE  qpc'[v] = qpc[v] /\ qreq'[v] = qreq[v] /\ qseen'[v] = qseen[v]
<1> DEFINE Same == qpc'[v] = qpc[v] /\ qreq'[v] = qreq[v] /\ qseen'[v] = qseen[v]
<1>1. ASSUME NEW q, NEW op, NEW ts, NEW s, NEW to, QArrives(w, q, op, ts, s, to) PROVE Same
  BY <1>1 DEF QArrives, QGoto, QShape, QTypeOK
<1>2. ASSUME NEW q, NEW ts, AddQuestion(w, q, ts) \/ EditQuestion(w, q, ts) PROVE Same
  BY <1>1, <1>2 DEF AddQuestion, EditQuestion
<1>3. ASSUME NEW q, NEW st, SetQuestionStatus(w, q, st) \/ ReviewQuestion(w, q, st) PROVE Same
  BY <1>1, <1>3 DEF SetQuestionStatus, ReviewQuestion
<1>4. ASSUME NEW q, NEW op, OperationQuestion(w, q, op) PROVE Same
  BY <1>1, <1>4 DEF OperationQuestion
<1>5. ASSUME NEW q, RemoveQuestion(w, q) \/ RecoverQuestion(w, q) PROVE Same
  BY <1>1, <1>5 DEF RemoveQuestion, RecoverQuestion
<1>6. ASSUME AddQuestionReview(w) \/ WriteQuestionStatus(w) \/ SettleQuestionReview(w) \/ RejectReview(w)
      PROVE  Same
  BY <1>6 DEF AddQuestionReview, WriteQuestionStatus, SettleQuestionReview, RejectReview,
              QReturn, QGoto, QDone, QShape, QTypeOK
<1>7. ASSUME LookAtTags(w) \/ ListAllTags(w) \/ ListTags(w) \/ (\E t \in Tags : CountTag(w, t))
      PROVE  Same
  BY <1>7 DEF LookAtTags, ListAllTags, ListTags, CountTag, QGoto, QShape, QTypeOK
<1>8. ASSUME \/ DropTags(w) \/ LinkTags(w) \/ HideTagRels(w) \/ ShowTagRels(w)
             \/ RemoveTagRels(w) \/ RecoverTagRels(w)
      PROVE  Same
  BY <1>8 DEF DropTags, LinkTags, HideTagRels, ShowTagRels, RemoveTagRels, RecoverTagRels,
              QGoto, QShape, QTypeOK
<1>9. ASSUME WriteTagCount(w) \/ CountedAll(w) \/ UpdateQuestionOperation(w) \/ QBreakOff(w)
      PROVE  Same
  BY <1>9 DEF WriteTagCount, CountedAll, UpdateQuestionOperation, QBreakOff,
              QReturn, QGoto, QDone, QShape, QTypeOK
<1> HIDE DEF Same
<1>10. Same
  BY <1>2, <1>3, <1>4, <1>5, <1>6, <1>7, <1>8, <1>9 DEF QEdit
<1> QED
  BY <1>10 DEF Same

(* What a request remembers of pin and show comes from its first read. *)
LEMMA PinStep ==
  ASSUME QShape, PinnedVisible, PinSeen, NEW w \in Editors, QEdit(w)
  PROVE  PinnedVisible' /\ PinSeen'
<1> DEFINE Fine == ~(qseen'[w].pin /\ qseen'[w].hide)
           Kept == UNCHANGED <<pinned, hidden>>
           Own == PinnedVisible' /\ Fine
<1>1. Kept => PinnedVisible'
  BY DEF PinnedVisible
<1>2. ~(qseen[w].pin /\ qseen[w].hide)
  BY DEF PinSeen
<1>3. ASSUME NEW q \in QuestionIds, NEW ts \in SUBSET Tags, AddQuestion(w, q, ts) PROVE Own
  BY <1>3 DEF AddQuestion, QArrives, NoSight, QShape, QTypeOK, PinnedVisible
<1>4. ASSUME NEW q \in QuestionIds, NEW ts \in SUBSET Tags, EditQuestion(w, q, ts) PROVE Own
  BY <1>4, <1>1 DEF EditQuestion, QArrives, NoSight, QShape, QTypeOK, qQuestion
<1>5. ASSUME NEW q, NEW st, SetQuestionStatus(w, q, st) \/ ReviewQuestion(w, q, st) PROVE Own
  BY <1>5, <1>1 DEF SetQuestionStatus, ReviewQuestion, QArrives, NoSight, QShape, QTypeOK, qQuestion
<1>6. ASSUME NEW q, RemoveQuestion(w, q) \/ RecoverQuestion(w, q) PROVE Own
  BY <1>6, <1>1 DEF RemoveQuestion, RecoverQuestion, QArrives, NoSight, QShape, QTypeOK, qQuestion
<1>7. ASSUME NEW q \in QuestionIds, NEW op \in Operations, OperationQuestion(w, q, op) PROVE Own
  <2> DEFINE p == IF op \in {"pin", "unpin"} THEN op = "pin" ELSE q \in pinned
             h == IF op \in {"hide", "show"} THEN op = "hide" ELSE q \in hidden
  <2>1. ~(p /\ h)
    BY <1>7 DEF OperationQuestion, Operations
  <2>2. Kept /\ qseen' = [qseen EXCEPT ![w] = [NoSight EXCEPT !.pin = p, !.hide = h]]
    BY <1>7 DEF OperationQuestion, QArrives, qQuestion
  <2> HIDE DEF p, h
  <2>3. qseen'[w].pin = p /\ qseen'[w].hide = h
    BY <2>2 DEF NoSight, QShape, QTypeOK
  <2> QED
    BY <2>1, <2>2, <2>3, <1>1
<1>8. ASSUME AddQuestionReview(w) \/ WriteQuestionStatus(w) \/ SettleQuestionReview(w) \/ RejectReview(w)
      PROVE  Own
  <2>1. (qseen'[w].pin = qseen[w].pin /\ qseen'[w].hide = qseen[w].hide) \/ qseen'[w] = NoSight
    BY <1>8 DEF AddQuestionReview, WriteQuestionStatus, SettleQuestionReview, RejectReview,
                QReturn, QDone, QShape, QTypeOK, QSights
  <2>2. Kept
    BY <1>8 DEF AddQuestionReview, WriteQuestionStatus, SettleQuestionReview, RejectReview
  <2> QED
    BY <2>1, <2>2, <1>1, <1>2 DEF NoSight
<1>9. ASSUME LookAtTags(w) \/ ListAllTags(w) \/ ListTags(w) \/ (\E t \in Tags : CountTag(w, t))
      PROVE  Own
  <2>1. qseen'[w].pin = qseen[w].pin /\ qseen'[w].hide = qseen[w].hide
    <3> DEFINE S == qseen'[w].pin = qseen[w].pin /\ qseen'[w].hide = qseen[w].hide
    <3>1. ASSUME LookAtTags(w) PROVE S
      BY <3>1 DEF LookAtTags, QShape, QTypeOK, QSights
    <3>2. ASSUME ListAllTags(w) PROVE S
      BY <3>2 DEF ListAllTags, QShape, QTypeOK, QSights
    <3>3. ASSUME ListTags(w) PROVE S
      BY <3>3 DEF ListTags, QShape, QTypeOK, QSights
    <3>4. ASSUME NEW t \in Tags, CountTag(w, t) PROVE S
      BY <3>4 DEF CountTag, QShape, QTypeOK, QSights
    <3> HIDE DEF S
    <3>5. S
      BY <1>9, <3>1, <3>2, <3>3, <3>4
    <3> QED
      BY <3>5 DEF S
  <2>2. Kept
    BY <1>9 DEF LookAtTags, ListAllTags, ListTags, CountTag, qQuestion
  <2> QED
    BY <2>1, <2>2, <1>1, <1>2
<1>10. ASSUME \/ DropTags(w) \/ LinkTags(w) \/ HideTagRels(w) \/ ShowTagRels(w)
              \/ RemoveTagRels(w) \/ RecoverTagRels(w)
       PROVE  Own
  BY <1>10, <1>1, <1>2 DEF DropTags, LinkTags, HideTagRels, ShowTagRels, RemoveTagRels,
                           RecoverTagRels, qQuestion
<1>11. ASSUME WriteTagCount(w) \/ CountedAll(w) \/ QBreakOff(w) PROVE Own
  <2>1. (qseen'[w].pin = qseen[w].pin /\ qseen'[w].hide = qseen[w].hide) \/ qseen'[w] = NoSight
    BY <1>11 DEF WriteTagCount, CountedAll, QBreakOff, QReturn, QDone, QShape, QTypeOK, QSights
  <2>2. Kept
    BY <1>11 DEF WriteTagCount, CountedAll, QBreakOff, qQuestion
  <2> QED
    BY <2>1, <2>2, <1>1, <1>2 DEF NoSight
<1>12. ASSUME UpdateQuestionOperation(w) PROVE Own
  <2>1. qseen'[w] = NoSight
    BY <1>12 DEF UpdateQuestionOperation, QReturn, QDone, QShape, QTypeOK
  <2>2. /\ pinned' = IF qseen[w].pin THEN pinned \cup {On(w)} ELSE pinned \ {On(w)}
        /\ hidden' = IF qseen[w].hide THEN hidden \cup {On(w)} ELSE hidden \ {On(w)}
    BY <1>12 DEF UpdateQuestionOperation
  <2>3. PinnedVisible'
    BY <2>2, <1>2 DEF PinnedVisible
  <2> QED
    BY <2>1, <2>3 DEF NoSight
<1> HIDE DEF Own
<1>13. Own
  BY <1>3, <1>4, <1>5, <1>6, <1>7, <1>8, <1>9, <1>10, <1>11, <1>12 DEF QEdit
<1>14. \A v \in Editors \ {w} : qseen'[v] = qseen[v]
  BY OthersStay
<1> QED
  BY <1>13, <1>14 DEF Own, PinSeen

-----------------------------------------------------------------------------
(* The numbers.  A statement that changes neither relations nor numbers: *)
LEMMA NumbersStay ==
  ASSUME QShape, NumbersInv, NEW w \in Editors,
         \A v \in Editors \ {w} : qpc'[v] = qpc[v] /\ qreq'[v] = qreq[v] /\ qseen'[v] = qseen[v],
         UNCHANGED <<rel, tagCount>>, staleTags \subseteq staleTags', late \ {w} \subseteq late',
         WillRefreshOf(w)', CountedRightOf(w)',
         \A t \in Tags \ staleTags' : Owes(w, t) => Owes(w, t)'
  PROVE  NumbersInv'
<1>1. ASSUME NEW v \in Editors \ {w} PROVE WillRefreshOf(v)' /\ CountedRightOf(v)'
  <2>1. WillRefreshOf(v) /\ CountedRightOf(v)
    BY DEF NumbersInv, WillRefresh, CountedRight
  <2>2. v \notin late' => v \notin late
    OBVIOUS
  <2>3. TagsOf(On(v))' = TagsOf(On(v)) /\ Linked(qseen[v].tag)' = Linked(qseen[v].tag)
    BY DEF TagsOf, RelsOf, On, Linked
  <2> QED
    BY <2>1, <2>2, <2>3 DEF WillRefreshOf, CountedRightOf
<1>2. NumbersOwed'
  <2> SUFFICES ASSUME NEW t \in Tags \ staleTags'
               PROVE  (tagCount[t] = Cardinality(Linked(t)) \/ \E v \in Editors : Owes(v, t))'
    BY DEF NumbersOwed
  <2>1. tagCount[t] = Cardinality(Linked(t)) \/ \E v \in Editors : Owes(v, t)
    BY DEF NumbersInv, NumbersOwed
  <2>2. Linked(t)' = Linked(t)
    BY DEF Linked
  <2>3. ASSUME NEW v \in Editors, Owes(v, t) PROVE Owes(v, t)'
    BY <2>3 DEF Owes, On
  <2> QED
    BY <2>1, <2>2, <2>3
<1> QED
  BY <1>1, <1>2 DEF NumbersInv, WillRefresh, CountedRight

(* One that changes relations of its question: either the request counts these
   tags later, or it is late and they are stale. *)
LEMMA NumbersChange ==
  ASSUME QShape, NumbersInv, NEW w \in Editors, qpc[w] # "idle",
         \A v \in Editors \ {w} : qpc'[v] = qpc[v] /\ qreq'[v] = qreq[v] /\ qseen'[v] = qseen[v],
         NEW ks \in SUBSET Rels, NEW st, SetRels(w, ks, st), \A k \in ks : k[1] = On(w),
         qreq'[w] = qreq[w], tagCount' = tagCount,
         WillRefreshOf(w)', CountedRightOf(w)',
         \A t \in Tags : Owes(w, t) => Owes(w, t)',
         w \notin late => \A t \in Tags : <<On(w), t>> \in ks /\ rel[<<On(w), t>>] # st => Owes(w, t)'
  PROVE  NumbersInv'
<1>1. ASSUME NEW v \in Editors \ {w} PROVE WillRefreshOf(v)' /\ CountedRightOf(v)'
  <2>1. WillRefreshOf(v)
    BY DEF NumbersInv, WillRefresh
  <2>2. qpc[v] = "idle" \/ v \in late'
    BY DEF SetRels
  <2> QED
    BY <2>1, <2>2 DEF WillRefreshOf, CountedRightOf
<1>2. NumbersOwed'
  <2> SUFFICES ASSUME NEW t \in Tags \ staleTags'
               PROVE  (tagCount[t] = Cardinality(Linked(t)) \/ \E v \in Editors : Owes(v, t))'
    BY DEF NumbersOwed
  <2>1. tagCount[t] = Cardinality(Linked(t)) \/ \E v \in Editors : Owes(v, t)
    BY DEF SetRels, NumbersInv, NumbersOwed
  <2>2. rel' = [k \in Rels |-> IF k \in ks THEN st ELSE rel[k]]
    BY DEF SetRels
  <2>3. CASE <<On(w), t>> \in ks /\ rel[<<On(w), t>>] # st
    <3>1. w \notin late
      <4> SUFFICES ASSUME w \in late PROVE FALSE
        OBVIOUS
      <4>1. <<On(w), t>>[2] \in {k[2] : k \in ks}
        BY <2>3
      <4> QED
        BY <4>1 DEF SetRels
    <3> QED
      BY <2>3, <3>1
  <2>4. CASE ~(<<On(w), t>> \in ks /\ rel[<<On(w), t>>] # st)
    <3>1. ASSUME NEW q \in QuestionIds PROVE rel'[<<q, t>>] = rel[<<q, t>>]
      <4>1. <<q, t>> \in Rels /\ <<q, t>>[1] = q
        BY DEF Rels
      <4>2. <<q, t>> \in ks => q = On(w)
        BY <4>1
      <4> QED
        BY <4>1, <4>2, <2>2, <2>4
    <3>2. Linked(t)' = Linked(t)
      BY <3>1 DEF Linked
    <3>3. ASSUME NEW v \in Editors \ {w}, Owes(v, t) PROVE Owes(v, t)'
      <4>1. On(v) \in QuestionIds
        BY <3>3, OnType DEF Owes
      <4>2. rel'[<<On(v), t>>] = rel[<<On(v), t>>]
        BY <3>1, <4>1
      <4> QED
        BY <3>3, <4>2 DEF Owes, On
    <3> QED
      BY <2>1, <3>2, <3>3
  <2> QED
    BY <2>3, <2>4
<1> QED
  BY <1>1, <1>2 DEF NumbersInv, WillRefresh, CountedRight

(* A request that arrives owes nothing and has counted nothing. *)
LEMMA NumbersArrive ==
  ASSUME QShape, NumbersInv, NEW w \in Editors, QEdit(w), NEW q, NEW op, NEW ts, NEW s, NEW to,
         QArrives(w, q, op, ts, s, to), UNCHANGED qTags,
         to \notin {"idle", "drop", "link", "drop_all", "number"}
  PROVE  NumbersInv'
<1>1. qpc[w] = "idle" /\ qpc'[w] = to
  BY DEF QArrives, QGoto, QShape, QTypeOK
<1>2. WillRefreshOf(w)' /\ CountedRightOf(w)'
  BY <1>1 DEF WillRefreshOf, CountedRightOf
<1>3. \A t \in Tags : ~Owes(w, t)
  BY <1>1 DEF Owes
<1> QED
  BY <1>2, <1>3, OthersStay, NumbersStay DEF QArrives, qTags

(* Neither does one that is between statements about the question itself. *)
LEMMA NumbersElsewhere ==
  ASSUME QShape, NumbersInv, NEW w \in Editors, QEdit(w), UNCHANGED <<rel, tagCount, staleTags, late>>,
         qpc[w] \notin {"list", "link", "count", "number"},
         qpc'[w] \notin {"drop", "link", "drop_all", "number"}
  PROVE  NumbersInv'
<1>1. WillRefreshOf(w)' /\ CountedRightOf(w)'
  BY DEF WillRefreshOf, CountedRightOf
<1>2. \A t \in Tags : ~Owes(w, t)
  BY DEF Owes
<1> QED
  BY <1>1, <1>2, OthersStay, NumbersStay

LEMMA NumbersStep ==
  ASSUME QShape, NumbersInv, NEW w \in Editors, QEdit(w)
  PROVE  NumbersInv'
<1>1. ASSUME NEW q, NEW ts, AddQuestion(w, q, ts) \/ EditQuestion(w, q, ts) PROVE NumbersInv'
  BY <1>1, NumbersArrive DEF AddQuestion, EditQuestion, qTags
<1>2. ASSUME NEW q, NEW st, SetQuestionStatus(w, q, st) \/ ReviewQuestion(w, q, st) PROVE NumbersInv'
  BY <1>2, NumbersArrive DEF SetQuestionStatus, ReviewQuestion, qTags
<1>3. ASSUME NEW q, RemoveQuestion(w, q) \/ RecoverQuestion(w, q) PROVE NumbersInv'
  BY <1>3, NumbersArrive DEF RemoveQuestion, RecoverQuestion, qTags
<1>4. ASSUME NEW q, NEW op \in Operations, OperationQuestion(w, q, op) PROVE NumbersInv'
  BY <1>4, NumbersArrive DEF OperationQuestion, qTags
<1>5. ASSUME AddQuestionReview(w) \/ WriteQuestionStatus(w) \/ SettleQuestionReview(w) \/ RejectReview(w)
      PROVE  NumbersInv'
  <2>1. qpc[w] \in {"ask", "status", "settle", "reject"}
    BY <1>5 DEF AddQuestionReview, WriteQuestionStatus, SettleQuestionReview, RejectReview, QReturn, QGoto
  <2>2. qpc'[w] \in {"status", "idle", "list_all"} \cup {AfterStatus[Op(w)]}
    BY <1>5 DEF AddQuestionReview, WriteQuestionStatus, SettleQuestionReview, RejectReview, QReturn,
                QGoto, QShape, QTypeOK
  <2>3. qpc[w] = "status" => AfterStatus[Op(w)] \in {"look", "idle", "settle", "reject", "recover_rels"}
    <3>1. qpc[w] = "status" => Op(w) \in {"add", "set", "review", "remove", "recover"}
      BY OpType DEF QMayBe, QPCs
    <3> QED
      BY <3>1 DEF AfterStatus
  <2>4. qpc[w] # "status" => qpc'[w] \in {"status", "idle", "list_all"}
    BY <1>5 DEF AddQuestionReview, WriteQuestionStatus, SettleQuestionReview, RejectReview, QReturn,
                QGoto, QShape, QTypeOK
  <2>5. qpc'[w] \notin {"drop", "link", "drop_all", "number"}
    BY <2>2, <2>3, <2>4
  <2>6. UNCHANGED <<rel, tagCount, staleTags, late>>
    BY <1>5 DEF AddQuestionReview, WriteQuestionStatus, SettleQuestionReview, RejectReview, qTags, qHistory
  <2> QED
    BY <2>1, <2>5, <2>6, NumbersElsewhere
<1>6. ASSUME UpdateQuestionOperation(w) PROVE NumbersInv'
  <2>1. qpc[w] = "operation" /\ qpc'[w] = "idle" /\ UNCHANGED <<rel, tagCount, staleTags, late>>
    BY <1>6 DEF UpdateQuestionOperation, QReturn, QGoto, QShape, QTypeOK, qTags, qHistory
  <2> QED
    BY <2>1, NumbersElsewhere
<1>7. ASSUME LookAtTags(w) PROVE NumbersInv'
  <2>1. qpc[w] = "look" /\ qpc'[w] = "drop" /\ UNCHANGED <<rel, tagCount, staleTags, late>>
    BY <1>7 DEF LookAtTags, QGoto, QShape, QTypeOK, qTags, qHistory
  <2>2. /\ qseen'[w].old = TagsOf(On(w)) \ qreq[w].tags
        /\ qseen'[w].new = qreq[w].tags \ TagsOf(On(w))
        /\ qseen'[w].refresh = qreq[w].tags \cup TagsOf(On(w))
    BY <1>7 DEF LookAtTags, QShape, QTypeOK, QSights
  <2>3. WillRefreshOf(w)' /\ CountedRightOf(w)'
    BY <2>1, <2>2 DEF WillRefreshOf, CountedRightOf
  <2>4. \A t \in Tags : ~Owes(w, t)
    BY <2>1 DEF Owes
  <2> QED
    BY <2>1, <2>3, <2>4, OthersStay, NumbersStay
<1>8. ASSUME ListAllTags(w) PROVE NumbersInv'
  <2>1. qpc[w] = "list_all" /\ qpc'[w] = "drop_all" /\ UNCHANGED <<rel, tagCount, staleTags, late>>
    BY <1>8 DEF ListAllTags, QGoto, QShape, QTypeOK, qTags, qHistory
  <2>2. qseen'[w].refresh = TagsOf(On(w)) /\ TagsOf(On(w))' = TagsOf(On(w))
    BY <1>8 DEF ListAllTags, QShape, QTypeOK, QSights, TagsOf, RelsOf, On, qTags
  <2>3. WillRefreshOf(w)' /\ CountedRightOf(w)'
    BY <2>1, <2>2 DEF WillRefreshOf, CountedRightOf
  <2>4. \A t \in Tags : ~Owes(w, t)
    BY <2>1 DEF Owes
  <2> QED
    BY <2>1, <2>3, <2>4, OthersStay, NumbersStay
<1>9. ASSUME ListTags(w) PROVE NumbersInv'
  <2>1. qpc[w] = "list" /\ qpc'[w] = "count" /\ UNCHANGED <<rel, tagCount, staleTags, late, qreq>>
    BY <1>9 DEF ListTags, QGoto, QShape, QTypeOK, qTags, qHistory
  <2>2. qseen'[w].refresh = TagsOf(On(w)) /\ On(w) \in QuestionIds
    BY <1>9, <2>1, OnType DEF ListTags, QShape, QTypeOK, QSights
  <2>3. WillRefreshOf(w)' /\ CountedRightOf(w)'
    BY <2>1 DEF WillRefreshOf, CountedRightOf
  <2>4. ASSUME NEW t \in Tags, Owes(w, t) PROVE Owes(w, t)'
    <3>1. rel[<<On(w), t>>] \in {"available", "hide"}
      BY <2>1, <2>4 DEF Owes
    <3>2. <<On(w), t>> \in RelsOf(On(w), {"available", "hide"}) /\ <<On(w), t>>[2] = t
      BY <3>1, <2>2 DEF RelsOf, Rels
    <3>3. t \in TagsOf(On(w))
      BY <3>2 DEF TagsOf
    <3> QED
      BY <3>1, <3>3, <2>1, <2>2 DEF Owes, On
  <2> QED
    BY <2>1, <2>3, <2>4, OthersStay, NumbersStay
<1>10. ASSUME NEW u \in Tags, CountTag(w, u) PROVE NumbersInv'
  <2>1. /\ qpc[w] = "count" /\ qpc'[w] = "number"
        /\ UNCHANGED <<rel, tagCount, staleTags, late, qreq>>
    BY <1>10 DEF CountTag, QGoto, QShape, QTypeOK, qTags, qHistory
  <2>2. /\ qseen'[w].refresh = qseen[w].refresh /\ qseen'[w].tag = u
        /\ qseen'[w].n = Cardinality(Linked(u))
    BY <1>10 DEF CountTag, QShape, QTypeOK, QSights
  <2>3. Linked(u)' = Linked(u)
    BY <2>1 DEF Linked
  <2>4. WillRefreshOf(w)' /\ CountedRightOf(w)'
    BY <2>1, <2>2, <2>3 DEF WillRefreshOf, CountedRightOf, Linked
  <2>5. ASSUME NEW t \in Tags, Owes(w, t) PROVE Owes(w, t)'
    BY <2>1, <2>2, <2>5 DEF Owes, On
  <2> QED
    BY <2>1, <2>4, <2>5, OthersStay, NumbersStay
<1>11. ASSUME CountedAll(w) PROVE NumbersInv'
  <2>1. /\ qpc[w] = "count" /\ qpc'[w] \in {"idle", "operation"} /\ qseen[w].refresh = {}
        /\ UNCHANGED <<rel, tagCount, staleTags, late>>
    BY <1>11 DEF CountedAll, QReturn, QGoto, QShape, QTypeOK, qTags, qHistory
  <2>2. WillRefreshOf(w)' /\ CountedRightOf(w)'
    BY <2>1 DEF WillRefreshOf, CountedRightOf
  <2>3. \A t \in Tags : ~Owes(w, t)
    BY <2>1 DEF Owes
  <2> QED
    BY <2>1, <2>2, <2>3, OthersStay, NumbersStay
<1>12. ASSUME QBreakOff(w) PROVE NumbersInv'
  <2>1. /\ qpc[w] # "idle" /\ qpc'[w] = "idle" /\ UNCHANGED <<rel, tagCount, late>>
        /\ staleTags' = staleTags \cup {k[2] : k \in RelsOf(On(w), {"available", "hide", "deleted"})}
    BY <1>12 DEF QBreakOff, QShape, QTypeOK, qTags
  <2>2. WillRefreshOf(w)' /\ CountedRightOf(w)'
    BY <2>1 DEF WillRefreshOf, CountedRightOf
  <2>3. ASSUME NEW t \in Tags \ staleTags' PROVE ~Owes(w, t)
    <3>1. On(w) \in QuestionIds /\ <<On(w), t>> \in Rels /\ <<On(w), t>>[1] = On(w) /\ <<On(w), t>>[2] = t
      BY <2>1, OnType DEF Rels
    <3>2. <<On(w), t>> \notin RelsOf(On(w), {"available", "hide", "deleted"})
      BY <2>1, <2>3, <3>1
    <3>3. rel[<<On(w), t>>] = "none"
      BY <3>1, <3>2 DEF RelsOf, QShape, QTypeOK
    <3> QED
      BY <3>3 DEF Owes
  <2> QED
    BY <2>1, <2>2, <2>3, OthersStay, NumbersStay
<1>13. ASSUME DropTags(w) PROVE NumbersInv'
  <2> DEFINE ks == {On(w)} \X qseen[w].old
  <2>1. /\ qpc[w] = "drop" /\ qpc'[w] = "link" /\ SetRels(w, ks, "deleted")
        /\ UNCHANGED <<tagCount, qreq, qseen>>
    BY <1>13 DEF DropTags, QGoto, QShape, QTypeOK
  <2>2. /\ On(w) \in QuestionIds /\ ks \in SUBSET Rels /\ \A k \in ks : k[1] = On(w)
        /\ \A t \in Tags : <<On(w), t>> \in ks => t \in qseen[w].old
    BY <2>1, OnType DEF Rels, QShape, QTypeOK, QSights
  <2> HIDE DEF ks
  <2>3. qseen[w].old \cup qseen[w].new \subseteq qseen[w].refresh
    BY <2>1 DEF NumbersInv, WillRefresh, WillRefreshOf
  <2>4. WillRefreshOf(w)' /\ CountedRightOf(w)'
    BY <2>1, <2>3 DEF WillRefreshOf, CountedRightOf
  <2>5. \A t \in Tags : ~Owes(w, t)
    BY <2>1 DEF Owes
  <2>6. ASSUME NEW t \in Tags, <<On(w), t>> \in ks PROVE Owes(w, t)'
    <3>1. t \in qseen[w].refresh /\ <<On(w), t>> \in Rels /\ rel'[<<On(w), t>>] = "deleted"
      BY <2>1, <2>2, <2>3, <2>6 DEF SetRels
    <3> QED
      BY <2>1, <3>1 DEF Owes, On
  <2> QED
    BY <2>1, <2>2, <2>4, <2>5, <2>6, OthersStay, NumbersChange
<1>14. ASSUME LinkTags(w) PROVE NumbersInv'
  <2> DEFINE ks == {On(w)} \X qseen[w].new
             st == qseen[w].default
  <2>1. /\ qpc[w] = "link" /\ qpc'[w] = "count" /\ SetRels(w, ks, st)
        /\ UNCHANGED <<tagCount, qreq, qseen>>
    BY <1>14 DEF LinkTags, QGoto, QShape, QTypeOK
  <2>2. /\ On(w) \in QuestionIds /\ ks \in SUBSET Rels /\ \A k \in ks : k[1] = On(w)
        /\ \A t \in Tags : <<On(w), t>> \in ks => t \in qseen[w].new
    BY <2>1, OnType DEF Rels, QShape, QTypeOK, QSights
  <2>3. st \in {"available", "hide"}
    BY DEF QShape, QTypeOK, QSights
  <2> HIDE DEF ks, st
  <2>4. qseen[w].old \cup qseen[w].new \subseteq qseen[w].refresh
    BY <2>1 DEF NumbersInv, WillRefresh, WillRefreshOf
  <2>5. WillRefreshOf(w)' /\ CountedRightOf(w)'
    BY <2>1 DEF WillRefreshOf, CountedRightOf
  <2>6. ASSUME NEW t \in Tags, Owes(w, t) PROVE Owes(w, t)'
    <3>1. t \in qseen[w].refresh /\ rel[<<On(w), t>>] # "none" /\ <<On(w), t>> \in Rels
      BY <2>1, <2>2, <2>6 DEF Owes, Rels
    <3>2. rel'[<<On(w), t>>] # "none"
      BY <2>1, <2>3, <3>1 DEF SetRels
    <3> QED
      BY <2>1, <3>1, <3>2 DEF Owes, On
  <2>7. ASSUME NEW t \in Tags, <<On(w), t>> \in ks PROVE Owes(w, t)'
    <3>1. t \in qseen[w].refresh /\ <<On(w), t>> \in Rels /\ rel'[<<On(w), t>>] = st
      BY <2>1, <2>2, <2>4, <2>7 DEF SetRels
    <3> QED
      BY <2>1, <2>3, <3>1 DEF Owes, On
  <2> QED
    BY <2>1, <2>2, <2>5, <2>6, <2>7, OthersStay, NumbersChange
<1>15. ASSUME HideTagRels(w) PROVE NumbersInv'
  <2> DEFINE ks == RelsOf(On(w), {"available"})
  <2>1. /\ qpc[w] = "hide" /\ qpc'[w] = "list" /\ SetRels(w, ks, "hide")
        /\ UNCHANGED <<tagCount, qreq, qseen>>
    BY <1>15 DEF HideTagRels, QGoto, QShape, QTypeOK
  <2>2. ks \in SUBSET Rels /\ \A k \in ks : k[1] = On(w)
    BY DEF RelsOf
  <2> HIDE DEF ks
  <2>3. WillRefreshOf(w)' /\ CountedRightOf(w)'
    BY <2>1 DEF WillRefreshOf, CountedRightOf
  <2>4. \A t \in Tags : ~Owes(w, t)
    BY <2>1 DEF Owes
  <2>5. ASSUME NEW t \in Tags, <<On(w), t>> \in ks PROVE Owes(w, t)'
    <3>1. rel'[<<On(w), t>>] = "hide"
      BY <2>1, <2>2, <2>5 DEF SetRels
    <3> QED
      BY <2>1, <3>1 DEF Owes, On
  <2> QED
    BY <2>1, <2>2, <2>3, <2>4, <2>5, OthersStay, NumbersChange
<1>16. ASSUME ShowTagRels(w) PROVE NumbersInv'
  <2> DEFINE ks == RelsOf(On(w), {"hide"})
  <2>1. /\ qpc[w] = "show" /\ qpc'[w] = "list" /\ SetRels(w, ks, "available")
        /\ UNCHANGED <<tagCount, qreq, qseen>>
    BY <1>16 DEF ShowTagRels, QGoto, QShape, QTypeOK
  <2>2. ks \in SUBSET Rels /\ \A k \in ks : k[1] = On(w)
    BY DEF RelsOf
  <2> HIDE DEF ks
  <2>3. WillRefreshOf(w)' /\ CountedRightOf(w)'
    BY <2>1 DEF WillRefreshOf, CountedRightOf
  <2>4. \A t \in Tags : ~Owes(w, t)
    BY <2>1 DEF Owes
  <2>5. ASSUME NEW t \in Tags, <<On(w), t>> \in ks PROVE Owes(w, t)'
    <3>1. rel'[<<On(w), t>>] = "available"
      BY <2>1, <2>2, <2>5 DEF SetRels
    <3> QED
      BY <2>1, <3>1 DEF Owes, On
  <2> QED
    BY <2>1, <2>2, <2>3, <2>4, <2>5, OthersStay, NumbersChange
<1>17. ASSUME RecoverTagRels(w) PROVE NumbersInv'
  <2> DEFINE ks == RelsOf(On(w), {"available", "hide", "deleted"})
  <2>1. /\ qpc[w] = "recover_rels" /\ qpc'[w] = "list" /\ SetRels(w, ks, "available")
        /\ UNCHANGED <<tagCount, qreq, qseen>>
    BY <1>17 DEF RecoverTagRels, QGoto, QShape, QTypeOK
  <2>2. ks \in SUBSET Rels /\ \A k \in ks : k[1] = On(w)
    BY DEF RelsOf
  <2> HIDE DEF ks
  <2>3. WillRefreshOf(w)' /\ CountedRightOf(w)'
    BY <2>1 DEF WillRefreshOf, CountedRightOf
  <2>4. \A t \in Tags : ~Owes(w, t)
    BY <2>1 DEF Owes
  <2>5. ASSUME NEW t \in Tags, <<On(w), t>> \in ks PROVE Owes(w, t)'
    <3>1. rel'[<<On(w), t>>] = "available"
      BY <2>1, <2>2, <2>5 DEF SetRels
    <3> QED
      BY <2>1, <3>1 DEF Owes, On
  <2> QED
    BY <2>1, <2>2, <2>3, <2>4, <2>5, OthersStay, NumbersChange
<1>18. ASSUME RemoveTagRels(w) PROVE NumbersInv'
  <2> DEFINE ks == RelsOf(On(w), {"available", "hide", "deleted"})
  <2>1. /\ qpc[w] = "drop_all" /\ qpc'[w] = "count" /\ SetRels(w, ks, "deleted")
        /\ UNCHANGED <<tagCount, qreq, qseen>>
    BY <1>18 DEF RemoveTagRels, QGoto, QShape, QTypeOK
  <2>2. ks \in SUBSET Rels /\ \A k \in ks : k[1] = On(w) /\ rel[k] \in {"available", "hide", "deleted"}
    BY DEF RelsOf
  <2> HIDE DEF ks
  <2>3. WillRefreshOf(w)' /\ CountedRightOf(w)'
    BY <2>1 DEF WillRefreshOf, CountedRightOf
  <2>4. \A t \in Tags : ~Owes(w, t)
    BY <2>1 DEF Owes
  <2>5. ASSUME w \notin late, NEW t \in Tags, <<On(w), t>> \in ks, rel[<<On(w), t>>] # "deleted"
        PROVE  Owes(w, t)'
    <3>1. rel'[<<On(w), t>>] = "deleted"
      BY <2>1, <2>2, <2>5 DEF SetRels
    <3>2. <<On(w), t>> \in RelsOf(On(w), {"available", "hide"}) /\ <<On(w), t>>[2] = t
      BY <2>2, <2>5 DEF RelsOf
    <3>3. t \in TagsOf(On(w))
      BY <3>2 DEF TagsOf
    <3>4. t \in qseen[w].refresh
      BY <2>1, <2>5, <3>3 DEF NumbersInv, WillRefresh, WillRefreshOf
    <3> QED
      BY <2>1, <3>1, <3>4 DEF Owes, On
  <2> QED
    BY <2>1, <2>2, <2>3, <2>4, <2>5, OthersStay, NumbersChange
<1>19. ASSUME WriteTagCount(w) PROVE NumbersInv'
  <2> DEFINE u == qseen[w].tag
  <2>1. /\ qpc[w] = "number" /\ qpc'[w] = "count" /\ UNCHANGED <<rel, qreq>>
        /\ tagCount' = [tagCount EXCEPT ![u] = qseen[w].n]
        /\ staleTags' = IF w \in late THEN staleTags \cup {u} ELSE staleTags \ {u}
        /\ late' = late \cup {v \in Editors \ {w} : qpc[v] # "idle"}
    BY <1>19 DEF WriteTagCount, QGoto, QShape, QTypeOK
  <2>2. qseen'[w].refresh = qseen[w].refresh \ {u}
    BY <1>19 DEF WriteTagCount, QShape, QTypeOK, QSights
  <2>3. u \in Tags /\ (w \notin late => qseen[w].n = Cardinality(Linked(u)))
    BY <2>1 DEF NumbersInv, CountedRight, CountedRightOf, QShape, QTypeOK, QControl, QSights
  <2> HIDE DEF u
  <2>4. \A v \in Editors \ {w} : qpc'[v] = qpc[v] /\ qreq'[v] = qreq[v] /\ qseen'[v] = qseen[v]
    BY OthersStay
  <2>5. WillRefreshOf(w)' /\ CountedRightOf(w)'
    BY <2>1 DEF WillRefreshOf, CountedRightOf
  <2>6. ASSUME NEW v \in Editors \ {w} PROVE WillRefreshOf(v)' /\ CountedRightOf(v)'
    <3>1. WillRefreshOf(v)
      BY DEF NumbersInv, WillRefresh
    <3>2. qpc[v] = "idle" \/ v \in late'
      BY <2>1
    <3> QED
      BY <2>4, <3>1, <3>2 DEF WillRefreshOf, CountedRightOf
  <2>7. ASSUME NEW t \in Tags \ staleTags'
        PROVE  (tagCount[t] = Cardinality(Linked(t)) \/ \E v \in Editors : Owes(v, t))'
    <3>1. Linked(t)' = Linked(t)
      BY <2>1 DEF Linked
    <3>2. CASE t = u
      <4>1. w \notin late
        BY <2>1, <2>7, <3>2
      <4>2. tagCount'[t] = qseen[w].n
        BY <2>1, <2>3, <3>2 DEF QShape, QTypeOK
      <4> QED
        BY <2>3, <3>1, <3>2, <4>1, <4>2
    <3>3. CASE t # u
      <4>1. tagCount'[t] = tagCount[t] /\ t \notin staleTags
        BY <2>1, <2>7, <3>3 DEF QShape, QTypeOK
      <4>2. tagCount[t] = Cardinality(Linked(t)) \/ \E v \in Editors : Owes(v, t)
        BY <4>1 DEF NumbersInv, NumbersOwed
      <4>3. ASSUME NEW v \in Editors, Owes(v, t) PROVE Owes(v, t)'
        BY <2>1, <2>2, <2>4, <3>3, <4>3 DEF Owes, On
      <4> QED
        BY <3>1, <4>1, <4>2, <4>3
    <3> QED
      BY <3>2, <3>3
  <2>8. NumbersOwed'
    BY <2>7 DEF NumbersOwed
  <2> QED
    BY <2>5, <2>6, <2>8 DEF NumbersInv, WillRefresh, CountedRight
<1> QED
  BY <1>1, <1>2, <1>3, <1>4, <1>5, <1>6, <1>7, <1>8, <1>9, <1>10, <1>11, <1>12, <1>13, <1>14,
     <1>15, <1>16, <1>17, <1>18, <1>19 DEF QEdit

-----------------------------------------------------------------------------
(* Hidden questions.  A statement for question q disturbs nothing about the
   others, nor about other requests for q, which are on record. *)
LEMMA HiddenFrame ==
  ASSUME QShape, HiddenInv, NEW w \in Editors, NEW q \in QuestionIds,
         \A v \in Editors \ {w} : qpc'[v] = qpc[v] /\ qreq'[v] = qreq[v] /\ qseen'[v] = qseen[v],
         On(w) \in {q, NoQuestion}, On(w)' \in {q, NoQuestion}, mixed \subseteq mixed',
         \A v \in Editors \ {w} : On(v) = q => q \in mixed',
         \A p \in QuestionIds \ {q} :
           /\ p \in hidden' <=> p \in hidden
           /\ qStatus'[p] = qStatus[p]
           /\ \A t \in Tags : rel'[<<p, t>>] = rel[<<p, t>>],
         HiddenRelsOf(q)', HideUnderOf(w)', SightHoldsOf(w)'
  PROVE  HiddenInv'
<1>1. \A v \in Editors \ {w} : On(v)' = On(v) /\ Op(v)' = Op(v)
  BY DEF On, Op
<1>2. AloneUnlessMixed'
  <2> SUFFICES ASSUME NEW u \in Editors, NEW v \in Editors, u # v, On(u)' = On(v)', On(u)' # NoQuestion
               PROVE  On(u)' \in mixed'
    BY DEF AloneUnlessMixed
  <2>1. CASE u = w \/ v = w
    BY <1>1, <2>1
  <2>2. CASE u # w /\ v # w
    BY <1>1, <2>2 DEF HiddenInv, AloneUnlessMixed
  <2> QED
    BY <2>1, <2>2
<1>3. ASSUME NEW p \in QuestionIds \ {q} PROVE HiddenRelsOf(p)'
  <2> SUFFICES ASSUME p \in hidden' \ mixed', NEW t \in Tags, rel'[<<p, t>>] = "available"
               PROVE  \E v \in Editors : On(v)' = p /\ Op(v)' = "show" /\ qpc'[v] \in PastRelations
    BY DEF HiddenRelsOf
  <2>1. p \in hidden \ mixed /\ rel[<<p, t>>] = "available"
    OBVIOUS
  <2>2. PICK v \in Editors : On(v) = p /\ Op(v) = "show" /\ qpc[v] \in PastRelations
    BY <2>1 DEF HiddenInv, HiddenRelsOf
  <2> QED
    BY <2>2, <1>1
<1>4. ASSUME NEW v \in Editors \ {w} PROVE HideUnderOf(v)' /\ SightHoldsOf(v)'
  <2>1. HideUnderOf(v) /\ SightHoldsOf(v)
    BY DEF HiddenInv
  <2>2. On(v) \in QuestionIds \cup {NoQuestion}
    BY DEF QShape, QTypeOK, QEdits, On
  <2>3. On(v) = NoQuestion => Op(v) = "none" /\ qpc[v] = "idle"
    BY DEF QShape, QControl, QMayBe, QPCs
  <2>4. HideUnderOf(v)'
    BY <1>1, <2>1, <2>2 DEF HideUnderOf
  <2>5. SightHoldsOf(v)'
    BY <1>1, <2>1, <2>2, <2>3 DEF SightHoldsOf
  <2> QED
    BY <2>4, <2>5
<1> QED
  BY <1>2, <1>3, <1>4 DEF HiddenInv

(* A statement of a request that is at work. *)
LEMMA HiddenOwn ==
  ASSUME QShape, HiddenInv, NEW w \in Editors, QEdit(w), NEW q \in QuestionIds, On(w) = q,
         qreq'[w] \in {qreq[w], NoEdit}, mixed \subseteq mixed',
         \A p \in QuestionIds \ {q} :
           /\ p \in hidden' <=> p \in hidden
           /\ qStatus'[p] = qStatus[p]
           /\ \A t \in Tags : rel'[<<p, t>>] = rel[<<p, t>>],
         q \notin mixed' => HiddenRelsOf(q)' /\ HideUnderOf(w)',
         SightHoldsOf(w)'
  PROVE  HiddenInv'
<1>1. \A v \in Editors \ {w} : On(v) = q => q \in mixed'
  BY DEF HiddenInv, AloneUnlessMixed
<1>2. On(w)' \in {q, NoQuestion}
  BY DEF On, NoEdit
<1>3. HiddenRelsOf(q)'
  BY DEF HiddenRelsOf
<1>4. HideUnderOf(w)'
  BY <1>2 DEF HideUnderOf
<1> QED
  BY <1>1, <1>2, <1>3, <1>4, OthersStay, HiddenFrame

(* A request that arrives for question q and leaves the relations alone. *)
LEMMA HiddenArrive ==
  ASSUME QShape, HiddenInv, NEW w \in Editors, QEdit(w),
         NEW q \in QuestionIds, NEW op, NEW ts, NEW s, NEW to, QArrives(w, q, op, ts, s, to),
         rel' = rel, \A p \in QuestionIds \ {q} : qStatus'[p] = qStatus[p],
         hidden' \in {hidden, hidden \ {q}},
         op = "hide" => to \notin PastRelations,
         to \notin {"drop", "link"},
         op \in {"show", "pin"} => ~s.hide,
         op = "unpin" /\ s.hide => q \in hidden',
         op = "add" => q \notin hidden',
         op = "edit" => qStatus'[q] # "none"
  PROVE  HiddenInv'
<1>1. /\ qpc[w] = "idle" /\ On(w) = NoQuestion
      /\ On(w)' = q /\ Op(w)' = op /\ qseen'[w] = s /\ qpc'[w] = to
      /\ mixed' = IF Meets(w, q) THEN mixed \cup {q} ELSE mixed
  BY DEF QArrives, QGoto, QShape, QTypeOK, QControl, On, Op
<1>2. \A v \in Editors \ {w} : On(v) = q => q \in mixed'
  BY <1>1 DEF Meets
<1>3. HiddenRelsOf(q)'
  <2> SUFFICES ASSUME q \in hidden' \ mixed', NEW t \in Tags, rel'[<<q, t>>] = "available"
               PROVE  FALSE
    BY DEF HiddenRelsOf
  <2>1. q \in hidden \ mixed /\ rel[<<q, t>>] = "available"
    BY <1>1
  <2>2. PICK v \in Editors : On(v) = q /\ qpc[v] \in PastRelations
    BY <2>1 DEF HiddenInv, HiddenRelsOf
  <2>3. v # w
    BY <1>1, <2>2
  <2> QED
    BY <2>2, <2>3, <1>2
<1>4. HideUnderOf(w)'
  BY <1>1 DEF HideUnderOf
<1>5. SightHoldsOf(w)'
  BY <1>1 DEF SightHoldsOf
<1> QED
  BY <1>1, <1>2, <1>3, <1>4, <1>5, OthersStay, HiddenFrame

(* A statement that changes neither relations nor questions, of a request that
   goes on and stays among those that have changed the relations, or not. *)
LEMMA HiddenStay ==
  ASSUME QShape, HiddenInv, NEW w \in Editors, QEdit(w), qpc[w] # "idle", qreq' = qreq,
         UNCHANGED <<rel, hidden, mixed>>, \A p \in QuestionIds \ {On(w)} : qStatus'[p] = qStatus[p],
         Op(w) # "edit" \/ qStatus' = qStatus,
         qpc[w] \in PastRelations <=> qpc'[w] \in PastRelations,
         qpc'[w] \in {"drop", "link"} /\ On(w) \in hidden \ mixed => qseen'[w].default = "hide",
         qseen'[w].hide = qseen[w].hide
  PROVE  HiddenInv'
<1>1. PICK q \in QuestionIds : On(w) = q
  BY OnType
<1>2. SightHoldsOf(w) /\ HideUnderOf(w) /\ HiddenRelsOf(q)
  BY DEF HiddenInv
<1>3. \A v \in Editors \ {w} : qpc'[v] = qpc[v]
  BY OthersStay
<1>4. \A v \in Editors : On(v)' = On(v) /\ Op(v)' = Op(v) /\ (qpc[v] \in PastRelations => qpc'[v] \in PastRelations)
  BY <1>3 DEF On, Op
<1>5. HiddenRelsOf(q)'
  BY <1>2, <1>4 DEF HiddenRelsOf
<1>6. HideUnderOf(w)'
  BY <1>2, <1>4 DEF HideUnderOf
<1>7. SightHoldsOf(w)'
  BY <1>2, <1>4 DEF SightHoldsOf
<1> QED
  BY <1>1, <1>5, <1>6, <1>7, HiddenOwn

(* One that ends the request, which was not about to show the question. *)
LEMMA HiddenLeave ==
  ASSUME QShape, HiddenInv, NEW w \in Editors, QEdit(w), qpc[w] # "idle", qreq'[w] = NoEdit,
         qpc'[w] = "idle",
         UNCHANGED <<rel, hidden, mixed>>, \A p \in QuestionIds \ {On(w)} : qStatus'[p] = qStatus[p],
         Op(w) # "show"
  PROVE  HiddenInv'
<1>1. PICK q \in QuestionIds : On(w) = q
  BY OnType
<1>2. HiddenRelsOf(q)
  BY DEF HiddenInv
<1>3. \A v \in Editors \ {w} : qpc'[v] = qpc[v] /\ On(v)' = On(v) /\ Op(v)' = Op(v)
  BY OthersStay DEF On, Op
<1>4. HiddenRelsOf(q)'
  BY <1>2, <1>3 DEF HiddenRelsOf
<1>5. On(w)' = NoQuestion /\ Op(w)' = "none"
  BY DEF On, Op, NoEdit
<1>6. HideUnderOf(w)' /\ SightHoldsOf(w)'
  BY <1>5 DEF HideUnderOf, SightHoldsOf
<1> QED
  BY <1>1, <1>4, <1>6, HiddenOwn

(* One that changes relations of the question. *)
LEMMA HiddenChange ==
  ASSUME QShape, HiddenInv, NEW w \in Editors, QEdit(w), NEW q \in QuestionIds, On(w) = q,
         UNCHANGED <<qreq, qseen, hidden, qStatus>>,
         NEW ks \in SUBSET Rels, NEW st, SetRels(w, ks, st), \A k \in ks : k[1] = q,
         mixed \subseteq mixed',
         q \notin mixed' => (HiddenRelsOf(q) => HiddenRelsOf(q)') /\ HideUnderOf(w)',
         qpc'[w] \in {"drop", "link"} => qpc[w] \in {"drop", "link"}
  PROVE  HiddenInv'
<1>1. SightHoldsOf(w) /\ HiddenRelsOf(q)
  BY DEF HiddenInv
<1>2. On(w)' = On(w) /\ Op(w)' = Op(w)
  BY DEF On, Op
<1>3. SightHoldsOf(w)'
  BY <1>1, <1>2 DEF SightHoldsOf
<1>4. \A p \in QuestionIds \ {q} : \A t \in Tags : rel'[<<p, t>>] = rel[<<p, t>>]
  <2> SUFFICES ASSUME NEW p \in QuestionIds \ {q}, NEW t \in Tags PROVE rel'[<<p, t>>] = rel[<<p, t>>]
    OBVIOUS
  <2>1. <<p, t>> \in Rels /\ <<p, t>>[1] = p
    BY DEF Rels
  <2> QED
    BY <2>1 DEF SetRels
<1>5. q \notin mixed' => HiddenRelsOf(q)' /\ HideUnderOf(w)'
  BY <1>1
<1> QED
  BY <1>3, <1>4, <1>5, HiddenOwn

LEMMA HiddenStep ==
  ASSUME QShape, HiddenInv, NEW w \in Editors, QEdit(w)
  PROVE  HiddenInv'
<1> USE DEF PastRelations
<1>1. ASSUME NEW q \in QuestionIds, NEW ts \in SUBSET Tags, AddQuestion(w, q, ts) PROVE HiddenInv'
  <2>1. /\ QArrives(w, q, "add", ts, NoSight, "ask") /\ rel' = rel
        /\ \A p \in QuestionIds \ {q} : qStatus'[p] = qStatus[p]
        /\ hidden' = hidden \ {q}
    BY <1>1 DEF AddQuestion, qTags, QShape, QTypeOK
  <2> QED
    BY <2>1, HiddenArrive
<1>2. ASSUME NEW q \in QuestionIds, NEW ts \in SUBSET Tags, EditQuestion(w, q, ts) PROVE HiddenInv'
  <2>1. /\ QArrives(w, q, "edit", ts, NoSight, "look") /\ qStatus[q] # "none"
        /\ UNCHANGED <<rel, qStatus, hidden>>
    BY <1>2 DEF EditQuestion, qTags, qQuestion
  <2> QED
    BY <2>1, HiddenArrive
<1>3. ASSUME NEW q \in QuestionIds, NEW st, SetQuestionStatus(w, q, st) \/ ReviewQuestion(w, q, st)
      PROVE  HiddenInv'
  <2>1. /\ \E op \in {"set", "review"} :
             QArrives(w, q, op, {}, [NoSight EXCEPT !.status = st], "status")
        /\ UNCHANGED <<rel, qStatus, hidden>>
    BY <1>3 DEF SetQuestionStatus, ReviewQuestion, qTags, qQuestion
  <2> QED
    BY <2>1, HiddenArrive
<1>4. ASSUME NEW q \in QuestionIds, RemoveQuestion(w, q) \/ RecoverQuestion(w, q) PROVE HiddenInv'
  <2>1. /\ \E op \in {"remove", "recover"}, st \in {"deleted", "available"} :
             QArrives(w, q, op, {}, [NoSight EXCEPT !.status = st], "status")
        /\ UNCHANGED <<rel, qStatus, hidden>>
    BY <1>4 DEF RemoveQuestion, RecoverQuestion, qTags, qQuestion
  <2> QED
    BY <2>1, HiddenArrive
<1>5. ASSUME NEW q \in QuestionIds, NEW op \in Operations, OperationQuestion(w, q, op) PROVE HiddenInv'
  <2> DEFINE p == IF op \in {"pin", "unpin"} THEN op = "pin" ELSE q \in pinned
             h == IF op \in {"hide", "show"} THEN op = "hide" ELSE q \in hidden
             s == [NoSight EXCEPT !.pin = p, !.hide = h]
             to == IF op \in {"hide", "show"} THEN op ELSE "operation"
  <2>1. QArrives(w, q, op, {}, s, to) /\ UNCHANGED <<rel, qStatus, hidden>> /\ (op = "pin" => q \notin hidden)
    BY <1>5 DEF OperationQuestion, qTags, qQuestion
  <2>2. s.hide = h
    BY DEF NoSight
  <2>3. (op \in {"show", "pin"} => ~h) /\ (op = "unpin" /\ h => q \in hidden)
    BY <2>1
  <2>4. (op = "hide" => to \notin PastRelations) /\ to \notin {"drop", "link"}
    OBVIOUS
  <2>5. op \notin {"add", "edit"}
    BY DEF Operations
  <2> HIDE DEF p, h, s, to
  <2> QED
    BY <2>1, <2>2, <2>3, <2>4, <2>5, HiddenArrive
<1>6. ASSUME AddQuestionReview(w) PROVE HiddenInv'
  <2>1. /\ qpc[w] = "ask" /\ qpc'[w] = "status" /\ qseen'[w].hide = qseen[w].hide
        /\ UNCHANGED <<rel, hidden, mixed, qreq, qStatus>>
    BY <1>6 DEF AddQuestionReview, QGoto, QShape, QTypeOK, QSights, qTags, qHistory
  <2> QED
    BY <2>1, HiddenStay
<1>7. ASSUME WriteQuestionStatus(w) PROVE HiddenInv'
  <2>1. /\ qpc[w] = "status" /\ qpc'[w] = AfterStatus[Op(w)]
        /\ UNCHANGED <<rel, hidden, mixed>> /\ \A p \in QuestionIds \ {On(w)} : qStatus'[p] = qStatus[p]
    BY <1>7 DEF WriteQuestionStatus, QShape, QTypeOK, qTags, qHistory
  <2>2. Op(w) \in {"add", "set", "review", "remove", "recover"}
    BY <2>1, OpType DEF QMayBe, QPCs
  <2>3. CASE Op(w) = "set"
    <3>1. qreq'[w] = NoEdit /\ qpc'[w] = "idle"
      BY <1>7, <2>1, <2>3 DEF WriteQuestionStatus, QDone, AfterStatus, QShape, QTypeOK
    <3> QED
      BY <2>1, <2>3, <3>1, HiddenLeave
  <2>4. CASE Op(w) # "set"
    <3>1. qpc'[w] \in {"look", "settle", "reject", "recover_rels"} /\ UNCHANGED <<qreq, qseen>>
      BY <1>7, <2>1, <2>2, <2>4 DEF WriteQuestionStatus, AfterStatus
    <3> QED
      BY <2>1, <2>2, <3>1, HiddenStay
  <2> QED
    BY <2>3, <2>4
<1>8. ASSUME SettleQuestionReview(w) PROVE HiddenInv'
  <2>1. /\ qpc[w] = "settle" /\ qpc'[w] = "idle" /\ qreq'[w] = NoEdit
        /\ UNCHANGED <<rel, hidden, mixed, qStatus>>
    BY <1>8 DEF SettleQuestionReview, QReturn, QGoto, QDone, QShape, QTypeOK, qTags, qHistory
  <2>2. Op(w) # "show"
    BY <2>1, OpType DEF QMayBe, QPCs
  <2> QED
    BY <2>1, <2>2, HiddenLeave
<1>9. ASSUME RejectReview(w) PROVE HiddenInv'
  <2>1. /\ qpc[w] = "reject" /\ qpc'[w] = "list_all"
        /\ UNCHANGED <<rel, hidden, mixed, qreq, qseen, qStatus>>
    BY <1>9 DEF RejectReview, QGoto, QShape, QTypeOK, qTags, qHistory
  <2> QED
    BY <2>1, HiddenStay
<1>10. ASSUME LookAtTags(w) PROVE HiddenInv'
  <2>1. /\ qpc[w] = "look" /\ qpc'[w] = "drop"
        /\ UNCHANGED <<rel, hidden, mixed, qreq, qStatus>>
    BY <1>10 DEF LookAtTags, QGoto, QShape, QTypeOK, qTags, qHistory, qQuestion
  <2>2. qseen'[w].hide = qseen[w].hide /\ qseen'[w].default = DefaultStatus(On(w))
    BY <1>10 DEF LookAtTags, QShape, QTypeOK, QSights
  <2>3. On(w) \in hidden \ mixed => DefaultStatus(On(w)) = "hide"
    <3>1. Op(w) \in {"add", "edit"}
      BY <2>1, OpType DEF QMayBe, QPCs
    <3>2. SightHoldsOf(w)
      BY DEF HiddenInv
    <3> QED
      BY <3>1, <3>2 DEF SightHoldsOf, DefaultStatus
  <2> QED
    BY <2>1, <2>2, <2>3, HiddenStay
<1>11. ASSUME ListAllTags(w) PROVE HiddenInv'
  <2>1. /\ qpc[w] = "list_all" /\ qpc'[w] = "drop_all" /\ qseen'[w].hide = qseen[w].hide
        /\ UNCHANGED <<rel, hidden, mixed, qreq, qStatus>>
    BY <1>11 DEF ListAllTags, QGoto, QShape, QTypeOK, QSights, qTags, qHistory, qQuestion
  <2> QED
    BY <2>1, HiddenStay
<1>12. ASSUME ListTags(w) PROVE HiddenInv'
  <2>1. /\ qpc[w] = "list" /\ qpc'[w] = "count" /\ qseen'[w].hide = qseen[w].hide
        /\ UNCHANGED <<rel, hidden, mixed, qreq, qStatus>>
    BY <1>12 DEF ListTags, QGoto, QShape, QTypeOK, QSights, qTags, qHistory, qQuestion
  <2> QED
    BY <2>1, HiddenStay
<1>13. ASSUME NEW t \in Tags, CountTag(w, t) PROVE HiddenInv'
  <2>1. /\ qpc[w] = "count" /\ qpc'[w] = "number" /\ qseen'[w].hide = qseen[w].hide
        /\ UNCHANGED <<rel, hidden, mixed, qreq, qStatus>>
    BY <1>13 DEF CountTag, QGoto, QShape, QTypeOK, QSights, qTags, qHistory, qQuestion
  <2> QED
    BY <2>1, HiddenStay
<1>14. ASSUME WriteTagCount(w) PROVE HiddenInv'
  <2>1. /\ qpc[w] = "number" /\ qpc'[w] = "count" /\ qseen'[w].hide = qseen[w].hide
        /\ UNCHANGED <<rel, hidden, mixed, qreq, qStatus>>
    BY <1>14 DEF WriteTagCount, QGoto, QShape, QTypeOK, QSights, qQuestion
  <2> QED
    BY <2>1, HiddenStay
<1>15. ASSUME CountedAll(w) PROVE HiddenInv'
  <2>1. qpc[w] = "count" /\ UNCHANGED <<rel, hidden, mixed, qStatus>>
    BY <1>15 DEF CountedAll, qTags, qHistory, qQuestion
  <2>2. CASE Op(w) \in {"hide", "show"}
    <3>1. qpc'[w] = "operation" /\ UNCHANGED <<qreq, qseen>>
      BY <1>15, <2>2 DEF CountedAll, QGoto, QShape, QTypeOK
    <3> QED
      BY <2>1, <3>1, HiddenStay
  <2>3. CASE Op(w) \notin {"hide", "show"}
    <3>1. qpc'[w] = "idle" /\ qreq'[w] = NoEdit
      BY <1>15, <2>3 DEF CountedAll, QReturn, QGoto, QDone, QShape, QTypeOK
    <3> QED
      BY <2>1, <2>3, <3>1, HiddenLeave
  <2> QED
    BY <2>2, <2>3
<1>16. ASSUME DropTags(w) PROVE HiddenInv'
  <2> DEFINE ks == {On(w)} \X qseen[w].old
  <2>1. /\ qpc[w] = "drop" /\ qpc'[w] = "link" /\ SetRels(w, ks, "deleted")
        /\ UNCHANGED <<qreq, qseen, hidden, qStatus, mixed>>
    BY <1>16 DEF DropTags, QGoto, QShape, QTypeOK, qQuestion
  <2>2. PICK q \in QuestionIds : On(w) = q
    BY <2>1, OnType
  <2>3. ks \in SUBSET Rels /\ \A k \in ks : k[1] = q
    BY <2>2 DEF Rels, QShape, QTypeOK, QSights
  <2> HIDE DEF ks
  <2>4. HideUnderOf(w)'
    BY <2>1 DEF HideUnderOf
  <2>5. HiddenRelsOf(q) => HiddenRelsOf(q)'
    <3>1. \A t \in Tags : rel'[<<q, t>>] = "available" => rel[<<q, t>>] = "available"
      BY <2>1 DEF SetRels, Rels
    <3>2. \A v \in Editors : On(v) = q /\ Op(v) = "show" /\ qpc[v] \in PastRelations =>
                             On(v)' = q /\ Op(v)' = "show" /\ qpc'[v] \in PastRelations
      BY <2>1, OthersStay DEF On, Op
    <3> QED
      BY <2>1, <3>1, <3>2 DEF HiddenRelsOf
  <2> QED
    BY <2>1, <2>2, <2>3, <2>4, <2>5, HiddenChange
<1>17. ASSUME LinkTags(w) PROVE HiddenInv'
  <2> DEFINE ks == {On(w)} \X qseen[w].new
             st == qseen[w].default
  <2>1. /\ qpc[w] = "link" /\ qpc'[w] = "count" /\ SetRels(w, ks, st)
        /\ UNCHANGED <<qreq, qseen, hidden, qStatus, mixed>>
    BY <1>17 DEF LinkTags, QGoto, QShape, QTypeOK, qQuestion
  <2>2. PICK q \in QuestionIds : On(w) = q
    BY <2>1, OnType
  <2>3. ks \in SUBSET Rels /\ \A k \in ks : k[1] = q
    BY <2>2 DEF Rels, QShape, QTypeOK, QSights
  <2>4. q \in hidden \ mixed => st = "hide"
    BY <2>1, <2>2 DEF HiddenInv, SightHoldsOf
  <2>5. Op(w) \in {"add", "edit"}
    BY <2>1, OpType DEF QMayBe, QPCs
  <2> HIDE DEF ks, st
  <2>6. HideUnderOf(w)'
    BY <2>1, <2>5 DEF HideUnderOf, Op
  <2>7. HiddenRelsOf(q) => HiddenRelsOf(q)'
    <3>1. q \in hidden \ mixed => \A t \in Tags : rel'[<<q, t>>] = "available" => rel[<<q, t>>] = "available"
      BY <2>1, <2>4 DEF SetRels, Rels
    <3>2. \A v \in Editors : On(v) = q /\ Op(v) = "show" /\ qpc[v] \in PastRelations =>
                             On(v)' = q /\ Op(v)' = "show" /\ qpc'[v] \in PastRelations
      BY <2>1, OthersStay DEF On, Op
    <3> QED
      BY <2>1, <3>1, <3>2 DEF HiddenRelsOf
  <2> QED
    BY <2>1, <2>2, <2>3, <2>6, <2>7, HiddenChange
<1>18. ASSUME HideTagRels(w) PROVE HiddenInv'
  <2> DEFINE ks == RelsOf(On(w), {"available"})
  <2>1. /\ qpc[w] = "hide" /\ qpc'[w] = "list" /\ SetRels(w, ks, "hide")
        /\ UNCHANGED <<qreq, qseen, hidden, qStatus, mixed>>
    BY <1>18 DEF HideTagRels, QGoto, QShape, QTypeOK, qQuestion
  <2>2. PICK q \in QuestionIds : On(w) = q
    BY <2>1, OnType
  <2>3. ks \in SUBSET Rels /\ \A k \in ks : k[1] = q
    BY <2>2 DEF RelsOf
  <2>4. \A t \in Tags : rel'[<<q, t>>] # "available"
    <3> SUFFICES ASSUME NEW t \in Tags PROVE rel'[<<q, t>>] # "available"
      OBVIOUS
    <3>1. <<q, t>> \in Rels /\ <<q, t>>[1] = q
      BY DEF Rels
    <3>2. rel[<<q, t>>] = "available" => <<q, t>> \in ks
      BY <2>2, <3>1 DEF RelsOf
    <3> HIDE DEF ks
    <3> QED
      BY <2>1, <3>1, <3>2 DEF SetRels
  <2> HIDE DEF ks
  <2>5. HideUnderOf(w)' /\ HiddenRelsOf(q)'
    BY <2>1, <2>2, <2>4 DEF HideUnderOf, HiddenRelsOf, On
  <2> QED
    BY <2>1, <2>2, <2>3, <2>5, HiddenChange
<1>19. ASSUME ShowTagRels(w) PROVE HiddenInv'
  <2> DEFINE ks == RelsOf(On(w), {"hide"})
  <2>1. /\ qpc[w] = "show" /\ qpc'[w] = "list" /\ SetRels(w, ks, "available")
        /\ UNCHANGED <<qreq, qseen, hidden, qStatus, mixed>>
    BY <1>19 DEF ShowTagRels, QGoto, QShape, QTypeOK, qQuestion
  <2>2. PICK q \in QuestionIds : On(w) = q
    BY <2>1, OnType
  <2>3. ks \in SUBSET Rels /\ \A k \in ks : k[1] = q
    BY <2>2 DEF RelsOf
  <2> HIDE DEF ks
  <2>4. Op(w) = "show"
    BY <2>1, OpType DEF QMayBe, QPCs
  <2>5. On(w)' = q /\ Op(w)' = "show" /\ qpc'[w] \in PastRelations
    BY <2>1, <2>2, <2>4 DEF On, Op
  <2>6. HideUnderOf(w)' /\ HiddenRelsOf(q)'
    BY <2>5 DEF HideUnderOf, HiddenRelsOf
  <2> QED
    BY <2>1, <2>2, <2>3, <2>6, HiddenChange
<1>20. ASSUME RemoveTagRels(w) PROVE HiddenInv'
  <2> DEFINE ks == RelsOf(On(w), {"available", "hide", "deleted"})
  <2>1. /\ qpc[w] = "drop_all" /\ qpc'[w] = "count" /\ SetRels(w, ks, "deleted")
        /\ UNCHANGED <<qreq, qseen, hidden, qStatus, mixed>>
    BY <1>20 DEF RemoveTagRels, QGoto, QShape, QTypeOK, qQuestion
  <2>2. PICK q \in QuestionIds : On(w) = q
    BY <2>1, OnType
  <2>3. ks \in SUBSET Rels /\ \A k \in ks : k[1] = q
    BY <2>2 DEF RelsOf
  <2>4. \A t \in Tags : rel'[<<q, t>>] # "available"
    <3> SUFFICES ASSUME NEW t \in Tags PROVE rel'[<<q, t>>] # "available"
      OBVIOUS
    <3>1. <<q, t>> \in Rels /\ <<q, t>>[1] = q
      BY DEF Rels
    <3>2. rel[<<q, t>>] = "available" => <<q, t>> \in ks
      BY <2>2, <3>1 DEF RelsOf
    <3> HIDE DEF ks
    <3> QED
      BY <2>1, <3>1, <3>2 DEF SetRels
  <2> HIDE DEF ks
  <2>5. HideUnderOf(w)' /\ HiddenRelsOf(q)'
    BY <2>1, <2>2, <2>4 DEF HideUnderOf, HiddenRelsOf, On
  <2> QED
    BY <2>1, <2>2, <2>3, <2>5, HiddenChange
<1>21. ASSUME RecoverTagRels(w) PROVE HiddenInv'
  <2> DEFINE ks == RelsOf(On(w), {"available", "hide", "deleted"})
  <2>1. /\ qpc[w] = "recover_rels" /\ qpc'[w] = "list" /\ SetRels(w, ks, "available")
        /\ UNCHANGED <<qreq, qseen, hidden, qStatus>> /\ mixed' = mixed \cup {On(w)}
    BY <1>21 DEF RecoverTagRels, QGoto, QShape, QTypeOK, qQuestion
  <2>2. PICK q \in QuestionIds : On(w) = q
    BY <2>1, OnType
  <2>3. ks \in SUBSET Rels /\ \A k \in ks : k[1] = q
    BY <2>2 DEF RelsOf
  <2> HIDE DEF ks
  <2> QED
    BY <2>1, <2>2, <2>3, HiddenChange
<1>22. ASSUME UpdateQuestionOperation(w) PROVE HiddenInv'
  <2>1. /\ qpc[w] = "operation" /\ qpc'[w] = "idle" /\ qreq'[w] = NoEdit /\ UNCHANGED <<rel, qStatus, mixed>>
        /\ hidden' = IF qseen[w].hide THEN hidden \cup {On(w)} ELSE hidden \ {On(w)}
    BY <1>22 DEF UpdateQuestionOperation, QReturn, QGoto, QDone, QShape, QTypeOK, qTags, qHistory
  <2>2. PICK q \in QuestionIds : On(w) = q
    BY <2>1, OnType
  <2>3. Op(w) \in Operations
    BY <2>1, OpType DEF QMayBe, QPCs
  <2>4. On(w)' = NoQuestion /\ Op(w)' = "none"
    BY <2>1 DEF On, Op, NoEdit
  <2>5. HideUnderOf(w)' /\ SightHoldsOf(w)'
    BY <2>1, <2>4 DEF HideUnderOf, SightHoldsOf
  <2>6. HiddenRelsOf(q)'
    <3> SUFFICES ASSUME q \in hidden' \ mixed, NEW t \in Tags, rel[<<q, t>>] = "available"
                 PROVE  FALSE
      BY <2>1 DEF HiddenRelsOf
    <3>1. qseen[w].hide
      BY <2>1, <2>2
    <3>2. Op(w) \in {"hide", "unpin"}
      BY <3>1, <2>3 DEF HiddenInv, SightHoldsOf, Operations
    <3>3. CASE Op(w) = "hide"
      BY <2>1, <2>2, <3>3 DEF HiddenInv, HideUnderOf
    <3>4. CASE Op(w) = "unpin"
      <4>1. q \in hidden
        BY <2>2, <3>1, <3>4 DEF HiddenInv, SightHoldsOf
      <4>2. PICK v \in Editors : On(v) = q /\ Op(v) = "show"
        BY <4>1 DEF HiddenInv, HiddenRelsOf
      <4>3. v # w
        BY <4>2, <3>4
      <4> QED
        BY <2>2, <4>2, <4>3 DEF HiddenInv, AloneUnlessMixed
    <3> QED
      BY <3>2, <3>3, <3>4
  <2>7. \A p \in QuestionIds \ {q} : p \in hidden' <=> p \in hidden
    BY <2>1, <2>2
  <2> QED
    BY <2>1, <2>2, <2>5, <2>6, <2>7, HiddenOwn
<1>23. ASSUME QBreakOff(w) PROVE HiddenInv'
  <2>1. /\ qpc[w] # "idle" /\ qpc'[w] = "idle" /\ qreq'[w] = NoEdit /\ UNCHANGED <<rel, hidden>>
        /\ \A p \in QuestionIds \ {On(w)} : qStatus'[p] = qStatus[p]
        /\ mixed' = mixed \cup {On(w)}
    BY <1>23 DEF QBreakOff, QDone, QShape, QTypeOK, qTags
  <2>2. PICK q \in QuestionIds : On(w) = q
    BY <2>1, OnType
  <2>3. SightHoldsOf(w)'
    BY <2>1 DEF SightHoldsOf, Op, NoEdit
  <2> QED
    BY <2>1, <2>2, <2>3, HiddenOwn
<1> QED
  BY <1>1, <1>2, <1>3, <1>4, <1>5, <1>6, <1>7, <1>8, <1>9, <1>10, <1>11, <1>12, <1>13, <1>14,
     <1>15, <1>16, <1>17, <1>18, <1>19, <1>20, <1>21, <1>22, <1>23 DEF QEdit

-----------------------------------------------------------------------------
LEMMA QInvStep == QInv /\ [QNext]_qVars => QInv'
<1> SUFFICES ASSUME QInv, [QNext]_qVars PROVE QInv'
  OBVIOUS
<1>1. QShape
  BY DEF QInv, QShape
<1>2. QTypeOK' /\ QControl'
  BY <1>1, ShapeStep DEF QShape
<1>3. CASE UNCHANGED qVars
  <2>1. UNCHANGED <<qStatus, pinned, hidden, qReview, rel, tagCount, qpc, qreq, qseen, edits, lapses,
                    late, staleTags, mixed>>
    BY <1>3 DEF qVars, qQuestion, qTags, qHistory
  <2>2. PinnedVisible' /\ PinSeen'
    BY <2>1 DEF QInv, PinnedVisible, PinSeen
  <2>3. NumbersInv'
    BY <2>1 DEF QInv, NumbersInv, WillRefresh, WillRefreshOf, CountedRight, CountedRightOf, NumbersOwed,
                Owes, Linked, TagsOf, RelsOf, On
  <2>4. HiddenInv'
    BY <2>1 DEF QInv, HiddenInv, AloneUnlessMixed, HiddenRelsOf, HideUnderOf, SightHoldsOf, On, Op
  <2> QED
    BY <1>2, <2>2, <2>3, <2>4 DEF QInv
<1>4. ASSUME NEW w \in Editors, QEdit(w) PROVE QInv'
  <2>1. PinnedVisible' /\ PinSeen'
    BY <1>1, <1>4, PinStep DEF QInv
  <2>2. NumbersInv'
    BY <1>1, <1>4, NumbersStep DEF QInv
  <2>3. HiddenInv'
    BY <1>1, <1>4, HiddenStep DEF QInv
  <2> QED
    BY <1>2, <2>1, <2>2, <2>3 DEF QInv
<1> QED
  BY <1>3, <1>4 DEF QNext

(* The invariant holds throughout. *)
LEMMA QInvAlways == QSpec => []QInv
BY QInitInv, QInvStep, PTL DEF QSpec

(* Every variable of the question service keeps its type, whatever requests
   arrive and wherever they break off. *)
THEOREM QTypes == QSpec => []QTypeOK
<1>1. QInv => QTypeOK
  BY DEF QInv
<1> QED
  BY <1>1, QInvAlways, PTL

(* OperationQuestion never leaves a question both pinned and hidden, although
   two of them may overlap and each writes both columns. *)
THEOREM PinnedNeverHidden == QSpec => []PinnedVisible
<1>1. QInv => PinnedVisible
  BY DEF QInv
<1> QED
  BY <1>1, QInvAlways, PTL

(* At rest the number of a tag is that of its available relations unless a
   request that another one overtook wrote it last, and hidden questions have
   no available relation unless requests for them overlapped. *)
THEOREM TagNumbersAgree == QSpec => []TagCountsAgree
<1>1. QInv => TagCountsAgree
  <2> SUFFICES ASSUME QInv, QAtRest PROVE TagCountsAgree
    BY DEF TagCountsAgree
  <2>1. \A t \in Tags \ staleTags : tagCount[t] = Cardinality(Linked(t))
    BY DEF QInv, NumbersInv, NumbersOwed, Owes, QAtRest
  <2>2. ASSUME NEW q \in hidden \ mixed, NEW t \in Tags PROVE rel[<<q, t>>] # "available"
    BY DEF QInv, HiddenInv, HiddenRelsOf, PastRelations, QAtRest, QTypeOK
  <2> QED
    BY <2>1, <2>2 DEF TagCountsAgree
<1> QED
  BY <1>1, QInvAlways, PTL

-----------------------------------------------------------------------------
(* Answers. *)
USE AnswersAssumption DEF AnswersAssumption

AcceptPCs == {"clear", "adopt", "question", "find", "find_too", "cancel", "reward"}
AnswerOps == {"insert", "remove", "recover", "review"}

(* What a request has read. *)
SeenType == [status : Statuses, count : 0..Cardinality(AnswerIds), late : BOOLEAN,
             old : AnswerIds \cup {NoAnswer}, rows : SUBSET ActRows, live : SUBSET ActRows]

AnswerTypes ==
  /\ status \in [AnswerIds -> Statuses \cup {"none"}]
  /\ adopted \subseteq AnswerIds
  /\ review \in [AnswerIds -> {"none", "pending", "approved", "rejected"}]
  /\ acceptedId \in AnswerIds \cup {NoAnswer}
  /\ answerCount \in 0..Cardinality(AnswerIds)
  /\ acts \in [ActRows -> {"none", "live", "cancelled"}]
  /\ apc \in [Workers -> APCs]
  /\ areq \in [Workers -> [op : Ops, answer : AnswerIds \cup {NoAnswer},
                           by : Acceptors \cup {Asker}]]
  /\ aseen \in [Workers -> SeenType]
  /\ work \in 0..MaxWork
  /\ breaks \in 0..MaxBreaks
  /\ stale \in BOOLEAN /\ disturbed \in BOOLEAN /\ torn \in BOOLEAN
  /\ unreviewed \subseteq AnswerIds

(* Which request may be about to do what. *)
AtWork(w) ==
  /\ apc[w] = "idle" <=> areq[w].op = "none"
  /\ apc[w] = "ask" => areq[w].op = "insert"
  /\ apc[w] \in {"status", "count", "write"} => areq[w].op \in AnswerOps
  /\ apc[w] = "settle" => areq[w].op = "review"
  /\ apc[w] \in AcceptPCs <=> areq[w].op = "accept"
  /\ areq[w].op \in AnswerOps => Answer(w) \in AnswerIds /\ status[Answer(w)] # "none"
  /\ areq[w].op \in {"remove", "recover", "review"} => aseen[w].status # "pending"
  /\ areq[w].op = "accept" => areq[w].by \in Acceptors
  /\ apc[w] = "adopt" => Answer(w) \in AnswerIds
  /\ apc[w] = "idle" => aseen[w].rows = {} /\ aseen[w].live = {}

(* What has not been posted has no review. *)
NewUnreviewed == \A a \in AnswerIds : status[a] = "none" => review[a] = "none"

AShape == AnswerTypes /\ (\A w \in Workers : AtWork(w)) /\ NewUnreviewed

LEMMA CardinalityOfAnswers ==
  /\ Cardinality(AnswerIds) \in Nat
  /\ \A S \in SUBSET AnswerIds : Cardinality(S) \in 0..Cardinality(AnswerIds)
BY FS_Subset, FS_CardinalityType

(* What a request has read keeps its type when a part of it changes. *)
LEMMA SeenChanges ==
  /\ NothingSeen \in SeenType
  /\ \A s \in SeenType :
       /\ \A d \in Statuses : [s EXCEPT !.status = d] \in SeenType
       /\ \A n \in 0..Cardinality(AnswerIds) : [s EXCEPT !.count = n] \in SeenType
       /\ \A b \in BOOLEAN : [s EXCEPT !.late = b] \in SeenType
       /\ \A a \in AnswerIds \cup {NoAnswer} : [s EXCEPT !.old = a] \in SeenType
       /\ \A rows, live \in SUBSET ActRows :
            [s EXCEPT !.rows = s.rows \cup rows, !.live = s.live \cup live] \in SeenType
<1>1. 0 \in 0..Cardinality(AnswerIds)
  BY CardinalityOfAnswers
<1>2. NothingSeen \in SeenType
  BY <1>1 DEF NothingSeen, SeenType, Statuses
<1> QED
  BY <1>2 DEF SeenType

LEMMA MakeLateType ==
  ASSUME NEW seen \in [Workers -> SeenType]
  PROVE  MakeLate(seen) \in [Workers -> SeenType]
BY SeenChanges DEF MakeLate

LEMMA AInitShape == AInit => AShape
<1> SUFFICES ASSUME AInit PROVE AShape
  OBVIOUS
<1>1. Cardinality(AvailableAnswers) \in 0..Cardinality(AnswerIds)
  BY CardinalityOfAnswers DEF AvailableAnswers
<1>2. aseen \in [Workers -> SeenType]
  BY SeenChanges DEF AInit
<1>3. AnswerTypes
  <2>1. status \in [AnswerIds -> Statuses \cup {"none"}]
    BY DEF AInit, Statuses
  <2>2. NoWork \in [op : Ops, answer : AnswerIds \cup {NoAnswer}, by : Acceptors \cup {Asker}]
    BY DEF NoWork, Ops
  <2>3. areq \in [Workers -> [op : Ops, answer : AnswerIds \cup {NoAnswer}, by : Acceptors \cup {Asker}]]
    BY <2>2 DEF AInit
  <2>4. work \in 0..MaxWork /\ breaks \in 0..MaxBreaks
    BY DEF AInit
  <2> QED
    BY <1>1, <1>2, <2>1, <2>3, <2>4 DEF AInit, AnswerTypes, APCs
<1>4. \A w \in Workers : AtWork(w)
  BY DEF AInit, AtWork, NoWork, NothingSeen, Answer, AcceptPCs, AnswerOps
<1> QED
  BY <1>3, <1>4 DEF AInit, AShape, NewUnreviewed


LEMMA InsertAnswerShape ==
  ASSUME AShape, NEW w \in Workers, NEW a \in AnswerIds, InsertAnswer(w, a)
  PROVE  AShape'
<1>1. aseen' \in [Workers -> SeenType]
  BY SeenChanges DEF InsertAnswer, Arrives, AGoto, aQuestion, aRanks, aHistory, AShape,
         AnswerTypes, AtWork, Statuses
<1>2. AnswerTypes'
  BY <1>1 DEF InsertAnswer, Arrives, AGoto, aQuestion, aRanks, aHistory, AShape, AnswerTypes,
         AtWork, Answer, Ops, APCs, Statuses, AnswerOps, AcceptPCs
<1>3. \A v \in Workers : AtWork(v)'
  BY DEF InsertAnswer, Arrives, AGoto, aQuestion, aRanks, aHistory, AShape, AnswerTypes,
         SeenType, AtWork, NewUnreviewed, Answer, AcceptPCs, AnswerOps, NothingSeen
<1>4. NewUnreviewed'
  BY DEF InsertAnswer, Arrives, AGoto, aQuestion, aRanks, aHistory, AShape, AnswerTypes,
         SeenType, AtWork, Answer, AnswerOps, NewUnreviewed, Statuses
<1> QED
  BY <1>2, <1>3, <1>4 DEF AShape

LEMMA AddAnswerReviewShape ==
  ASSUME AShape, NEW w \in Workers, AddAnswerReview(w)
  PROVE  AShape'
<1>1. aseen' \in [Workers -> SeenType]
  <2>1. PICK d \in Statuses : aseen' = [aseen EXCEPT ![w].status = d]
    BY DEF AddAnswerReview
  <2> QED
    BY <2>1, SeenChanges DEF AShape, AnswerTypes
<1>2. AnswerTypes'
  BY <1>1 DEF AddAnswerReview, AGoto, aQuestion, aRanks, aHistory, AShape, AnswerTypes,
         AtWork, Answer, Ops, APCs, Statuses, AnswerOps, AcceptPCs
<1>3. \A v \in Workers : AtWork(v)'
  BY DEF AddAnswerReview, AGoto, aQuestion, aRanks, aHistory, AShape, AnswerTypes, SeenType,
         AtWork, NewUnreviewed, Answer, AcceptPCs, AnswerOps, NothingSeen
<1>4. NewUnreviewed'
  BY DEF AddAnswerReview, AGoto, aQuestion, aRanks, aHistory, AShape, AnswerTypes, SeenType,
         AtWork, Answer, AnswerOps, NewUnreviewed, Statuses
<1> QED
  BY <1>2, <1>3, <1>4 DEF AShape

LEMMA AddReviewFailsShape ==
  ASSUME AShape, NEW w \in Workers, AddReviewFails(w)
  PROVE  AShape'
<1>1. aseen' \in [Workers -> SeenType]
  BY SeenChanges DEF AddReviewFails, AGoto, aQuestion, aAnswers, aRanks, AShape, AnswerTypes,
         AtWork, Statuses
<1>2. AnswerTypes'
  BY <1>1 DEF AddReviewFails, AGoto, aQuestion, aAnswers, aRanks, AShape, AnswerTypes, AtWork,
         Answer, Ops, APCs, Statuses, AnswerOps, AcceptPCs
<1>3. \A v \in Workers : AtWork(v)'
  BY DEF AddReviewFails, AGoto, aQuestion, aAnswers, aRanks, AShape, AnswerTypes, SeenType,
         AtWork, NewUnreviewed, Answer, AcceptPCs, AnswerOps, NothingSeen
<1>4. NewUnreviewed'
  BY DEF AddReviewFails, AGoto, aQuestion, aAnswers, aRanks, AShape, AnswerTypes, SeenType,
         AtWork, Answer, AnswerOps, NewUnreviewed, Statuses
<1> QED
  BY <1>2, <1>3, <1>4 DEF AShape

LEMMA RemoveAnswerShape ==
  ASSUME AShape, NEW w \in Workers, NEW a \in AnswerIds, NEW m \in BOOLEAN, RemoveAnswer(w, a, m)
  PROVE  AShape'
<1>1. aseen' \in [Workers -> SeenType]
  BY SeenChanges DEF RemoveAnswer, Arrives, AGoto, aQuestion, aAnswers, aRanks, aHistory,
         AShape, AnswerTypes, AtWork, Statuses
<1>2. AnswerTypes'
  BY <1>1 DEF RemoveAnswer, Arrives, AGoto, aQuestion, aAnswers, aRanks, aHistory, AShape,
         AnswerTypes, AtWork, Answer, Ops, APCs, Statuses, AnswerOps, AcceptPCs
<1>3. \A v \in Workers : AtWork(v)'
  BY DEF RemoveAnswer, Arrives, AGoto, aQuestion, aAnswers, aRanks, aHistory, AShape,
         AnswerTypes, SeenType, AtWork, NewUnreviewed, Answer, AcceptPCs, AnswerOps,
         NothingSeen
<1>4. NewUnreviewed'
  BY DEF RemoveAnswer, Arrives, AGoto, aQuestion, aAnswers, aRanks, aHistory, AShape,
         AnswerTypes, SeenType, AtWork, Answer, AnswerOps, NewUnreviewed, Statuses
<1> QED
  BY <1>2, <1>3, <1>4 DEF AShape

LEMMA RecoverAnswerShape ==
  ASSUME AShape, NEW w \in Workers, NEW a \in AnswerIds, RecoverAnswer(w, a)
  PROVE  AShape'
<1>1. aseen' \in [Workers -> SeenType]
  BY SeenChanges DEF RecoverAnswer, Arrives, AGoto, aQuestion, aAnswers, aRanks, aHistory,
         AShape, AnswerTypes, AtWork, Statuses
<1>2. AnswerTypes'
  BY <1>1 DEF RecoverAnswer, Arrives, AGoto, aQuestion, aAnswers, aRanks, aHistory, AShape,
         AnswerTypes, AtWork, Answer, Ops, APCs, Statuses, AnswerOps, AcceptPCs
<1>3. \A v \in Workers : AtWork(v)'
  BY DEF RecoverAnswer, Arrives, AGoto, aQuestion, aAnswers, aRanks, aHistory, AShape,
         AnswerTypes, SeenType, AtWork, NewUnreviewed, Answer, AcceptPCs, AnswerOps,
         NothingSeen
<1>4. NewUnreviewed'
  BY DEF RecoverAnswer, Arrives, AGoto, aQuestion, aAnswers, aRanks, aHistory, AShape,
         AnswerTypes, SeenType, AtWork, Answer, AnswerOps, NewUnreviewed, Statuses
<1> QED
  BY <1>2, <1>3, <1>4 DEF AShape

LEMMA UpdateReviewShape ==
  ASSUME AShape, NEW w \in Workers, NEW a \in AnswerIds, NEW d \in {"available", "deleted"}, UpdateReview(w, a, d)
  PROVE  AShape'
<1>1. aseen' \in [Workers -> SeenType]
  BY SeenChanges DEF UpdateReview, Arrives, AGoto, aQuestion, aAnswers, aRanks, aHistory,
         AShape, AnswerTypes, AtWork, Statuses
<1>2. AnswerTypes'
  BY <1>1 DEF UpdateReview, Arrives, AGoto, aQuestion, aAnswers, aRanks, aHistory, AShape,
         AnswerTypes, AtWork, Answer, Ops, APCs, Statuses, AnswerOps, AcceptPCs
<1>3. \A v \in Workers : AtWork(v)'
  BY DEF UpdateReview, Arrives, AGoto, aQuestion, aAnswers, aRanks, aHistory, AShape,
         AnswerTypes, SeenType, AtWork, NewUnreviewed, Answer, AcceptPCs, AnswerOps,
         NothingSeen
<1>4. NewUnreviewed'
  BY DEF UpdateReview, Arrives, AGoto, aQuestion, aAnswers, aRanks, aHistory, AShape,
         AnswerTypes, SeenType, AtWork, Answer, AnswerOps, NewUnreviewed, Statuses
<1> QED
  BY <1>2, <1>3, <1>4 DEF AShape

LEMMA WriteStatusShape ==
  ASSUME AShape, NEW w \in Workers, WriteStatus(w)
  PROVE  AShape'
<1>1. aseen' \in [Workers -> SeenType]
  BY SeenChanges, MakeLateType DEF WriteStatus, AGoto, Inserting, aQuestion, aRanks, AShape,
         AnswerTypes, AtWork, Statuses
<1>2. AnswerTypes'
  <2>1. aseen[w].status \in Statuses /\ Answer(w) \in AnswerIds
    BY DEF WriteStatus, AGoto, AShape, AnswerTypes, SeenType, AtWork
  <2>2. status' \in [AnswerIds -> Statuses \cup {"none"}] /\ unreviewed' \subseteq AnswerIds
    BY <2>1 DEF WriteStatus, AShape, AnswerTypes
  <2> QED
    BY <1>1, <2>2 DEF WriteStatus, AGoto, aQuestion, aRanks, AShape, AnswerTypes, APCs
<1>3. \A v \in Workers : AtWork(v)'
  <2>1. aseen[w].status \in Statuses /\ Answer(w) \in AnswerIds /\ areq[w].op \in AnswerOps
    BY DEF WriteStatus, AGoto, AShape, AnswerTypes, SeenType, AtWork
  <2>2. \A a \in AnswerIds : status[a] # "none" => status'[a] # "none"
    BY <2>1 DEF WriteStatus, AShape, AnswerTypes, Statuses
  <2>3. \A v \in Workers : /\ aseen'[v].status = aseen[v].status
                           /\ aseen'[v].rows = aseen[v].rows /\ aseen'[v].live = aseen[v].live
    BY DEF WriteStatus, MakeLate, AShape, AnswerTypes, SeenType
  <2> QED
    BY <2>1, <2>2, <2>3 DEF WriteStatus, AGoto, AShape, AnswerTypes, AtWork, Answer, AcceptPCs, AnswerOps
<1>4. NewUnreviewed'
  BY DEF WriteStatus, AGoto, MakeLate, Inserting, aQuestion, aRanks, AShape, AnswerTypes,
         SeenType, AtWork, Answer, AnswerOps, NewUnreviewed, Statuses
<1> QED
  BY <1>2, <1>3, <1>4 DEF AShape

LEMMA CountAnswersShape ==
  ASSUME AShape, NEW w \in Workers, CountAnswers(w)
  PROVE  AShape'
<1>1. aseen' \in [Workers -> SeenType]
  <2>1. Cardinality(Counted) \in 0..Cardinality(AnswerIds)
    BY CardinalityOfAnswers DEF Counted, AvailableAnswers
  <2> QED
    BY <2>1, SeenChanges DEF CountAnswers, AShape, AnswerTypes
<1>2. AnswerTypes'
  BY <1>1 DEF CountAnswers, AGoto, Counted, AvailableAnswers, aQuestion, aAnswers, aRanks,
         aHistory, AShape, AnswerTypes, AtWork, Answer, Ops, APCs, Statuses, AnswerOps,
         AcceptPCs
<1>3. \A v \in Workers : AtWork(v)'
  BY DEF CountAnswers, AGoto, Counted, AvailableAnswers, aQuestion, aAnswers, aRanks,
         aHistory, AShape, AnswerTypes, SeenType, AtWork, NewUnreviewed, Answer, AcceptPCs,
         AnswerOps, NothingSeen
<1>4. NewUnreviewed'
  BY DEF CountAnswers, AGoto, Counted, AvailableAnswers, aQuestion, aAnswers, aRanks,
         aHistory, AShape, AnswerTypes, SeenType, AtWork, Answer, AnswerOps, NewUnreviewed,
         Statuses
<1> QED
  BY <1>2, <1>3, <1>4 DEF AShape

LEMMA UpdateAnswerCountShape ==
  ASSUME AShape, NEW w \in Workers, UpdateAnswerCount(w)
  PROVE  AShape'
<1>1. aseen' \in [Workers -> SeenType]
  BY SeenChanges, MakeLateType DEF UpdateAnswerCount, AGoto, WriteCount, NoWork, aAnswers,
         aRanks, AShape, AnswerTypes, AtWork, Statuses
<1>2. AnswerTypes'
  <2>1. answerCount' \in 0..Cardinality(AnswerIds) /\ stale' \in BOOLEAN
    BY DEF UpdateAnswerCount, WriteCount, AShape, AnswerTypes, SeenType
  <2> QED
    BY <1>1, <2>1 DEF UpdateAnswerCount, AGoto, WriteCount, NoWork, aAnswers, aRanks, AShape, AnswerTypes,
       Ops, APCs
<1>3. \A v \in Workers : AtWork(v)'
  BY DEF UpdateAnswerCount, AGoto, MakeLate, WriteCount, NoWork, aAnswers, aRanks, AShape,
         AnswerTypes, SeenType, AtWork, NewUnreviewed, Answer, AcceptPCs, AnswerOps,
         NothingSeen
<1>4. NewUnreviewed'
  BY DEF UpdateAnswerCount, AGoto, MakeLate, WriteCount, NoWork, aAnswers, aRanks, AShape,
         AnswerTypes, SeenType, AtWork, Answer, AnswerOps, NewUnreviewed, Statuses
<1> QED
  BY <1>2, <1>3, <1>4 DEF AShape

LEMMA UpdateAnswerCountOfReviewShape ==
  ASSUME AShape, NEW w \in Workers, UpdateAnswerCountOfReview(w)
  PROVE  AShape'
<1>1. aseen' \in [Workers -> SeenType]
  <2>1. PICK read \in [Workers -> SeenType] : read = MakeLate(aseen)
    BY MakeLateType DEF AShape, AnswerTypes
  <2>2. aseen' = [read EXCEPT ![w] = [read[w] EXCEPT !.late = FALSE]]
    BY <2>1 DEF UpdateAnswerCountOfReview
  <2> QED
    BY <2>1, <2>2, SeenChanges
<1>2. AnswerTypes'
  <2>1. answerCount' \in 0..Cardinality(AnswerIds) /\ stale' \in BOOLEAN
    BY DEF UpdateAnswerCountOfReview, WriteCount, AShape, AnswerTypes, SeenType
  <2> QED
    BY <1>1, <2>1 DEF UpdateAnswerCountOfReview, AGoto, WriteCount, NoWork, aAnswers, aRanks, AShape, AnswerTypes,
       Ops, APCs
<1>3. \A v \in Workers : AtWork(v)'
  BY DEF UpdateAnswerCountOfReview, AGoto, MakeLate, WriteCount, aAnswers, aRanks, AShape,
         AnswerTypes, SeenType, AtWork, NewUnreviewed, Answer, AcceptPCs, AnswerOps,
         NothingSeen
<1>4. NewUnreviewed'
  BY DEF UpdateAnswerCountOfReview, AGoto, MakeLate, WriteCount, aAnswers, aRanks, AShape,
         AnswerTypes, SeenType, AtWork, Answer, AnswerOps, NewUnreviewed, Statuses
<1> QED
  BY <1>2, <1>3, <1>4 DEF AShape

LEMMA UpdateReviewStatusShape ==
  ASSUME AShape, NEW w \in Workers, UpdateReviewStatus(w)
  PROVE  AShape'
<1>1. aseen' \in [Workers -> SeenType]
  BY SeenChanges DEF UpdateReviewStatus, AReturn, AGoto, Outcome, NoWork, aQuestion, aRanks,
         aHistory, AShape, AnswerTypes, AtWork, Statuses
<1>2. AnswerTypes'
  BY <1>1 DEF UpdateReviewStatus, AReturn, AGoto, Outcome, NoWork, aQuestion, aRanks,
         aHistory, AShape, AnswerTypes, AtWork, Answer, Ops, APCs, Statuses, AnswerOps,
         AcceptPCs
<1>3. \A v \in Workers : AtWork(v)'
  BY DEF UpdateReviewStatus, AReturn, AGoto, Outcome, NoWork, aQuestion, aRanks, aHistory,
         AShape, AnswerTypes, SeenType, AtWork, NewUnreviewed, Answer, AcceptPCs, AnswerOps,
         NothingSeen
<1>4. NewUnreviewed'
  BY DEF UpdateReviewStatus, AReturn, AGoto, Outcome, NoWork, aQuestion, aRanks, aHistory,
         AShape, AnswerTypes, SeenType, AtWork, Answer, AnswerOps, NewUnreviewed, Statuses
<1> QED
  BY <1>2, <1>3, <1>4 DEF AShape

LEMMA RemoveAllUserAnswerShape ==
  ASSUME AShape, NEW u \in Writers, RemoveAllUserAnswer(u)
  PROVE  AShape'
<1>1. aseen' \in [Workers -> SeenType]
  BY SeenChanges, MakeLateType DEF RemoveAllUserAnswer, aQuestion, aRanks, AShape,
         AnswerTypes, AtWork, Statuses
<1>2. AnswerTypes'
  BY <1>1 DEF RemoveAllUserAnswer, aQuestion, aRanks, AShape, AnswerTypes, AtWork, Answer,
         Ops, APCs, Statuses, AnswerOps, AcceptPCs
<1>3. \A v \in Workers : AtWork(v)'
  BY DEF RemoveAllUserAnswer, MakeLate, aQuestion, aRanks, AShape, AnswerTypes, SeenType,
         AtWork, NewUnreviewed, Answer, AcceptPCs, AnswerOps, NothingSeen
<1>4. NewUnreviewed'
  BY DEF RemoveAllUserAnswer, MakeLate, aQuestion, aRanks, AShape, AnswerTypes, SeenType,
         AtWork, Answer, AnswerOps, NewUnreviewed, Statuses
<1> QED
  BY <1>2, <1>3, <1>4 DEF AShape

LEMMA AcceptAnswerShape ==
  ASSUME AShape, NEW w \in Workers, NEW t \in Acceptors, NEW a \in AnswerIds \cup {NoAnswer}, AcceptAnswer(w, t, a)
  PROVE  AShape'
<1>1. aseen' \in [Workers -> SeenType]
  BY SeenChanges DEF AcceptAnswer, Arrives, AGoto, Accepting, aQuestion, aAnswers, aRanks,
         AShape, AnswerTypes, AtWork, Statuses
<1>2. AnswerTypes'
  BY <1>1 DEF AcceptAnswer, Arrives, AGoto, Accepting, aQuestion, aAnswers, aRanks, AShape,
         AnswerTypes, AtWork, Answer, Ops, APCs, Statuses, AnswerOps, AcceptPCs
<1>3. \A v \in Workers : AtWork(v)'
  BY DEF AcceptAnswer, Arrives, AGoto, Accepting, aQuestion, aAnswers, aRanks, AShape,
         AnswerTypes, SeenType, AtWork, NewUnreviewed, Answer, AcceptPCs, AnswerOps,
         NothingSeen
<1>4. NewUnreviewed'
  BY DEF AcceptAnswer, Arrives, AGoto, Accepting, aQuestion, aAnswers, aRanks, AShape,
         AnswerTypes, SeenType, AtWork, Answer, AnswerOps, NewUnreviewed, Statuses
<1> QED
  BY <1>2, <1>3, <1>4 DEF AShape

LEMMA ClearAdoptedShape ==
  ASSUME AShape, NEW w \in Workers, ClearAdopted(w)
  PROVE  AShape'
<1>1. aseen' \in [Workers -> SeenType]
  BY SeenChanges DEF ClearAdopted, AGoto, aQuestion, aRanks, aHistory, AShape, AnswerTypes,
         AtWork, Statuses
<1>2. AnswerTypes'
  BY <1>1 DEF ClearAdopted, AGoto, aQuestion, aRanks, aHistory, AShape, AnswerTypes, AtWork,
         Answer, Ops, APCs, Statuses, AnswerOps, AcceptPCs
<1>3. \A v \in Workers : AtWork(v)'
  BY DEF ClearAdopted, AGoto, aQuestion, aRanks, aHistory, AShape, AnswerTypes, SeenType,
         AtWork, NewUnreviewed, Answer, AcceptPCs, AnswerOps, NothingSeen
<1>4. NewUnreviewed'
  BY DEF ClearAdopted, AGoto, aQuestion, aRanks, aHistory, AShape, AnswerTypes, SeenType,
         AtWork, Answer, AnswerOps, NewUnreviewed, Statuses
<1> QED
  BY <1>2, <1>3, <1>4 DEF AShape

LEMMA AdoptShape ==
  ASSUME AShape, NEW w \in Workers, Adopt(w)
  PROVE  AShape'
<1>1. aseen' \in [Workers -> SeenType]
  BY SeenChanges DEF Adopt, AGoto, aQuestion, aRanks, aHistory, AShape, AnswerTypes, AtWork,
         Statuses
<1>2. AnswerTypes'
  BY <1>1 DEF Adopt, AGoto, aQuestion, aRanks, aHistory, AShape, AnswerTypes, AtWork, Answer,
         Ops, APCs, Statuses, AnswerOps, AcceptPCs
<1>3. \A v \in Workers : AtWork(v)'
  BY DEF Adopt, AGoto, aQuestion, aRanks, aHistory, AShape, AnswerTypes, SeenType, AtWork,
         NewUnreviewed, Answer, AcceptPCs, AnswerOps, NothingSeen
<1>4. NewUnreviewed'
  BY DEF Adopt, AGoto, aQuestion, aRanks, aHistory, AShape, AnswerTypes, SeenType, AtWork,
         Answer, AnswerOps, NewUnreviewed, Statuses
<1> QED
  BY <1>2, <1>3, <1>4 DEF AShape

LEMMA UpdateAcceptedShape ==
  ASSUME AShape, NEW w \in Workers, UpdateAccepted(w)
  PROVE  AShape'
<1>1. aseen' \in [Workers -> SeenType]
  BY SeenChanges DEF UpdateAccepted, AGoto, aAnswers, aRanks, aHistory, AShape, AnswerTypes,
         AtWork, Statuses
<1>2. AnswerTypes'
  BY <1>1 DEF UpdateAccepted, AGoto, aAnswers, aRanks, aHistory, AShape, AnswerTypes, AtWork,
         Answer, Ops, APCs, Statuses, AnswerOps, AcceptPCs
<1>3. \A v \in Workers : AtWork(v)'
  BY DEF UpdateAccepted, AGoto, aAnswers, aRanks, aHistory, AShape, AnswerTypes, SeenType,
         AtWork, NewUnreviewed, Answer, AcceptPCs, AnswerOps, NothingSeen
<1>4. NewUnreviewed'
  BY DEF UpdateAccepted, AGoto, aAnswers, aRanks, aHistory, AShape, AnswerTypes, SeenType,
         AtWork, Answer, AnswerOps, NewUnreviewed, Statuses
<1> QED
  BY <1>2, <1>3, <1>4 DEF AShape

LEMMA FindAcceptRowsShape ==
  ASSUME AShape, NEW w \in Workers, FindAcceptRows(w)
  PROVE  AShape'
<1>1. aseen' \in [Workers -> SeenType]
  BY SeenChanges DEF FindAcceptRows, AGoto, See, RowsAbout, aQuestion, aAnswers, aRanks,
         aHistory, AShape, AnswerTypes, AtWork, Statuses
<1>2. AnswerTypes'
  BY <1>1 DEF FindAcceptRows, AGoto, See, RowsAbout, aQuestion, aAnswers, aRanks, aHistory,
         AShape, AnswerTypes, AtWork, Answer, Ops, APCs, Statuses, AnswerOps, AcceptPCs
<1>3. \A v \in Workers : AtWork(v)'
  BY DEF FindAcceptRows, AGoto, See, RowsAbout, aQuestion, aAnswers, aRanks, aHistory, AShape,
         AnswerTypes, SeenType, AtWork, NewUnreviewed, Answer, AcceptPCs, AnswerOps,
         NothingSeen
<1>4. NewUnreviewed'
  BY DEF FindAcceptRows, AGoto, See, RowsAbout, aQuestion, aAnswers, aRanks, aHistory, AShape,
         AnswerTypes, SeenType, AtWork, Answer, AnswerOps, NewUnreviewed, Statuses
<1> QED
  BY <1>2, <1>3, <1>4 DEF AShape

LEMMA FindAcceptedRowsShape ==
  ASSUME AShape, NEW w \in Workers, FindAcceptedRows(w)
  PROVE  AShape'
<1>1. aseen' \in [Workers -> SeenType]
  BY SeenChanges DEF FindAcceptedRows, AGoto, See, RowsAbout, aQuestion, aAnswers, aRanks,
         aHistory, AShape, AnswerTypes, AtWork, Statuses
<1>2. AnswerTypes'
  BY <1>1 DEF FindAcceptedRows, AGoto, See, RowsAbout, aQuestion, aAnswers, aRanks, aHistory,
         AShape, AnswerTypes, AtWork, Answer, Ops, APCs, Statuses, AnswerOps, AcceptPCs
<1>3. \A v \in Workers : AtWork(v)'
  BY DEF FindAcceptedRows, AGoto, See, RowsAbout, aQuestion, aAnswers, aRanks, aHistory,
         AShape, AnswerTypes, SeenType, AtWork, NewUnreviewed, Answer, AcceptPCs, AnswerOps,
         NothingSeen
<1>4. NewUnreviewed'
  BY DEF FindAcceptedRows, AGoto, See, RowsAbout, aQuestion, aAnswers, aRanks, aHistory,
         AShape, AnswerTypes, SeenType, AtWork, Answer, AnswerOps, NewUnreviewed, Statuses
<1> QED
  BY <1>2, <1>3, <1>4 DEF AShape

LEMMA CancelActivitiesShape ==
  ASSUME AShape, NEW w \in Workers, CancelActivities(w)
  PROVE  AShape'
<1>1. aseen' \in [Workers -> SeenType]
  BY SeenChanges DEF CancelActivities, AGoto, aQuestion, aAnswers, AShape, AnswerTypes,
         AtWork, Statuses
<1>2. AnswerTypes'
  BY <1>1 DEF CancelActivities, AGoto, aQuestion, aAnswers, AShape, AnswerTypes, AtWork,
         Answer, Ops, APCs, Statuses, AnswerOps, AcceptPCs
<1>3. \A v \in Workers : AtWork(v)'
  BY DEF CancelActivities, AGoto, aQuestion, aAnswers, AShape, AnswerTypes, SeenType, AtWork,
         NewUnreviewed, Answer, AcceptPCs, AnswerOps, NothingSeen
<1>4. NewUnreviewed'
  BY DEF CancelActivities, AGoto, aQuestion, aAnswers, AShape, AnswerTypes, SeenType, AtWork,
         Answer, AnswerOps, NewUnreviewed, Statuses
<1> QED
  BY <1>2, <1>3, <1>4 DEF AShape

LEMMA SaveActivitiesShape ==
  ASSUME AShape, NEW w \in Workers, SaveActivities(w)
  PROVE  AShape'
<1>1. aseen' \in [Workers -> SeenType]
  BY SeenChanges DEF SaveActivities, AReturn, AGoto, RowsOf, NoWork, aQuestion, aAnswers,
         aHistory, AShape, AnswerTypes, AtWork, Statuses
<1>2. AnswerTypes'
  BY <1>1 DEF SaveActivities, AReturn, AGoto, RowsOf, NoWork, aQuestion, aAnswers, aHistory,
         AShape, AnswerTypes, AtWork, Answer, Ops, APCs, Statuses, AnswerOps, AcceptPCs
<1>3. \A v \in Workers : AtWork(v)'
  BY DEF SaveActivities, AReturn, AGoto, RowsOf, NoWork, aQuestion, aAnswers, aHistory,
         AShape, AnswerTypes, SeenType, AtWork, NewUnreviewed, Answer, AcceptPCs, AnswerOps,
         NothingSeen
<1>4. NewUnreviewed'
  BY DEF SaveActivities, AReturn, AGoto, RowsOf, NoWork, aQuestion, aAnswers, aHistory,
         AShape, AnswerTypes, SeenType, AtWork, Answer, AnswerOps, NewUnreviewed, Statuses
<1> QED
  BY <1>2, <1>3, <1>4 DEF AShape

LEMMA LogAndGoOnShape ==
  ASSUME AShape, NEW w \in Workers, LogAndGoOn(w)
  PROVE  AShape'
<1>1. aseen' \in [Workers -> SeenType]
  BY SeenChanges DEF LogAndGoOn, GoesOn, aQuestion, aAnswers, aRanks, AShape, AnswerTypes,
         AtWork, Statuses
<1>2. AnswerTypes'
  BY <1>1 DEF LogAndGoOn, GoesOn, aQuestion, aAnswers, aRanks, AShape, AnswerTypes, AtWork,
         Answer, Ops, APCs, Statuses, AnswerOps, AcceptPCs
<1>3. \A v \in Workers : AtWork(v)'
  BY DEF LogAndGoOn, GoesOn, aQuestion, aAnswers, aRanks, AShape, AnswerTypes, SeenType,
         AtWork, NewUnreviewed, Answer, AcceptPCs, AnswerOps, NothingSeen
<1>4. NewUnreviewed'
  BY DEF LogAndGoOn, GoesOn, aQuestion, aAnswers, aRanks, AShape, AnswerTypes, SeenType,
         AtWork, Answer, AnswerOps, NewUnreviewed, Statuses
<1> QED
  BY <1>2, <1>3, <1>4 DEF AShape

LEMMA BreakOffShape ==
  ASSUME AShape, NEW w \in Workers, BreakOff(w)
  PROVE  AShape'
<1>1. aseen' \in [Workers -> SeenType]
  BY SeenChanges DEF BreakOff, NoWork, aQuestion, aAnswers, aRanks, AShape, AnswerTypes,
         AtWork, Statuses
<1>2. AnswerTypes'
  BY <1>1 DEF BreakOff, NoWork, aQuestion, aAnswers, aRanks, AShape, AnswerTypes, AtWork,
         Answer, Ops, APCs, Statuses, AnswerOps, AcceptPCs
<1>3. \A v \in Workers : AtWork(v)'
  BY DEF BreakOff, NoWork, aQuestion, aAnswers, aRanks, AShape, AnswerTypes, SeenType, AtWork,
         NewUnreviewed, Answer, AcceptPCs, AnswerOps, NothingSeen
<1>4. NewUnreviewed'
  BY DEF BreakOff, NoWork, aQuestion, aAnswers, aRanks, AShape, AnswerTypes, SeenType, AtWork,
         Answer, AnswerOps, NewUnreviewed, Statuses
<1> QED
  BY <1>2, <1>3, <1>4 DEF AShape

-----------------------------------------------------------------------------
(* The count of a request is that of the available answers until it is late, and
   so is the column, unless a request is on its way to write it. *)
CountInv ==
  /\ ~stale => \/ \E w \in Workers : apc[w] \in {"count", "write"}
               \/ answerCount = Cardinality(AvailableAnswers)
  /\ \A w \in Workers : apc[w] = "write" /\ ~aseen[w].late =>
       aseen[w].count = Cardinality(AvailableAnswers)

LEMMA CountFrame ==
  ASSUME CountInv, AvailableAnswers' = AvailableAnswers, UNCHANGED <<answerCount, stale>>,
         \A v \in Workers :
           /\ apc[v] \in {"count", "write"} <=> apc'[v] \in {"count", "write"}
           /\ apc'[v] = "write" => /\ apc[v] = "write"
                                   /\ aseen'[v].late = aseen[v].late
                                   /\ aseen'[v].count = aseen[v].count
  PROVE  CountInv'
BY DEF CountInv


LEMMA InsertAnswerCount ==
  ASSUME AShape, CountInv, NEW w \in Workers, NEW a \in AnswerIds, InsertAnswer(w, a)
  PROVE  CountInv'
<1>1. AvailableAnswers' = AvailableAnswers /\ UNCHANGED <<answerCount, stale>>
  BY DEF InsertAnswer, Arrives, AGoto, aQuestion, aRanks, aHistory, AvailableAnswers, AShape,
         AnswerTypes
<1> QED
  BY <1>1, CountFrame DEF InsertAnswer, Arrives, AGoto, aQuestion, aRanks, aHistory, AShape,
         AnswerTypes, SeenType

LEMMA AddAnswerReviewCount ==
  ASSUME AShape, CountInv, NEW w \in Workers, AddAnswerReview(w)
  PROVE  CountInv'
<1>1. AvailableAnswers' = AvailableAnswers /\ UNCHANGED <<answerCount, stale>>
  BY DEF AddAnswerReview, AGoto, aQuestion, aRanks, aHistory, AvailableAnswers, AShape,
         AnswerTypes
<1> QED
  BY <1>1, CountFrame DEF AddAnswerReview, AGoto, aQuestion, aRanks, aHistory, AShape,
         AnswerTypes, SeenType

LEMMA AddReviewFailsCount ==
  ASSUME AShape, CountInv, NEW w \in Workers, AddReviewFails(w)
  PROVE  CountInv'
<1>1. AvailableAnswers' = AvailableAnswers /\ UNCHANGED <<answerCount, stale>>
  BY DEF AddReviewFails, AGoto, aQuestion, aAnswers, aRanks, AvailableAnswers, AShape,
         AnswerTypes
<1> QED
  BY <1>1, CountFrame DEF AddReviewFails, AGoto, aQuestion, aAnswers, aRanks, AShape,
         AnswerTypes, SeenType

LEMMA RemoveAnswerCount ==
  ASSUME AShape, CountInv, NEW w \in Workers, NEW a \in AnswerIds, NEW m \in BOOLEAN, RemoveAnswer(w, a, m)
  PROVE  CountInv'
<1>1. AvailableAnswers' = AvailableAnswers /\ UNCHANGED <<answerCount, stale>>
  BY DEF RemoveAnswer, Arrives, AGoto, aQuestion, aAnswers, aRanks, aHistory,
         AvailableAnswers, AShape, AnswerTypes
<1> QED
  BY <1>1, CountFrame DEF RemoveAnswer, Arrives, AGoto, aQuestion, aAnswers, aRanks, aHistory,
         AShape, AnswerTypes, SeenType

LEMMA RecoverAnswerCount ==
  ASSUME AShape, CountInv, NEW w \in Workers, NEW a \in AnswerIds, RecoverAnswer(w, a)
  PROVE  CountInv'
<1>1. AvailableAnswers' = AvailableAnswers /\ UNCHANGED <<answerCount, stale>>
  BY DEF RecoverAnswer, Arrives, AGoto, aQuestion, aAnswers, aRanks, aHistory,
         AvailableAnswers, AShape, AnswerTypes
<1> QED
  BY <1>1, CountFrame DEF RecoverAnswer, Arrives, AGoto, aQuestion, aAnswers, aRanks,
         aHistory, AShape, AnswerTypes, SeenType

LEMMA UpdateReviewCount ==
  ASSUME AShape, CountInv, NEW w \in Workers, NEW a \in AnswerIds, NEW d \in {"available", "deleted"}, UpdateReview(w, a, d)
  PROVE  CountInv'
<1>1. AvailableAnswers' = AvailableAnswers /\ UNCHANGED <<answerCount, stale>>
  BY DEF UpdateReview, Arrives, AGoto, aQuestion, aAnswers, aRanks, aHistory,
         AvailableAnswers, AShape, AnswerTypes
<1> QED
  BY <1>1, CountFrame DEF UpdateReview, Arrives, AGoto, aQuestion, aAnswers, aRanks, aHistory,
         AShape, AnswerTypes, SeenType

LEMMA WriteStatusCount ==
  ASSUME AShape, CountInv, NEW w \in Workers, WriteStatus(w)
  PROVE  CountInv'
<1>1. apc' = [apc EXCEPT ![w] = "count"] /\ stale' = stale /\ aseen' = MakeLate(aseen)
  BY DEF WriteStatus, AGoto
<1>2. \A v \in Workers : apc'[v] = "write" => apc[v] = "write"
  BY <1>1 DEF AShape, AnswerTypes
<1>3. \A v \in Workers : apc[v] = "write" => aseen'[v].late
  BY <1>1 DEF MakeLate, AShape, AnswerTypes, SeenType
<1>4. apc'[w] = "count"
  BY <1>1 DEF AShape, AnswerTypes
<1> QED
  BY <1>2, <1>3, <1>4 DEF CountInv

LEMMA CountAnswersCount ==
  ASSUME AShape, CountInv, NEW w \in Workers, CountAnswers(w)
  PROVE  CountInv'
<1>1. AvailableAnswers' = AvailableAnswers /\ UNCHANGED <<answerCount, stale>>
  BY DEF CountAnswers, aQuestion, aAnswers, aHistory, AvailableAnswers
<1>2. apc[w] = "count" /\ apc'[w] = "write" /\ aseen'[w].count = Cardinality(AvailableAnswers)
  BY DEF CountAnswers, AGoto, Counted, AShape, AnswerTypes, SeenType
<1>3. \A v \in Workers \ {w} : apc'[v] = apc[v] /\ aseen'[v] = aseen[v]
  BY DEF CountAnswers, AGoto, AShape, AnswerTypes
<1> QED
  BY <1>1, <1>2, <1>3 DEF CountInv

LEMMA UpdateAnswerCountCount ==
  ASSUME AShape, CountInv, NEW w \in Workers, UpdateAnswerCount(w)
  PROVE  CountInv'
<1>1. AvailableAnswers' = AvailableAnswers /\ answerCount' = aseen[w].count /\ stale' = aseen[w].late
  BY DEF UpdateAnswerCount, WriteCount, aAnswers, AvailableAnswers
<1>2. apc[w] = "write" /\ \A v \in Workers : apc'[v] = "write" => v # w /\ apc[v] = "write"
  BY DEF UpdateAnswerCount, AGoto, AShape, AnswerTypes
<1>3. \A v \in Workers \ {w} : apc[v] = "write" => aseen'[v].late
  BY DEF UpdateAnswerCount, MakeLate, AShape, AnswerTypes, SeenType
<1> QED
  BY <1>1, <1>2, <1>3 DEF CountInv

LEMMA UpdateAnswerCountOfReviewCount ==
  ASSUME AShape, CountInv, NEW w \in Workers, UpdateAnswerCountOfReview(w)
  PROVE  CountInv'
<1>1. AvailableAnswers' = AvailableAnswers /\ answerCount' = aseen[w].count /\ stale' = aseen[w].late
  BY DEF UpdateAnswerCountOfReview, WriteCount, aAnswers, AvailableAnswers
<1>2. apc[w] = "write" /\ \A v \in Workers : apc'[v] = "write" => v # w /\ apc[v] = "write"
  BY DEF UpdateAnswerCountOfReview, AGoto, AShape, AnswerTypes
<1>3. \A v \in Workers \ {w} : apc[v] = "write" => aseen'[v].late
  BY DEF UpdateAnswerCountOfReview, MakeLate, AShape, AnswerTypes, SeenType
<1> QED
  BY <1>1, <1>2, <1>3 DEF CountInv

LEMMA UpdateReviewStatusCount ==
  ASSUME AShape, CountInv, NEW w \in Workers, UpdateReviewStatus(w)
  PROVE  CountInv'
<1>1. AvailableAnswers' = AvailableAnswers /\ UNCHANGED <<answerCount, stale>>
  BY DEF UpdateReviewStatus, AReturn, AGoto, Outcome, NoWork, aQuestion, aRanks, aHistory,
         AvailableAnswers, AShape, AnswerTypes
<1> QED
  BY <1>1, CountFrame DEF UpdateReviewStatus, AReturn, AGoto, Outcome, NoWork, aQuestion,
         aRanks, aHistory, AShape, AnswerTypes, SeenType

LEMMA RemoveAllUserAnswerCount ==
  ASSUME AShape, CountInv, NEW u \in Writers, RemoveAllUserAnswer(u)
  PROVE  CountInv'
<1>1. apc' = apc /\ stale' = TRUE /\ aseen' = MakeLate(aseen)
  BY DEF RemoveAllUserAnswer
<1>2. \A v \in Workers : apc[v] = "write" => aseen'[v].late
  BY <1>1 DEF MakeLate, AShape, AnswerTypes, SeenType
<1> QED
  BY <1>1, <1>2 DEF CountInv

LEMMA AcceptAnswerCount ==
  ASSUME AShape, CountInv, NEW w \in Workers, NEW t \in Acceptors, NEW a \in AnswerIds \cup {NoAnswer}, AcceptAnswer(w, t, a)
  PROVE  CountInv'
<1>1. AvailableAnswers' = AvailableAnswers /\ UNCHANGED <<answerCount, stale>>
  BY DEF AcceptAnswer, Arrives, AGoto, Accepting, aQuestion, aAnswers, aRanks,
         AvailableAnswers, AShape, AnswerTypes
<1> QED
  BY <1>1, CountFrame DEF AcceptAnswer, Arrives, AGoto, Accepting, aQuestion, aAnswers,
         aRanks, AShape, AnswerTypes, SeenType

LEMMA ClearAdoptedCount ==
  ASSUME AShape, CountInv, NEW w \in Workers, ClearAdopted(w)
  PROVE  CountInv'
<1>1. AvailableAnswers' = AvailableAnswers /\ UNCHANGED <<answerCount, stale>>
  BY DEF ClearAdopted, AGoto, aQuestion, aRanks, aHistory, AvailableAnswers, AShape,
         AnswerTypes
<1> QED
  BY <1>1, CountFrame DEF ClearAdopted, AGoto, aQuestion, aRanks, aHistory, AShape,
         AnswerTypes, SeenType

LEMMA AdoptCount ==
  ASSUME AShape, CountInv, NEW w \in Workers, Adopt(w)
  PROVE  CountInv'
<1>1. AvailableAnswers' = AvailableAnswers /\ UNCHANGED <<answerCount, stale>>
  BY DEF Adopt, AGoto, aQuestion, aRanks, aHistory, AvailableAnswers, AShape, AnswerTypes
<1> QED
  BY <1>1, CountFrame DEF Adopt, AGoto, aQuestion, aRanks, aHistory, AShape, AnswerTypes,
         SeenType

LEMMA UpdateAcceptedCount ==
  ASSUME AShape, CountInv, NEW w \in Workers, UpdateAccepted(w)
  PROVE  CountInv'
<1>1. AvailableAnswers' = AvailableAnswers /\ UNCHANGED <<answerCount, stale>>
  BY DEF UpdateAccepted, AGoto, aAnswers, aRanks, aHistory, AvailableAnswers, AShape,
         AnswerTypes
<1> QED
  BY <1>1, CountFrame DEF UpdateAccepted, AGoto, aAnswers, aRanks, aHistory, AShape,
         AnswerTypes, SeenType

LEMMA FindAcceptRowsCount ==
  ASSUME AShape, CountInv, NEW w \in Workers, FindAcceptRows(w)
  PROVE  CountInv'
<1>1. AvailableAnswers' = AvailableAnswers /\ UNCHANGED <<answerCount, stale>>
  BY DEF FindAcceptRows, AGoto, See, RowsAbout, aQuestion, aAnswers, aRanks, aHistory,
         AvailableAnswers, AShape, AnswerTypes
<1> QED
  BY <1>1, CountFrame DEF FindAcceptRows, AGoto, See, RowsAbout, aQuestion, aAnswers, aRanks,
         aHistory, AShape, AnswerTypes, SeenType

LEMMA FindAcceptedRowsCount ==
  ASSUME AShape, CountInv, NEW w \in Workers, FindAcceptedRows(w)
  PROVE  CountInv'
<1>1. AvailableAnswers' = AvailableAnswers /\ UNCHANGED <<answerCount, stale>>
  BY DEF FindAcceptedRows, AGoto, See, RowsAbout, aQuestion, aAnswers, aRanks, aHistory,
         AvailableAnswers, AShape, AnswerTypes
<1> QED
  BY <1>1, CountFrame DEF FindAcceptedRows, AGoto, See, RowsAbout, aQuestion, aAnswers,
         aRanks, aHistory, AShape, AnswerTypes, SeenType

LEMMA CancelActivitiesCount ==
  ASSUME AShape, CountInv, NEW w \in Workers, CancelActivities(w)
  PROVE  CountInv'
<1>1. AvailableAnswers' = AvailableAnswers /\ UNCHANGED <<answerCount, stale>>
  BY DEF CancelActivities, AGoto, aQuestion, aAnswers, AvailableAnswers, AShape, AnswerTypes
<1> QED
  BY <1>1, CountFrame DEF CancelActivities, AGoto, aQuestion, aAnswers, AShape, AnswerTypes,
         SeenType

LEMMA SaveActivitiesCount ==
  ASSUME AShape, CountInv, NEW w \in Workers, SaveActivities(w)
  PROVE  CountInv'
<1>1. AvailableAnswers' = AvailableAnswers /\ UNCHANGED <<answerCount, stale>>
  BY DEF SaveActivities, AReturn, AGoto, RowsOf, NoWork, aQuestion, aAnswers, aHistory,
         AvailableAnswers, AShape, AnswerTypes
<1> QED
  BY <1>1, CountFrame DEF SaveActivities, AReturn, AGoto, RowsOf, NoWork, aQuestion, aAnswers,
         aHistory, AShape, AnswerTypes, SeenType

LEMMA LogAndGoOnCount ==
  ASSUME AShape, CountInv, NEW w \in Workers, LogAndGoOn(w)
  PROVE  CountInv'
<1>1. AvailableAnswers' = AvailableAnswers /\ UNCHANGED <<answerCount, stale>>
  BY DEF LogAndGoOn, GoesOn, aQuestion, aAnswers, aRanks, AvailableAnswers, AShape,
         AnswerTypes
<1> QED
  BY <1>1, CountFrame DEF LogAndGoOn, GoesOn, aQuestion, aAnswers, aRanks, AShape,
         AnswerTypes, SeenType

LEMMA BreakOffCount ==
  ASSUME AShape, CountInv, NEW w \in Workers, BreakOff(w)
  PROVE  CountInv'
<1>1. AvailableAnswers' = AvailableAnswers /\ answerCount' = answerCount
  BY DEF BreakOff, aQuestion, aAnswers, AvailableAnswers
<1>2. apc'[w] = "idle" /\ (~stale' => ~stale /\ apc[w] \notin {"count", "write"})
  BY DEF BreakOff, AShape, AnswerTypes
<1>3. \A v \in Workers \ {w} : apc'[v] = apc[v] /\ aseen'[v] = aseen[v]
  BY DEF BreakOff, AShape, AnswerTypes
<1> QED
  BY <1>1, <1>2, <1>3 DEF CountInv


-----------------------------------------------------------------------------
(* A reviewer has decided on the answer and written its status. *)
Settling(a) ==
  \E w \in Workers : areq[w].op = "review" /\ Answer(w) = a /\ apc[w] # "status"

(* An answer is inserted by one request; reviewers come after its review. *)
InsertOK ==
  \A w \in Workers :
    /\ areq[w].op = "insert" => \A v \in Workers :
         areq[v].op = "insert" /\ Answer(v) = Answer(w) => v = w
    /\ apc[w] = "ask" => review[Answer(w)] = "none"
    /\ areq[w].op = "review" => review[Answer(w)] # "none"

Waiting(a) == review[a] = "pending" /\ ~Settling(a)

(* Whoever is about to put an answer on hold has it reviewed, *)
HoldOK ==
  \A w \in Workers :
    areq[w].op = "insert" /\ apc[w] = "status" /\ aseen[w].status = "pending" =>
      Answer(w) \in unreviewed \/ Waiting(Answer(w))

(* and what is on hold has a review, or its request is still deciding. *)
OnHoldOK ==
  \A a \in AnswerIds \ unreviewed : status[a] = "pending" =>
    \/ Waiting(a)
    \/ /\ review[a] = "none"
       /\ \E w \in Workers : areq[w].op = "insert" /\ Answer(w) = a /\ apc[w] \in {"ask", "status"}

ReviewInv == InsertOK /\ HoldOK /\ OnHoldOK

LEMMA ReviewFrame ==
  ASSUME AShape, ReviewInv, UNCHANGED <<status, review, unreviewed>>,
         \A v \in Workers :
           /\ areq'[v].op \in {"insert", "review"} =>
                /\ areq'[v] = areq[v]
                /\ apc'[v] = "ask" <=> apc[v] = "ask"
                /\ apc'[v] = "status" <=> apc[v] = "status"
                /\ apc'[v] = "status" => aseen'[v].status = aseen[v].status
           /\ areq[v].op = "insert" /\ apc[v] \in {"ask", "status"} => areq'[v] = areq[v]
           /\ apc'[v] = "ask" => areq'[v].op = "insert"
  PROVE  ReviewInv'
<1>1. InsertOK'
  BY DEF ReviewInv, InsertOK, Answer
<1>2. \A a : Waiting(a) => Waiting(a)'
  BY DEF Waiting, Settling, Answer
<1>3. HoldOK'
  BY <1>2 DEF ReviewInv, HoldOK, Answer
<1>4. OnHoldOK'
  <2> SUFFICES ASSUME NEW a \in AnswerIds \ unreviewed, status[a] = "pending", ~Waiting(a)
               PROVE  /\ review[a] = "none"
                      /\ \E w \in Workers : /\ areq'[w].op = "insert" /\ areq'[w].answer = a
                                            /\ apc'[w] \in {"ask", "status"}
    BY <1>2 DEF OnHoldOK, Answer
  <2>1. review[a] = "none"
    BY DEF ReviewInv, OnHoldOK
  <2>2. PICK w \in Workers : areq[w].op = "insert" /\ Answer(w) = a /\ apc[w] \in {"ask", "status"}
    BY DEF ReviewInv, OnHoldOK
  <2> QED
    BY <2>1, <2>2 DEF Answer
<1> QED
  BY <1>1, <1>3, <1>4 DEF ReviewInv


LEMMA InsertAnswerReview ==
  ASSUME AShape, ReviewInv, NEW w \in Workers, NEW a \in AnswerIds, InsertAnswer(w, a)
  PROVE  ReviewInv'
<1>1. /\ status[a] = "none" /\ status' = [status EXCEPT ![a] = "pending"]
      /\ apc' = [apc EXCEPT ![w] = "ask"] /\ apc[w] = "idle"
      /\ areq' = [areq EXCEPT ![w] = [op |-> "insert", answer |-> a, by |-> Asker]]
      /\ UNCHANGED <<review, aseen, unreviewed>>
  BY DEF InsertAnswer, Arrives, AGoto, aHistory
<1>2. /\ review[a] = "none"
      /\ \A v \in Workers \ {w} : areq[v].op \in AnswerOps => Answer(v) # a
      /\ \A v \in Workers \ {w} : areq'[v] = areq[v] /\ apc'[v] = apc[v]
      /\ areq'[w].op = "insert" /\ areq'[w].answer = a /\ apc'[w] = "ask"
  BY <1>1 DEF AShape, AnswerTypes, AtWork, NewUnreviewed
<1>3. \A b : Waiting(b) => Waiting(b)'
  BY <1>1, <1>2 DEF Waiting, Settling, Answer
<1>4. InsertOK'
  BY <1>1, <1>2 DEF ReviewInv, InsertOK, Answer, AShape, AtWork, AnswerOps
<1>5. HoldOK'
  BY <1>1, <1>2, <1>3 DEF ReviewInv, HoldOK, Answer
<1>6. OnHoldOK'
  <2> SUFFICES ASSUME NEW b \in AnswerIds \ unreviewed, status'[b] = "pending", ~Waiting(b)'
               PROVE  /\ review[b] = "none"
                      /\ \E v \in Workers : /\ areq'[v].op = "insert" /\ areq'[v].answer = b
                                            /\ apc'[v] \in {"ask", "status"}
    BY <1>1 DEF OnHoldOK, Answer
  <2>1. CASE b = a
    BY <1>2, <2>1
  <2>2. CASE b # a
    <3>1. status[b] = "pending" /\ ~Waiting(b)
      BY <1>1, <1>3, <2>2 DEF AShape, AnswerTypes
    <3>2. PICK v \in Workers : areq[v].op = "insert" /\ Answer(v) = b /\ apc[v] \in {"ask", "status"}
      BY <3>1 DEF ReviewInv, OnHoldOK
    <3>3. v # w
      BY <1>1, <3>2
    <3> QED
      BY <1>2, <3>1, <3>2, <3>3 DEF ReviewInv, OnHoldOK, Answer
  <2> QED
    BY <2>1, <2>2
<1> QED
  BY <1>4, <1>5, <1>6 DEF ReviewInv

LEMMA AddAnswerReviewReview ==
  ASSUME AShape, ReviewInv, NEW w \in Workers, AddAnswerReview(w)
  PROVE  ReviewInv'
<1>1. PICK a \in AnswerIds, d \in Statuses :
        /\ a = Answer(w)
        /\ aseen' = [aseen EXCEPT ![w].status = d]
        /\ review' = IF d = "pending" THEN [review EXCEPT ![a] = "pending"] ELSE review
  BY DEF AddAnswerReview, AGoto, AShape, AtWork, AnswerOps
<1>2. /\ apc[w] = "ask" /\ apc' = [apc EXCEPT ![w] = "status"]
      /\ UNCHANGED <<status, areq, unreviewed>>
  BY DEF AddAnswerReview, AGoto, aHistory
<1>3. /\ areq[w].op = "insert" /\ review[a] = "none" /\ aseen'[w].status = d
      /\ apc'[w] = "status" /\ \A v \in Workers \ {w} : apc'[v] = apc[v] /\ aseen'[v] = aseen[v]
  BY <1>1, <1>2 DEF AShape, AnswerTypes, SeenType, AtWork, ReviewInv, InsertOK
<1>4. ~Settling(a)' /\ \A v \in Workers : areq[v].op = "review" => Answer(v) # a
  BY <1>2, <1>3 DEF ReviewInv, InsertOK, Settling, Answer
<1>5. \A b \in AnswerIds \ {a} : review'[b] = review[b] /\ (Waiting(b) => Waiting(b)')
  BY <1>1, <1>2, <1>3 DEF AShape, AnswerTypes, Waiting, Settling, Answer
<1>6. review'[a] = IF d = "pending" THEN "pending" ELSE "none"
  BY <1>1, <1>3 DEF AShape, AnswerTypes
<1>7. \A v \in Workers : areq[v].op \in AnswerOps => Answer(v) \in AnswerIds
  BY DEF AShape, AtWork
<1>8. InsertOK'
  <2>1. \A v \in Workers : areq[v].op = "insert" /\ Answer(v) = a => v = w
    BY <1>1, <1>3 DEF ReviewInv, InsertOK
  <2>2. \A v \in Workers : apc'[v] = "ask" => apc[v] = "ask" /\ v # w /\ areq[v].op = "insert"
    BY <1>3 DEF AShape, AtWork
  <2> QED
    BY <1>2, <1>4, <1>5, <1>7, <2>1, <2>2 DEF ReviewInv, InsertOK, Answer, AnswerOps
<1>9. HoldOK'
  <2> SUFFICES ASSUME NEW v \in Workers, areq[v].op = "insert", apc'[v] = "status",
                      aseen'[v].status = "pending", Answer(v) \notin unreviewed
               PROVE  \A b \in AnswerIds : b = Answer(v) => Waiting(b)'
    BY <1>2, <1>7 DEF HoldOK, Answer, Waiting, Settling, AnswerOps
  <2>1. CASE v = w
    BY <1>1, <1>3, <1>4, <1>6, <2>1 DEF Waiting
  <2>2. CASE v # w
    <3>1. Answer(v) # a
      BY <1>1, <1>3, <2>2 DEF ReviewInv, InsertOK
    <3>2. Waiting(Answer(v))
      BY <1>3, <2>2 DEF ReviewInv, HoldOK
    <3> QED
      BY <1>5, <3>1, <3>2
  <2> QED
    BY <2>1, <2>2
<1>10. OnHoldOK'
  <2> SUFFICES ASSUME NEW b \in AnswerIds \ unreviewed, status[b] = "pending", ~Waiting(b)'
               PROVE  /\ review'[b] = "none"
                      /\ \E v \in Workers : /\ areq[v].op = "insert" /\ Answer(v) = b
                                            /\ apc'[v] \in {"ask", "status"}
    BY <1>2 DEF OnHoldOK, Answer
  <2>1. CASE b = a
    BY <1>1, <1>3, <1>4, <1>6, <2>1 DEF Waiting
  <2>2. CASE b # a
    BY <1>1, <1>3, <1>5, <2>2 DEF ReviewInv, OnHoldOK
  <2> QED
    BY <2>1, <2>2
<1> QED
  BY <1>8, <1>9, <1>10 DEF ReviewInv

LEMMA AddReviewFailsReview ==
  ASSUME AShape, ReviewInv, NEW w \in Workers, AddReviewFails(w)
  PROVE  ReviewInv'
<1>1. /\ apc[w] = "ask" /\ apc' = [apc EXCEPT ![w] = "status"]
      /\ unreviewed' = unreviewed \cup {Answer(w)}
      /\ aseen' = [aseen EXCEPT ![w].status = "pending"]
      /\ UNCHANGED <<status, review, areq>>
  BY DEF AddReviewFails, AGoto, aAnswers
<1>2. apc'[w] = "status" /\ \A v \in Workers \ {w} : apc'[v] = apc[v] /\ aseen'[v] = aseen[v]
  BY <1>1 DEF AShape, AnswerTypes
<1>3. \A b : Waiting(b) => Waiting(b)'
  BY <1>1, <1>2 DEF Waiting, Settling, Answer
<1>4. InsertOK'
  BY <1>1, <1>2 DEF ReviewInv, InsertOK, Answer
<1>5. HoldOK'
  BY <1>1, <1>2, <1>3 DEF ReviewInv, HoldOK, Answer
<1>6. OnHoldOK'
  BY <1>1, <1>2, <1>3 DEF ReviewInv, OnHoldOK, Answer
<1> QED
  BY <1>4, <1>5, <1>6 DEF ReviewInv

LEMMA RemoveAnswerReview ==
  ASSUME AShape, ReviewInv, NEW w \in Workers, NEW a \in AnswerIds, NEW m \in BOOLEAN, RemoveAnswer(w, a, m)
  PROVE  ReviewInv'
  BY ReviewFrame DEF RemoveAnswer, Arrives, AGoto, aQuestion, aAnswers, aRanks, aHistory,
         AShape, AnswerTypes, SeenType, AtWork

LEMMA RecoverAnswerReview ==
  ASSUME AShape, ReviewInv, NEW w \in Workers, NEW a \in AnswerIds, RecoverAnswer(w, a)
  PROVE  ReviewInv'
  BY ReviewFrame DEF RecoverAnswer, Arrives, AGoto, aQuestion, aAnswers, aRanks, aHistory,
         AShape, AnswerTypes, SeenType, AtWork

LEMMA UpdateReviewReview ==
  ASSUME AShape, ReviewInv, NEW w \in Workers, NEW a \in AnswerIds, NEW d \in {"available", "deleted"}, UpdateReview(w, a, d)
  PROVE  ReviewInv'
<1>1. /\ apc[w] = "idle" /\ areq[w].op = "none" /\ apc'[w] = "status" /\ review[a] = "pending"
      /\ areq'[w].op = "review" /\ areq'[w].answer = a
      /\ \A v \in Workers \ {w} : apc'[v] = apc[v] /\ areq'[v] = areq[v] /\ aseen'[v] = aseen[v]
      /\ UNCHANGED <<status, review, unreviewed>>
  BY DEF UpdateReview, Arrives, AGoto, aAnswers, aHistory, AShape, AnswerTypes, AtWork
<1>2. \A b : Waiting(b) => Waiting(b)'
  BY <1>1 DEF Waiting, Settling, Answer
<1>3. InsertOK'
  BY <1>1 DEF ReviewInv, InsertOK, Answer
<1>4. HoldOK'
  BY <1>1, <1>2 DEF ReviewInv, HoldOK, Answer
<1>5. OnHoldOK'
  <2> SUFFICES ASSUME NEW b \in AnswerIds \ unreviewed, status[b] = "pending", ~Waiting(b)
               PROVE  /\ review[b] = "none"
                      /\ \E v \in Workers : /\ areq'[v].op = "insert" /\ areq'[v].answer = b
                                            /\ apc'[v] \in {"ask", "status"}
    BY <1>1, <1>2 DEF OnHoldOK, Answer
  <2> QED
    BY <1>1 DEF ReviewInv, OnHoldOK, Answer
<1> QED
  BY <1>3, <1>4, <1>5 DEF ReviewInv

LEMMA WriteStatusReview ==
  ASSUME AShape, ReviewInv, NEW w \in Workers, WriteStatus(w)
  PROVE  ReviewInv'
<1>1. PICK a \in AnswerIds : a = Answer(w)
  BY DEF WriteStatus, AGoto, AShape, AtWork
<1>2. /\ apc[w] = "status" /\ apc' = [apc EXCEPT ![w] = "count"]
      /\ status' = [status EXCEPT ![a] = aseen[w].status]
      /\ UNCHANGED <<review, areq>>
  BY <1>1 DEF WriteStatus, AGoto
<1>3. /\ \A b \in AnswerIds \ {a} : status'[b] = status[b]
      /\ status'[a] = aseen[w].status /\ areq[w].op \in AnswerOps
      /\ areq[w].op # "insert" => aseen[w].status # "pending"
  BY <1>2 DEF AShape, AnswerTypes, AtWork, AnswerOps
<1>4. apc'[w] = "count" /\ \A v \in Workers \ {w} : apc'[v] = apc[v]
  BY <1>2 DEF AShape, AnswerTypes
<1>5. \A v \in Workers : aseen'[v].status = aseen[v].status
  BY DEF WriteStatus, MakeLate, AShape, AnswerTypes, SeenType
<1>6. /\ unreviewed \subseteq unreviewed' /\ unreviewed' \subseteq unreviewed \cup {a}
      /\ areq[w].op = "review" /\ Inserting(w, a) => a \in unreviewed'
  BY <1>1 DEF WriteStatus
<1>7. \A b \in AnswerIds : Waiting(b) /\ (b # a \/ areq[w].op # "review") => Waiting(b)'
  BY <1>1, <1>2, <1>4 DEF Waiting, Settling, Answer
<1>8. InsertOK'
  BY <1>2, <1>4 DEF ReviewInv, InsertOK, Answer
<1>9. HoldOK'
  <2> SUFFICES ASSUME NEW v \in Workers, areq[v].op = "insert", apc'[v] = "status",
                      aseen'[v].status = "pending", Answer(v) \notin unreviewed'
               PROVE  \A b \in AnswerIds : b = Answer(v) => Waiting(b)'
    <3>1. \A v \in Workers : areq[v].op = "insert" => Answer(v) \in AnswerIds
      BY DEF AShape, AtWork, AnswerOps
    <3> QED
      BY <1>2, <3>1 DEF HoldOK, Answer, Waiting, Settling
  <2>1. v # w /\ apc[v] = "status" /\ aseen[v].status = "pending" /\ Waiting(Answer(v))
    BY <1>4, <1>5, <1>6 DEF ReviewInv, HoldOK
  <2>2. Answer(v) = a => areq[w].op # "review"
    BY <1>6, <2>1 DEF Inserting
  <2> QED
    BY <1>7, <2>1, <2>2
<1>10. OnHoldOK'
  <2> SUFFICES ASSUME NEW b \in AnswerIds \ unreviewed', status'[b] = "pending", ~Waiting(b)'
               PROVE  /\ review[b] = "none"
                      /\ \E v \in Workers : /\ areq[v].op = "insert" /\ Answer(v) = b
                                            /\ apc'[v] \in {"ask", "status"}
    BY <1>2 DEF OnHoldOK, Answer
  <2>1. CASE b = a
    <3>1. areq[w].op = "insert" /\ aseen[w].status = "pending"
      BY <1>3, <2>1
    <3>2. Waiting(a)
      BY <1>1, <1>2, <1>6, <2>1, <3>1 DEF ReviewInv, HoldOK
    <3> QED
      BY <1>7, <2>1, <3>1, <3>2
  <2>2. CASE b # a
    BY <1>1, <1>3, <1>4, <1>6, <1>7, <2>2 DEF ReviewInv, OnHoldOK
  <2> QED
    BY <2>1, <2>2
<1> QED
  BY <1>8, <1>9, <1>10 DEF ReviewInv

LEMMA CountAnswersReview ==
  ASSUME AShape, ReviewInv, NEW w \in Workers, CountAnswers(w)
  PROVE  ReviewInv'
  BY ReviewFrame DEF CountAnswers, AGoto, Counted, AvailableAnswers, aQuestion, aAnswers,
         aRanks, aHistory, AShape, AnswerTypes, SeenType, AtWork

LEMMA UpdateAnswerCountReview ==
  ASSUME AShape, ReviewInv, NEW w \in Workers, UpdateAnswerCount(w)
  PROVE  ReviewInv'
  BY ReviewFrame DEF UpdateAnswerCount, AGoto, MakeLate, WriteCount, NoWork, aAnswers, aRanks,
         AShape, AnswerTypes, SeenType, AtWork

LEMMA UpdateAnswerCountOfReviewReview ==
  ASSUME AShape, ReviewInv, NEW w \in Workers, UpdateAnswerCountOfReview(w)
  PROVE  ReviewInv'
  BY ReviewFrame DEF UpdateAnswerCountOfReview, AGoto, MakeLate, WriteCount, aAnswers, aRanks,
         AShape, AnswerTypes, SeenType, AtWork

LEMMA UpdateReviewStatusReview ==
  ASSUME AShape, ReviewInv, NEW w \in Workers, UpdateReviewStatus(w)
  PROVE  ReviewInv'
<1>1. PICK a \in AnswerIds : a = Answer(w)
  BY DEF UpdateReviewStatus, AReturn, AGoto, AShape, AtWork, AnswerOps
<1>2. /\ apc[w] = "settle" /\ areq[w].op = "review" /\ review'[a] \in {"approved", "rejected"}
      /\ apc'[w] = "idle" /\ areq'[w].op = "none"
      /\ \A b \in AnswerIds \ {a} : review'[b] = review[b]
      /\ \A v \in Workers \ {w} : apc'[v] = apc[v] /\ areq'[v] = areq[v] /\ aseen'[v] = aseen[v]
      /\ UNCHANGED <<status, unreviewed>>
  BY <1>1 DEF UpdateReviewStatus, AReturn, AGoto, Outcome, NoWork, aHistory, AShape, AnswerTypes, AtWork
<1>3. ~Waiting(a) /\ review[a] # "none"
  BY <1>1, <1>2 DEF Waiting, Settling, ReviewInv, InsertOK
<1>4. \A b \in AnswerIds \ {a} : Waiting(b) => Waiting(b)'
  BY <1>2 DEF Waiting, Settling, Answer
<1>5. InsertOK'
  <2>1. \A v \in Workers : areq[v].op \in AnswerOps => Answer(v) \in AnswerIds
    BY DEF AShape, AtWork
  <2>2. \A v \in Workers : apc[v] = "ask" => areq[v].op = "insert"
    BY DEF AShape, AtWork
  <2> QED
    BY <1>2, <1>3, <2>1, <2>2 DEF ReviewInv, InsertOK, Answer, AnswerOps
<1>6. HoldOK'
  <2>1. \A v \in Workers : areq[v].op = "insert" => Answer(v) \in AnswerIds
    BY DEF AShape, AtWork, AnswerOps
  <2> SUFFICES ASSUME NEW v \in Workers, areq'[v].op = "insert", apc'[v] = "status",
                      aseen'[v].status = "pending", areq'[v].answer \notin unreviewed
               PROVE  \A b \in AnswerIds : b = areq[v].answer => Waiting(b)'
    BY <1>2, <2>1 DEF HoldOK, Answer, Waiting, Settling
  <2>2. Waiting(Answer(v)) /\ areq[v] = areq'[v]
    BY <1>2 DEF ReviewInv, HoldOK, Answer
  <2> QED
    BY <1>3, <1>4, <2>2 DEF Answer
<1>7. OnHoldOK'
  <2> SUFFICES ASSUME NEW b \in AnswerIds \ unreviewed, status[b] = "pending", ~Waiting(b)'
               PROVE  /\ review'[b] = "none"
                      /\ \E v \in Workers : /\ areq'[v].op = "insert" /\ areq'[v].answer = b
                                            /\ apc'[v] \in {"ask", "status"}
    BY <1>2 DEF OnHoldOK, Answer
  <2>1. b # a
    BY <1>3 DEF ReviewInv, OnHoldOK
  <2>2. review[b] = "none"
    BY <1>4, <2>1 DEF ReviewInv, OnHoldOK
  <2>3. PICK v \in Workers : areq[v].op = "insert" /\ Answer(v) = b /\ apc[v] \in {"ask", "status"}
    BY <1>4, <2>1 DEF ReviewInv, OnHoldOK
  <2>4. v # w
    BY <1>2, <2>3
  <2> QED
    BY <1>2, <2>1, <2>2, <2>3, <2>4 DEF Answer
<1> QED
  BY <1>5, <1>6, <1>7 DEF ReviewInv

LEMMA RemoveAllUserAnswerReview ==
  ASSUME AShape, ReviewInv, NEW u \in Writers, RemoveAllUserAnswer(u)
  PROVE  ReviewInv'
<1>1. /\ UNCHANGED <<review, apc, areq, unreviewed>>
      /\ \A b \in AnswerIds : status'[b] = "pending" => status[b] = "pending"
  BY DEF RemoveAllUserAnswer, AShape, AnswerTypes
<1>2. \A v \in Workers : aseen'[v].status = aseen[v].status
  BY DEF RemoveAllUserAnswer, MakeLate, AShape, AnswerTypes, SeenType
<1>3. \A b : Waiting(b)' <=> Waiting(b)
  BY <1>1 DEF Waiting, Settling, Answer
<1>4. InsertOK'
  BY <1>1 DEF ReviewInv, InsertOK, Answer
<1>5. HoldOK'
  BY <1>1, <1>2, <1>3 DEF ReviewInv, HoldOK, Answer
<1>6. OnHoldOK'
  BY <1>1, <1>3 DEF ReviewInv, OnHoldOK, Answer
<1> QED
  BY <1>4, <1>5, <1>6 DEF ReviewInv

LEMMA AcceptAnswerReview ==
  ASSUME AShape, ReviewInv, NEW w \in Workers, NEW t \in Acceptors, NEW a \in AnswerIds \cup {NoAnswer}, AcceptAnswer(w, t, a)
  PROVE  ReviewInv'
  BY ReviewFrame DEF AcceptAnswer, Arrives, AGoto, Accepting, aQuestion, aAnswers, aRanks,
         AShape, AnswerTypes, SeenType, AtWork

LEMMA ClearAdoptedReview ==
  ASSUME AShape, ReviewInv, NEW w \in Workers, ClearAdopted(w)
  PROVE  ReviewInv'
  BY ReviewFrame DEF ClearAdopted, AGoto, aQuestion, aRanks, aHistory, AShape, AnswerTypes,
         SeenType, AtWork

LEMMA AdoptReview ==
  ASSUME AShape, ReviewInv, NEW w \in Workers, Adopt(w)
  PROVE  ReviewInv'
  BY ReviewFrame DEF Adopt, AGoto, aQuestion, aRanks, aHistory, AShape, AnswerTypes, SeenType,
         AtWork

LEMMA UpdateAcceptedReview ==
  ASSUME AShape, ReviewInv, NEW w \in Workers, UpdateAccepted(w)
  PROVE  ReviewInv'
  BY ReviewFrame DEF UpdateAccepted, AGoto, aAnswers, aRanks, aHistory, AShape, AnswerTypes,
         SeenType, AtWork

LEMMA FindAcceptRowsReview ==
  ASSUME AShape, ReviewInv, NEW w \in Workers, FindAcceptRows(w)
  PROVE  ReviewInv'
  BY ReviewFrame DEF FindAcceptRows, AGoto, See, RowsAbout, aQuestion, aAnswers, aRanks,
         aHistory, AShape, AnswerTypes, SeenType, AtWork

LEMMA FindAcceptedRowsReview ==
  ASSUME AShape, ReviewInv, NEW w \in Workers, FindAcceptedRows(w)
  PROVE  ReviewInv'
  BY ReviewFrame DEF FindAcceptedRows, AGoto, See, RowsAbout, aQuestion, aAnswers, aRanks,
         aHistory, AShape, AnswerTypes, SeenType, AtWork

LEMMA CancelActivitiesReview ==
  ASSUME AShape, ReviewInv, NEW w \in Workers, CancelActivities(w)
  PROVE  ReviewInv'
  BY ReviewFrame DEF CancelActivities, AGoto, aQuestion, aAnswers, AShape, AnswerTypes,
         SeenType, AtWork

LEMMA SaveActivitiesReview ==
  ASSUME AShape, ReviewInv, NEW w \in Workers, SaveActivities(w)
  PROVE  ReviewInv'
  BY ReviewFrame DEF SaveActivities, AReturn, AGoto, RowsOf, NoWork, aQuestion, aAnswers,
         aHistory, AShape, AnswerTypes, SeenType, AtWork

LEMMA LogAndGoOnReview ==
  ASSUME AShape, ReviewInv, NEW w \in Workers, LogAndGoOn(w)
  PROVE  ReviewInv'
  BY ReviewFrame DEF LogAndGoOn, GoesOn, aQuestion, aAnswers, aRanks, AShape, AnswerTypes,
         SeenType, AtWork

LEMMA BreakOffReview ==
  ASSUME AShape, ReviewInv, NEW w \in Workers, BreakOff(w)
  PROVE  ReviewInv'
<1>1. /\ apc'[w] = "idle" /\ areq'[w].op = "none"
      /\ \A v \in Workers \ {w} : apc'[v] = apc[v] /\ areq'[v] = areq[v] /\ aseen'[v] = aseen[v]
      /\ UNCHANGED <<status, review>> /\ unreviewed \subseteq unreviewed'
      /\ areq[w].op = "insert" /\ review[Answer(w)] = "none" => Answer(w) \in unreviewed'
  BY DEF BreakOff, NoWork, aAnswers, AShape, AnswerTypes
<1>2. \A b : Waiting(b) => Waiting(b)'
  BY <1>1 DEF Waiting, Settling, Answer
<1>3. InsertOK'
  BY <1>1 DEF ReviewInv, InsertOK, Answer
<1>4. HoldOK'
  BY <1>1, <1>2 DEF ReviewInv, HoldOK, Answer
<1>5. OnHoldOK'
  <2> SUFFICES ASSUME NEW b \in AnswerIds \ unreviewed', status[b] = "pending", ~Waiting(b)
               PROVE  /\ review[b] = "none"
                      /\ \E v \in Workers : /\ areq'[v].op = "insert" /\ areq'[v].answer = b
                                            /\ apc'[v] \in {"ask", "status"}
    BY <1>1, <1>2 DEF OnHoldOK, Answer
  <2>1. PICK v \in Workers : areq[v].op = "insert" /\ Answer(v) = b /\ apc[v] \in {"ask", "status"}
    BY <1>1 DEF ReviewInv, OnHoldOK
  <2>2. review[b] = "none"
    BY <1>1 DEF ReviewInv, OnHoldOK
  <2>3. v # w
    BY <1>1, <2>1, <2>2
  <2> QED
    BY <1>1, <2>1, <2>2, <2>3 DEF Answer
<1> QED
  BY <1>3, <1>4, <1>5 DEF ReviewInv


-----------------------------------------------------------------------------
(* The live rows are those of answer a, or there are none. *)
Credited(a) ==
  /\ \A x \in ActRows : acts[x] = "live" => x.answer = a
  /\ a # NoAnswer => \A y \in {"accept", "accepted"} :
       \E t \in Acceptors : acts[[type |-> y, trigger |-> t, answer |-> a]] = "live"

(* How far the request has come that accepts an answer instead of the old one:
   the columns of the answers, that of the question, and the rows. *)
AcceptAt(w) ==
  /\ apc[w] = "clear" => adopted = {aseen[w].old} \ {NoAnswer}
  /\ apc[w] = "adopt" => adopted = {}
  /\ apc[w] \notin {"clear", "adopt"} => adopted = {Answer(w)} \ {NoAnswer}
  /\ acceptedId = IF apc[w] \in {"clear", "adopt", "question"} THEN aseen[w].old ELSE Answer(w)
  /\ apc[w] # "reward" => Credited(aseen[w].old)
  /\ apc[w] = "reward" => \A x \in ActRows : acts[x] # "live"
  /\ apc[w] \in {"clear", "adopt", "question", "find"} => aseen[w].rows = {}
  /\ apc[w] = "find_too" => aseen[w].rows = RowsAbout(aseen[w].old, "accept")
  /\ apc[w] = "cancel" =>
       aseen[w].rows = {x \in ActRows : x.answer = aseen[w].old /\ acts[x] # "none"}
  /\ apc[w] # "reward" => aseen[w].live = {x \in aseen[w].rows : acts[x] = "live"}

Agreed == adopted = {acceptedId} \ {NoAnswer} /\ Credited(acceptedId)

AcceptInv ==
  ~disturbed =>
    /\ \A v, w \in Workers : areq[v].op = "accept" /\ areq[w].op = "accept" => v = w
    /\ \A w \in Workers : areq[w].op = "accept" => AcceptAt(w)
    /\ (\A w \in Workers : areq[w].op # "accept") => Agreed

LEMMA AcceptFrame ==
  ASSUME AcceptInv, UNCHANGED <<adopted, acceptedId, acts, disturbed>>,
         \A v \in Workers :
           /\ areq[v].op = "accept" <=> areq'[v].op = "accept"
           /\ areq[v].op = "accept" =>
                /\ areq'[v] = areq[v] /\ apc'[v] = apc[v]
                /\ aseen'[v].old = aseen[v].old /\ aseen'[v].rows = aseen[v].rows
                /\ aseen'[v].live = aseen[v].live
  PROVE  AcceptInv'
<1>1. \A a : Credited(a)' <=> Credited(a)
  BY DEF Credited
<1>2. \A v \in Workers : areq[v].op = "accept" => RowsAbout(aseen[v].old, "accept")' = RowsAbout(aseen[v].old, "accept")
  BY DEF RowsAbout
<1>3. \A v \in Workers : areq[v].op = "accept" /\ AcceptAt(v) => AcceptAt(v)'
  BY <1>1, <1>2 DEF AcceptAt, Answer
<1>4. Agreed' <=> Agreed
  BY <1>1 DEF Agreed
<1> QED
  BY <1>3, <1>4 DEF AcceptInv

(* The one request that accepts takes a step. *)
LEMMA AcceptGoesOn ==
  ASSUME AcceptInv, disturbed' = disturbed, NEW w \in Workers, areq[w].op = "accept", areq' = areq,
         ~disturbed /\ AcceptAt(w) => AcceptAt(w)'
  PROVE  AcceptInv'
BY DEF AcceptInv


LEMMA InsertAnswerAccept ==
  ASSUME AShape, AcceptInv, NEW w \in Workers, NEW a \in AnswerIds, InsertAnswer(w, a)
  PROVE  AcceptInv'
  BY AcceptFrame DEF InsertAnswer, Arrives, AGoto, aQuestion, aRanks, aHistory, AShape,
         AnswerTypes, SeenType, AtWork, AcceptPCs, AnswerOps

LEMMA AddAnswerReviewAccept ==
  ASSUME AShape, AcceptInv, NEW w \in Workers, AddAnswerReview(w)
  PROVE  AcceptInv'
  BY AcceptFrame DEF AddAnswerReview, AGoto, aQuestion, aRanks, aHistory, AShape, AnswerTypes,
         SeenType, AtWork, AcceptPCs, AnswerOps

LEMMA AddReviewFailsAccept ==
  ASSUME AShape, AcceptInv, NEW w \in Workers, AddReviewFails(w)
  PROVE  AcceptInv'
  BY AcceptFrame DEF AddReviewFails, AGoto, aQuestion, aAnswers, aRanks, AShape, AnswerTypes,
         SeenType, AtWork, AcceptPCs, AnswerOps

LEMMA RemoveAnswerAccept ==
  ASSUME AShape, AcceptInv, NEW w \in Workers, NEW a \in AnswerIds, NEW m \in BOOLEAN, RemoveAnswer(w, a, m)
  PROVE  AcceptInv'
  BY AcceptFrame DEF RemoveAnswer, Arrives, AGoto, aQuestion, aAnswers, aRanks, aHistory,
         AShape, AnswerTypes, SeenType, AtWork, AcceptPCs, AnswerOps

LEMMA RecoverAnswerAccept ==
  ASSUME AShape, AcceptInv, NEW w \in Workers, NEW a \in AnswerIds, RecoverAnswer(w, a)
  PROVE  AcceptInv'
  BY AcceptFrame DEF RecoverAnswer, Arrives, AGoto, aQuestion, aAnswers, aRanks, aHistory,
         AShape, AnswerTypes, SeenType, AtWork, AcceptPCs, AnswerOps

LEMMA UpdateReviewAccept ==
  ASSUME AShape, AcceptInv, NEW w \in Workers, NEW a \in AnswerIds, NEW d \in {"available", "deleted"}, UpdateReview(w, a, d)
  PROVE  AcceptInv'
  BY AcceptFrame DEF UpdateReview, Arrives, AGoto, aQuestion, aAnswers, aRanks, aHistory,
         AShape, AnswerTypes, SeenType, AtWork, AcceptPCs, AnswerOps

LEMMA WriteStatusAccept ==
  ASSUME AShape, AcceptInv, NEW w \in Workers, WriteStatus(w)
  PROVE  AcceptInv'
  BY AcceptFrame DEF WriteStatus, AGoto, MakeLate, Inserting, aQuestion, aRanks, AShape,
         AnswerTypes, SeenType, AtWork, AcceptPCs, AnswerOps

LEMMA CountAnswersAccept ==
  ASSUME AShape, AcceptInv, NEW w \in Workers, CountAnswers(w)
  PROVE  AcceptInv'
  BY AcceptFrame DEF CountAnswers, AGoto, Counted, AvailableAnswers, aQuestion, aAnswers,
         aRanks, aHistory, AShape, AnswerTypes, SeenType, AtWork, AcceptPCs, AnswerOps

LEMMA UpdateAnswerCountAccept ==
  ASSUME AShape, AcceptInv, NEW w \in Workers, UpdateAnswerCount(w)
  PROVE  AcceptInv'
  BY AcceptFrame DEF UpdateAnswerCount, AGoto, MakeLate, WriteCount, NoWork, aAnswers, aRanks,
         AShape, AnswerTypes, SeenType, AtWork, AcceptPCs, AnswerOps

LEMMA UpdateAnswerCountOfReviewAccept ==
  ASSUME AShape, AcceptInv, NEW w \in Workers, UpdateAnswerCountOfReview(w)
  PROVE  AcceptInv'
  BY AcceptFrame DEF UpdateAnswerCountOfReview, AGoto, MakeLate, WriteCount, aAnswers, aRanks,
         AShape, AnswerTypes, SeenType, AtWork, AcceptPCs, AnswerOps

LEMMA UpdateReviewStatusAccept ==
  ASSUME AShape, AcceptInv, NEW w \in Workers, UpdateReviewStatus(w)
  PROVE  AcceptInv'
  BY AcceptFrame DEF UpdateReviewStatus, AReturn, AGoto, Outcome, NoWork, aQuestion, aRanks,
         aHistory, AShape, AnswerTypes, SeenType, AtWork, AcceptPCs, AnswerOps

LEMMA RemoveAllUserAnswerAccept ==
  ASSUME AShape, AcceptInv, NEW u \in Writers, RemoveAllUserAnswer(u)
  PROVE  AcceptInv'
  BY AcceptFrame DEF RemoveAllUserAnswer, MakeLate, aQuestion, aRanks, AShape, AnswerTypes,
         SeenType, AtWork, AcceptPCs, AnswerOps

LEMMA AcceptAnswerAccept ==
  ASSUME AShape, AcceptInv, NEW w \in Workers, NEW t \in Acceptors, NEW a \in AnswerIds \cup {NoAnswer}, AcceptAnswer(w, t, a)
  PROVE  AcceptInv'
<1> SUFFICES ASSUME ~disturbed' PROVE AcceptInv'
  BY DEF AcceptInv
<1>1. /\ ~disturbed /\ \A v \in Workers \ {w} : areq[v].op # "accept"
      /\ apc[w] = "idle" /\ UNCHANGED <<adopted, acceptedId, acts>>
  BY DEF AcceptAnswer, Accepting, Arrives, AGoto, aQuestion, aAnswers, aRanks, AShape, AnswerTypes
<1>2. areq[w].op = "none" /\ aseen[w].rows = {} /\ aseen[w].live = {}
  BY <1>1 DEF AShape, AtWork
<1>3. Agreed
  BY <1>1, <1>2 DEF AcceptInv
<1>4. /\ \A v \in Workers \ {w} : areq'[v].op # "accept"
      /\ apc'[w] = "clear" /\ aseen'[w].old = acceptedId
      /\ aseen'[w].rows = {} /\ aseen'[w].live = {}
  BY <1>1, <1>2 DEF AcceptAnswer, Arrives, AGoto, AShape, AnswerTypes, SeenType
<1>5. Credited(acceptedId)'
  BY <1>1, <1>3 DEF Agreed, Credited
<1>6. AcceptAt(w)'
  <2>1. Credited(aseen[w].old)'
    BY <1>1, <1>4, <1>5 DEF Credited
  <2> QED
    BY <1>1, <1>3, <1>4, <2>1 DEF AcceptAt, Agreed
<1>7. areq'[w].op = "accept"
  BY DEF AcceptAnswer, Arrives, AShape, AnswerTypes
<1> QED
  BY <1>4, <1>6, <1>7 DEF AcceptInv

LEMMA ClearAdoptedAccept ==
  ASSUME AShape, AcceptInv, NEW w \in Workers, ClearAdopted(w)
  PROVE  AcceptInv'
<1>1. areq[w].op = "accept" /\ areq' = areq /\ disturbed' = disturbed
  BY DEF ClearAdopted, AGoto, aHistory, AShape, AtWork, AcceptPCs
<1>2. ASSUME AcceptAt(w) PROVE AcceptAt(w)'
  <2>1. \A a : Credited(a)' <=> Credited(a)
    BY DEF ClearAdopted, aRanks, Credited
  <2>2. /\ apc[w] = "clear" /\ adopted' = {} /\ UNCHANGED <<acceptedId, acts, areq, aseen>>
        /\ apc'[w] = IF Answer(w) = NoAnswer THEN "question" ELSE "adopt"
    BY DEF ClearAdopted, AGoto, aQuestion, aRanks, AShape, AnswerTypes
  <2> QED
    BY <1>2, <2>1, <2>2 DEF AcceptAt, Answer
<1> QED
  BY <1>1, <1>2, AcceptGoesOn

LEMMA AdoptAccept ==
  ASSUME AShape, AcceptInv, NEW w \in Workers, Adopt(w)
  PROVE  AcceptInv'
<1>1. areq[w].op = "accept" /\ areq' = areq /\ disturbed' = disturbed
  BY DEF Adopt, AGoto, aHistory, AShape, AtWork, AcceptPCs
<1>2. ASSUME AcceptAt(w) PROVE AcceptAt(w)'
  <2>1. \A a : Credited(a)' <=> Credited(a)
    BY DEF Adopt, aRanks, Credited
  <2>2. /\ apc[w] = "adopt" /\ adopted' = adopted \cup {Answer(w)} /\ apc'[w] = "question"
        /\ UNCHANGED <<acceptedId, acts, areq, aseen>> /\ Answer(w) \in AnswerIds
    BY DEF Adopt, AGoto, aQuestion, aRanks, AShape, AnswerTypes, AtWork
  <2> QED
    BY <1>2, <2>1, <2>2 DEF AcceptAt, Answer
<1> QED
  BY <1>1, <1>2, AcceptGoesOn

LEMMA UpdateAcceptedAccept ==
  ASSUME AShape, AcceptInv, NEW w \in Workers, UpdateAccepted(w)
  PROVE  AcceptInv'
<1>1. areq[w].op = "accept" /\ areq' = areq /\ disturbed' = disturbed
  BY DEF UpdateAccepted, AGoto, aHistory, AShape, AtWork, AcceptPCs
<1>2. ASSUME AcceptAt(w) PROVE AcceptAt(w)'
  <2>1. \A a : Credited(a)' <=> Credited(a)
    BY DEF UpdateAccepted, aRanks, Credited
  <2>2. /\ apc[w] = "question" /\ acceptedId' = Answer(w) /\ UNCHANGED <<adopted, acts, areq, aseen>>
        /\ apc'[w] = IF aseen[w].old = NoAnswer THEN "reward" ELSE "find"
    BY DEF UpdateAccepted, AGoto, aAnswers, aRanks, AShape, AnswerTypes
  <2>3. aseen[w].old = NoAnswer => \A x \in ActRows : acts[x] # "live"
    BY <1>2, <2>2 DEF AcceptAt, Credited, ActRows
  <2> QED
    BY <1>2, <2>1, <2>2, <2>3 DEF AcceptAt, Answer
<1> QED
  BY <1>1, <1>2, AcceptGoesOn

LEMMA FindAcceptRowsAccept ==
  ASSUME AShape, AcceptInv, NEW w \in Workers, FindAcceptRows(w)
  PROVE  AcceptInv'
<1>1. areq[w].op = "accept" /\ areq' = areq /\ disturbed' = disturbed
  BY DEF FindAcceptRows, AGoto, aHistory, AShape, AtWork, AcceptPCs
<1>2. ASSUME AcceptAt(w) PROVE AcceptAt(w)'
  <2>1. \A a : Credited(a)' <=> Credited(a)
    BY DEF FindAcceptRows, aRanks, Credited
  <2>2. /\ apc[w] = "find" /\ apc'[w] = "find_too" /\ UNCHANGED <<acceptedId, adopted, acts, areq>>
        /\ aseen'[w].old = aseen[w].old
        /\ aseen'[w].rows = aseen[w].rows \cup RowsAbout(aseen[w].old, "accept")
        /\ aseen'[w].live = aseen[w].live \cup {x \in RowsAbout(aseen[w].old, "accept") : acts[x] = "live"}
    BY DEF FindAcceptRows, AGoto, See, aQuestion, aAnswers, aRanks, AShape, AnswerTypes, SeenType
  <2>3. RowsAbout(aseen[w].old, "accept")' = RowsAbout(aseen[w].old, "accept")
    BY <2>2 DEF RowsAbout
  <2> QED
    BY <1>2, <2>1, <2>2, <2>3 DEF AcceptAt, Answer
<1> QED
  BY <1>1, <1>2, AcceptGoesOn

LEMMA FindAcceptedRowsAccept ==
  ASSUME AShape, AcceptInv, NEW w \in Workers, FindAcceptedRows(w)
  PROVE  AcceptInv'
<1>1. areq[w].op = "accept" /\ areq' = areq /\ disturbed' = disturbed
  BY DEF FindAcceptedRows, AGoto, aHistory, AShape, AtWork, AcceptPCs
<1>2. ASSUME AcceptAt(w) PROVE AcceptAt(w)'
  <2>1. \A a : Credited(a)' <=> Credited(a)
    BY DEF FindAcceptedRows, aRanks, Credited
  <2>2. /\ apc[w] = "find_too" /\ apc'[w] = "cancel" /\ UNCHANGED <<acceptedId, adopted, acts, areq>>
        /\ aseen'[w].old = aseen[w].old
        /\ aseen'[w].rows = aseen[w].rows \cup RowsAbout(aseen[w].old, "accepted")
        /\ aseen'[w].live = aseen[w].live \cup {x \in RowsAbout(aseen[w].old, "accepted") : acts[x] = "live"}
    BY DEF FindAcceptedRows, AGoto, See, aQuestion, aAnswers, aRanks, AShape, AnswerTypes, SeenType
  <2>3. aseen'[w].rows = {x \in ActRows : x.answer = aseen[w].old /\ acts[x] # "none"}
    BY <1>2, <2>2 DEF AcceptAt, RowsAbout, ActRows
  <2> QED
    BY <1>2, <2>1, <2>2, <2>3 DEF AcceptAt, Answer
<1> QED
  BY <1>1, <1>2, AcceptGoesOn

LEMMA CancelActivitiesAccept ==
  ASSUME AShape, AcceptInv, NEW w \in Workers, CancelActivities(w)
  PROVE  AcceptInv'
<1>1. areq[w].op = "accept" /\ areq' = areq /\ disturbed' = disturbed
  BY DEF CancelActivities, AGoto, AShape, AtWork, AcceptPCs
<1>2. ASSUME AcceptAt(w) PROVE AcceptAt(w)'
  <2>1. /\ apc[w] = "cancel" /\ apc'[w] = "reward" /\ UNCHANGED <<acceptedId, adopted, areq, aseen>>
        /\ acts' = IF aseen[w].live = {} THEN acts
                   ELSE [x \in ActRows |-> IF x \in aseen[w].rows THEN "cancelled" ELSE acts[x]]
    BY DEF CancelActivities, AGoto, aQuestion, aAnswers, AShape, AnswerTypes
  <2>2. \A x \in ActRows : acts[x] = "live" => x \in aseen[w].rows /\ x \in aseen[w].live
    BY <1>2, <2>1 DEF AcceptAt, Credited
  <2>3. \A x \in ActRows : acts'[x] # "live"
    BY <2>1, <2>2
  <2> QED
    BY <1>2, <2>1, <2>3 DEF AcceptAt, Answer
<1> QED
  BY <1>1, <1>2, AcceptGoesOn

LEMMA SaveActivitiesAccept ==
  ASSUME AShape, AcceptInv, NEW w \in Workers, SaveActivities(w)
  PROVE  AcceptInv'
<1> SUFFICES ASSUME ~disturbed' PROVE AcceptInv'
  BY DEF AcceptInv
<1>1. /\ ~disturbed /\ apc[w] = "reward" /\ areq[w].op = "accept" /\ areq[w].by \in Acceptors
      /\ UNCHANGED <<adopted, acceptedId>>
  BY DEF SaveActivities, AReturn, AGoto, aQuestion, aAnswers, aHistory, AShape, AtWork, AcceptPCs
<1>2. AcceptAt(w) /\ \A v \in Workers \ {w} : areq[v].op # "accept"
  BY <1>1 DEF AcceptInv
<1>3. \A v \in Workers : areq'[v].op # "accept"
  BY <1>2 DEF SaveActivities, AReturn, NoWork, AShape, AnswerTypes
<1>4. acts' = [x \in ActRows |-> IF x \in RowsOf(w) THEN "live" ELSE acts[x]]
  BY DEF SaveActivities
<1>5. \A x \in ActRows : acts'[x] = "live" => x.answer = Answer(w)
  BY <1>1, <1>2, <1>4 DEF AcceptAt, RowsOf
<1>6. Answer(w) \in AnswerIds \cup {NoAnswer}
  BY DEF AShape, AnswerTypes, Answer
<1>7. ASSUME Answer(w) # NoAnswer, NEW y \in {"accept", "accepted"}
      PROVE  acts'[[type |-> y, trigger |-> areq[w].by, answer |-> Answer(w)]] = "live"
  <2>1. [type |-> y, trigger |-> areq[w].by, answer |-> Answer(w)] \in RowsOf(w)
    BY <1>1, <1>6, <1>7 DEF RowsOf, ActRows
  <2> QED
    BY <1>4, <2>1 DEF RowsOf
<1>8. acceptedId' = Answer(w) /\ adopted' = {Answer(w)} \ {NoAnswer}
  BY <1>1, <1>2 DEF AcceptAt
<1>9. Agreed'
  BY <1>1, <1>5, <1>7, <1>8 DEF Agreed, Credited
<1> QED
  BY <1>3, <1>9 DEF AcceptInv

LEMMA LogAndGoOnAccept ==
  ASSUME AShape, AcceptInv, NEW w \in Workers, LogAndGoOn(w)
  PROVE  AcceptInv'
<1>1. disturbed'
  BY DEF LogAndGoOn
<1> QED
  BY <1>1 DEF AcceptInv

LEMMA BreakOffAccept ==
  ASSUME AShape, AcceptInv, NEW w \in Workers, BreakOff(w)
  PROVE  AcceptInv'
<1> SUFFICES ASSUME ~disturbed' PROVE AcceptInv'
  BY DEF AcceptInv
<1>1. areq[w].op # "accept" /\ UNCHANGED <<adopted, acceptedId, acts, disturbed>>
  BY DEF BreakOff, aQuestion, aAnswers, aRanks, AShape, AnswerTypes
<1> QED
  BY <1>1, AcceptFrame DEF BreakOff, NoWork, AShape, AnswerTypes

-----------------------------------------------------------------------------
-----------------------------------------------------------------------------
(* What a user has got is the sum of what their live rows are worth. *)
LiveRows == {x \in ActRows : acts[x] = "live"}

(* What a request has read of the rows is about the answer accepted so far. *)
Found(w) ==
  /\ aseen[w].live \subseteq aseen[w].rows
  /\ \A x \in aseen[w].rows : x.answer = aseen[w].old

RanksInv ==
  /\ gained \in [Writers -> Int]
  /\ \A w \in Workers : Found(w)
  /\ ~torn => \A u \in Writers : gained[u] = Worth(LiveRows, u)

LEMMA ActRowsFinite == IsFiniteSet(ActRows)
<1>1. IsFiniteSet({"accept", "accepted"})
  <2>1. IsFiniteSet({"accept"}) /\ {"accept", "accepted"} = {"accept"} \cup {"accepted"}
    BY FS_Singleton
  <2> QED
    BY <2>1, FS_AddElement
<1>2. PICK Pairs : Pairs = Acceptors \X AnswerIds
  OBVIOUS
<1>3. IsFiniteSet(Pairs)
  BY <1>2, FS_Product
<1>4. PICK Keys : Keys = {"accept", "accepted"} \X Pairs
  OBVIOUS
<1>5. IsFiniteSet(Keys)
  BY <1>1, <1>3, <1>4, FS_Product
<1>6. PICK f : f = [k \in Keys |-> [type |-> k[1], trigger |-> k[2][1], answer |-> k[2][2]]]
  OBVIOUS
<1>7. f \in Surjection(Keys, ActRows)
  <2>1. f \in [Keys -> ActRows]
    BY <1>2, <1>4, <1>6 DEF ActRows
  <2>2. ASSUME NEW x \in ActRows PROVE \E k \in Keys : f[k] = x
    <3>1. PICK k \in Keys : k = <<x.type, <<x.trigger, x.answer>>>>
      BY <1>2, <1>4 DEF ActRows
    <3>2. x = [type |-> x.type, trigger |-> x.trigger, answer |-> x.answer]
      BY DEF ActRows
    <3> QED
      BY <1>6, <3>1, <3>2
  <2> QED
    BY <2>1, <2>2 DEF Surjection
<1> QED
  BY <1>5, <1>7, FS_Surjection

LEMMA RankOfType == \A x \in ActRows : RankOf[x] \in Int
BY DEF RankOf

LEMMA WorthIs ==
  ASSUME NEW rows, NEW u
  PROVE  Worth(rows, u) = SumOver(RankOf, {x \in rows : UserOf(x) = u})
BY Zenon DEF Worth, SumOver, MapThenSumSet, MapThenFoldSet

LEMMA WorthType ==
  ASSUME NEW rows \in SUBSET ActRows, NEW u
  PROVE  Worth(rows, u) \in Int
<1>1. IsFiniteSet({x \in rows : UserOf(x) = u})
  BY ActRowsFinite, FS_Subset
<1>2. \A x \in {y \in rows : UserOf(y) = u} : RankOf[x] \in Int
  BY RankOfType
<1> QED
  BY <1>1, <1>2, SumType, WorthIs

(* Rows that have nothing in common are worth what each of them are. *)
LEMMA WorthUnion ==
  ASSUME NEW some \in SUBSET ActRows, NEW others \in SUBSET ActRows, some \cap others = {}, NEW u
  PROVE  Worth(some \cup others, u) = Worth(some, u) + Worth(others, u)
<1>1. PICK A \in SUBSET ActRows : A = {x \in some : UserOf(x) = u}
  OBVIOUS
<1>2. PICK B \in SUBSET ActRows : B = {x \in others : UserOf(x) = u}
  OBVIOUS
<1>3. {x \in some \cup others : UserOf(x) = u} = A \cup B /\ A \cap B = {}
  BY <1>1, <1>2
<1>4. SumOver(RankOf, A \cup B) = SumOver(RankOf, A) + SumOver(RankOf, B)
  BY <1>3, ActRowsFinite, RankOfType, SumUnion
<1> QED
  BY <1>1, <1>2, <1>3, <1>4, WorthIs

(* The requests that have nothing to do with the rows. *)
LEMMA RanksFrame ==
  ASSUME AShape, RanksInv, UNCHANGED <<acts, gained, torn>>,
         \A w \in Workers : \/ /\ aseen'[w].rows = aseen[w].rows /\ aseen'[w].live = aseen[w].live
                               /\ aseen'[w].old = aseen[w].old
                            \/ aseen'[w].rows = {} /\ aseen'[w].live = {}
  PROVE  RanksInv'
<1>1. \A w \in Workers : Found(w)'
  BY DEF RanksInv, Found
<1>2. PICK rows : rows = LiveRows
  OBVIOUS
<1>3. LiveRows' = rows
  BY <1>2 DEF LiveRows
<1>4. \A u \in Writers : Worth(LiveRows, u)' = Worth(LiveRows, u)
  BY <1>2, <1>3, WorthIs DEF LiveRows
<1> QED
  BY <1>1, <1>4 DEF RanksInv

LEMMA InsertAnswerRanks ==
  ASSUME AShape, RanksInv, NEW w \in Workers, NEW a \in AnswerIds, InsertAnswer(w, a)
  PROVE  RanksInv'
BY RanksFrame DEF InsertAnswer, Arrives, AGoto, aQuestion, aRanks, aHistory, AShape, AnswerTypes, SeenType

LEMMA AddAnswerReviewRanks ==
  ASSUME AShape, RanksInv, NEW w \in Workers, AddAnswerReview(w)
  PROVE  RanksInv'
BY RanksFrame DEF AddAnswerReview, AGoto, aQuestion, aRanks, aHistory, AShape, AnswerTypes, SeenType

LEMMA AddReviewFailsRanks ==
  ASSUME AShape, RanksInv, NEW w \in Workers, AddReviewFails(w)
  PROVE  RanksInv'
BY RanksFrame DEF AddReviewFails, AGoto, aQuestion, aAnswers, aRanks, AShape, AnswerTypes, SeenType

LEMMA RemoveAnswerRanks ==
  ASSUME AShape, RanksInv, NEW w \in Workers, NEW a \in AnswerIds, NEW m \in BOOLEAN, RemoveAnswer(w, a, m)
  PROVE  RanksInv'
BY RanksFrame DEF RemoveAnswer, Arrives, AGoto, aQuestion, aAnswers, aRanks, aHistory, AShape, AnswerTypes, SeenType

LEMMA RecoverAnswerRanks ==
  ASSUME AShape, RanksInv, NEW w \in Workers, NEW a \in AnswerIds, RecoverAnswer(w, a)
  PROVE  RanksInv'
BY RanksFrame DEF RecoverAnswer, Arrives, AGoto, aQuestion, aAnswers, aRanks, aHistory, AShape, AnswerTypes, SeenType

LEMMA UpdateReviewRanks ==
  ASSUME AShape, RanksInv, NEW w \in Workers, NEW a \in AnswerIds, NEW d \in {"available", "deleted"}, UpdateReview(w, a, d)
  PROVE  RanksInv'
BY RanksFrame DEF UpdateReview, Arrives, AGoto, aQuestion, aAnswers, aRanks, aHistory, AShape, AnswerTypes, SeenType

LEMMA WriteStatusRanks ==
  ASSUME AShape, RanksInv, NEW w \in Workers, WriteStatus(w)
  PROVE  RanksInv'
BY RanksFrame DEF WriteStatus, AGoto, MakeLate, aQuestion, aRanks, AShape, AnswerTypes, SeenType

LEMMA CountAnswersRanks ==
  ASSUME AShape, RanksInv, NEW w \in Workers, CountAnswers(w)
  PROVE  RanksInv'
BY RanksFrame DEF CountAnswers, AGoto, aQuestion, aAnswers, aRanks, aHistory, AShape, AnswerTypes, SeenType

LEMMA UpdateAnswerCountRanks ==
  ASSUME AShape, RanksInv, NEW w \in Workers, UpdateAnswerCount(w)
  PROVE  RanksInv'
<1>1. UNCHANGED <<acts, gained, torn>>
  BY DEF UpdateAnswerCount, WriteCount, aRanks
<1>2. PICK read \in [Workers -> SeenType] : read = MakeLate(aseen)
  BY MakeLateType DEF AShape, AnswerTypes
<1>3. \A v \in Workers : /\ read[v].rows = aseen[v].rows /\ read[v].live = aseen[v].live
                         /\ read[v].old = aseen[v].old
  BY <1>2 DEF MakeLate, AShape, AnswerTypes, SeenType
<1>4. \A v \in Workers : aseen'[v] = IF v = w THEN NothingSeen ELSE read[v]
  BY <1>2 DEF UpdateAnswerCount
<1> QED
  BY <1>1, <1>3, <1>4, RanksFrame DEF NothingSeen

LEMMA UpdateAnswerCountOfReviewRanks ==
  ASSUME AShape, RanksInv, NEW w \in Workers, UpdateAnswerCountOfReview(w)
  PROVE  RanksInv'
BY RanksFrame DEF UpdateAnswerCountOfReview, AGoto, MakeLate, WriteCount, aAnswers, aRanks, AShape, AnswerTypes, SeenType

LEMMA UpdateReviewStatusRanks ==
  ASSUME AShape, RanksInv, NEW w \in Workers, UpdateReviewStatus(w)
  PROVE  RanksInv'
BY RanksFrame DEF UpdateReviewStatus, AReturn, AGoto, NothingSeen, aQuestion, aRanks, aHistory, AShape, AnswerTypes, SeenType

LEMMA AcceptAnswerRanks ==
  ASSUME AShape, RanksInv, NEW w \in Workers, NEW t \in Acceptors, NEW a \in AnswerIds \cup {NoAnswer}, AcceptAnswer(w, t, a)
  PROVE  RanksInv'
BY RanksFrame DEF AcceptAnswer, Arrives, AGoto, aQuestion, aAnswers, aRanks, AtWork, AShape, AnswerTypes, SeenType

LEMMA ClearAdoptedRanks ==
  ASSUME AShape, RanksInv, NEW w \in Workers, ClearAdopted(w)
  PROVE  RanksInv'
BY RanksFrame DEF ClearAdopted, AGoto, aQuestion, aRanks, aHistory, AShape, AnswerTypes, SeenType

LEMMA AdoptRanks ==
  ASSUME AShape, RanksInv, NEW w \in Workers, Adopt(w)
  PROVE  RanksInv'
BY RanksFrame DEF Adopt, AGoto, aQuestion, aRanks, aHistory, AShape, AnswerTypes, SeenType

LEMMA UpdateAcceptedRanks ==
  ASSUME AShape, RanksInv, NEW w \in Workers, UpdateAccepted(w)
  PROVE  RanksInv'
BY RanksFrame DEF UpdateAccepted, AGoto, aAnswers, aRanks, aHistory, AShape, AnswerTypes, SeenType

LEMMA LogAndGoOnRanks ==
  ASSUME AShape, RanksInv, NEW w \in Workers, LogAndGoOn(w)
  PROVE  RanksInv'
BY RanksFrame DEF LogAndGoOn, aQuestion, aAnswers, aRanks, AShape, AnswerTypes, SeenType

LEMMA BreakOffRanks ==
  ASSUME AShape, RanksInv, NEW w \in Workers, BreakOff(w)
  PROVE  RanksInv'
BY RanksFrame DEF BreakOff, NothingSeen, aQuestion, aAnswers, aRanks, AShape, AnswerTypes, SeenType

LEMMA RemoveAllUserAnswerRanks ==
  ASSUME AShape, RanksInv, NEW u \in Writers, RemoveAllUserAnswer(u)
  PROVE  RanksInv'
BY RanksFrame DEF RemoveAllUserAnswer, MakeLate, aQuestion, aRanks, AShape, AnswerTypes, SeenType

(* A request reads more rows about the same answer. *)
LEMMA SeeRanks ==
  ASSUME AShape, RanksInv, NEW w \in Workers, NEW type \in {"accept", "accepted"},
         See(w, RowsAbout(aseen[w].old, type)), UNCHANGED <<acts, gained, torn>>
  PROVE  RanksInv'
<1>1. PICK new \in SUBSET ActRows : new = RowsAbout(aseen[w].old, type)
  BY DEF RowsAbout
<1>2. \A x \in new : x.answer = aseen[w].old
  BY <1>1 DEF RowsAbout
<1>3. \A v \in Workers : IF v = w THEN /\ aseen'[w].rows = aseen[w].rows \cup new
                                       /\ aseen'[w].live = aseen[w].live \cup {x \in new : acts[x] = "live"}
                                       /\ aseen'[w].old = aseen[w].old
                         ELSE aseen'[v] = aseen[v]
  BY <1>1 DEF See, AShape, AnswerTypes, SeenType
<1>4. \A v \in Workers : Found(v)'
  BY <1>2, <1>3 DEF RanksInv, Found
<1>5. PICK rows : rows = LiveRows
  OBVIOUS
<1>6. LiveRows' = rows
  BY <1>5 DEF LiveRows
<1>7. \A u \in Writers : Worth(LiveRows, u)' = Worth(LiveRows, u)
  BY <1>5, <1>6, WorthIs DEF LiveRows
<1> QED
  BY <1>4, <1>7 DEF RanksInv

(* Unless the cancellation has seen only half of an acceptance, it takes back
   every row that it cancels: the user of a row has one of the same acceptance
   that was live when it was looked up. *)
LEMMA CancelActivitiesRanks ==
  ASSUME AShape, RanksInv, NEW w \in Workers, CancelActivities(w)
  PROVE  RanksInv'
<1>1. /\ aseen' = aseen
      /\ acts' = IF aseen[w].live = {} THEN acts
                 ELSE [x \in ActRows |-> IF x \in aseen[w].rows THEN "cancelled" ELSE acts[x]]
      /\ gained' = [u \in Writers |-> gained[u] - Worth(ToTakeBack(w), u)]
      /\ ~torn' => ~torn /\ \A x \in aseen[w].live, y \in ActRows :
                              y.trigger = x.trigger /\ y.answer = x.answer => y \in aseen[w].live
  BY DEF CancelActivities
<1>2. PICK rows \in SUBSET ActRows : rows = LiveRows
  BY DEF LiveRows
<1>3. PICK back \in SUBSET ActRows : back = ToTakeBack(w)
  BY DEF ToTakeBack, AShape, AnswerTypes, SeenType
<1>4. PICK left \in SUBSET ActRows : left = LiveRows'
  BY DEF LiveRows
<1>5. \A u \in Writers : Worth(back, u) \in Int /\ gained[u] \in Int
  BY WorthType DEF RanksInv
<1>6. \A u \in Writers : gained'[u] = gained[u] - Worth(back, u)
  BY <1>1, <1>3
<1>7. gained' \in [Writers -> Int]
  BY <1>1, <1>3, <1>5
<1>8. ASSUME ~torn' PROVE rows = left \cup back /\ left \cap back = {}
  <2>1. aseen[w].live \subseteq aseen[w].rows /\ aseen[w].rows \subseteq ActRows
    BY DEF RanksInv, Found, AShape, AnswerTypes, SeenType
  <2>2. CASE aseen[w].live = {}
    BY <1>1, <1>2, <1>3, <1>4, <2>2 DEF ToTakeBack, LiveRows
  <2>3. CASE aseen[w].live # {}
    <3>1. PICK y \in aseen[w].live : TRUE
      BY <2>3
    <3>2. ASSUME NEW x \in aseen[w].rows PROVE \E z \in aseen[w].live : UserOf(z) = UserOf(x)
      <4>1. PICK z \in ActRows : z.type = x.type /\ z.trigger = y.trigger /\ z.answer = y.answer
        <5>1. [type |-> x.type, trigger |-> y.trigger, answer |-> y.answer] \in ActRows
          BY <2>1, <3>1 DEF ActRows
        <5> QED
          BY <5>1
      <4>2. z \in aseen[w].live
        BY <1>1, <1>8, <3>1, <4>1
      <4>3. x.answer = y.answer
        BY <2>1, <3>1 DEF RanksInv, Found
      <4> QED
        BY <4>1, <4>2, <4>3 DEF UserOf
    <3>3. back = {x \in aseen[w].rows : acts[x] = "live"}
      BY <1>3, <3>2 DEF ToTakeBack
    <3>4. left = {x \in ActRows : x \notin aseen[w].rows /\ acts[x] = "live"}
      BY <1>1, <1>4, <2>3 DEF LiveRows
    <3> QED
      BY <1>2, <2>1, <3>3, <3>4 DEF LiveRows
  <2> QED
    BY <2>2, <2>3
<1>9. ASSUME ~torn', NEW u \in Writers PROVE gained'[u] = Worth(LiveRows, u)'
  <2>1. gained[u] = Worth(rows, u)
    BY <1>1, <1>2, <1>9 DEF RanksInv
  <2>2. Worth(rows, u) = Worth(left, u) + Worth(back, u)
    BY <1>8, <1>9, WorthUnion
  <2>3. Worth(left, u) \in Int
    BY WorthType
  <2>4. Worth(LiveRows, u)' = Worth(left, u)
    BY <1>4
  <2> QED
    BY <1>5, <1>6, <2>1, <2>2, <2>3, <2>4
<1>10. \A v \in Workers : Found(v)'
  BY <1>1 DEF RanksInv, Found
<1> QED
  BY <1>7, <1>9, <1>10 DEF RanksInv

LEMMA SaveActivitiesRanks ==
  ASSUME AShape, RanksInv, NEW w \in Workers, SaveActivities(w)
  PROVE  RanksInv'
<1>1. /\ aseen' = [aseen EXCEPT ![w] = NothingSeen]
      /\ acts' = [x \in ActRows |-> IF x \in RowsOf(w) THEN "live" ELSE acts[x]]
      /\ gained' = [u \in Writers |-> gained[u] + Worth({x \in RowsOf(w) : acts[x] # "live"}, u)]
      /\ torn' = torn
  BY DEF SaveActivities, AReturn, aHistory
<1>2. PICK rows \in SUBSET ActRows : rows = LiveRows
  BY DEF LiveRows
<1>3. PICK new \in SUBSET ActRows : new = {x \in RowsOf(w) : acts[x] # "live"}
  BY DEF RowsOf
<1>4. \A u \in Writers : Worth(new, u) \in Int /\ gained[u] \in Int
  BY WorthType DEF RanksInv
<1>5. \A u \in Writers : gained'[u] = gained[u] + Worth(new, u)
  BY <1>1, <1>3
<1>6. gained' \in [Writers -> Int]
  BY <1>1, <1>3, <1>4
<1>7. LiveRows' = rows \cup new /\ rows \cap new = {}
  BY <1>1, <1>2, <1>3 DEF LiveRows, RowsOf
<1>8. ASSUME ~torn', NEW u \in Writers PROVE gained'[u] = Worth(LiveRows, u)'
  <2>1. gained[u] = Worth(rows, u)
    BY <1>1, <1>2, <1>8 DEF RanksInv
  <2>2. Worth(rows \cup new, u) = Worth(rows, u) + Worth(new, u)
    BY <1>7, WorthUnion
  <2>3. Worth(LiveRows, u)' = Worth(rows \cup new, u)
    BY <1>7
  <2> QED
    BY <1>5, <2>1, <2>2, <2>3
<1>9. \A v \in Workers : Found(v)'
  BY <1>1 DEF RanksInv, Found, NothingSeen, AShape, AnswerTypes
<1> QED
  BY <1>6, <1>8, <1>9 DEF RanksInv

LEMMA AInitRanks == AInit => RanksInv
<1> SUFFICES ASSUME AInit PROVE RanksInv
  OBVIOUS
<1>1. LiveRows = {}
  BY DEF AInit, LiveRows
<1>2. \A u \in Writers : Worth({}, u) = 0
  <2>1. SUFFICES ASSUME NEW u \in Writers PROVE Worth({}, u) = 0
    OBVIOUS
  <2>2. {x \in {} : UserOf(x) = u} = {}
    OBVIOUS
  <2> QED
    BY <2>2, WorthIs, SumOfNone
<1> QED
  BY <1>1, <1>2 DEF AInit, RanksInv, Found, NothingSeen

-----------------------------------------------------------------------------
AnswersInv == AShape /\ CountInv /\ ReviewInv /\ AcceptInv /\ RanksInv

LEMMA AInitInv == AInit => AnswersInv
<1> SUFFICES ASSUME AInit PROVE AnswersInv
  OBVIOUS
<1>1. CountInv
  BY DEF AInit, CountInv
<1>2. ReviewInv
  BY DEF AInit, ReviewInv, InsertOK, HoldOK, OnHoldOK, NoWork
<1>3. AcceptInv
  BY DEF AInit, AcceptInv, Agreed, Credited, NoWork
<1> QED
  BY AInitShape, AInitRanks, <1>1, <1>2, <1>3 DEF AnswersInv

LEMMA ANextShape ==
  ASSUME AShape, [ANext]_aVars
  PROVE  AShape'
<1>1. ASSUME NEW w \in Workers, AAnswering(w) PROVE AShape'
  BY <1>1, InsertAnswerShape, RecoverAnswerShape, RemoveAnswerShape, UpdateReviewShape,
         AddAnswerReviewShape, AddReviewFailsShape, WriteStatusShape, CountAnswersShape,
         UpdateAnswerCountShape, UpdateAnswerCountOfReviewShape, UpdateReviewStatusShape DEF
         AAnswering
<1>2. ASSUME NEW w \in Workers, AAccepting(w) PROVE AShape'
  BY <1>2, AcceptAnswerShape, ClearAdoptedShape, AdoptShape, UpdateAcceptedShape,
         FindAcceptRowsShape, FindAcceptedRowsShape, CancelActivitiesShape,
         SaveActivitiesShape DEF AAccepting
<1>3. ASSUME NEW w \in Workers, LogAndGoOn(w) \/ BreakOff(w) PROVE AShape'
  BY <1>3, LogAndGoOnShape, BreakOffShape
<1>4. ASSUME NEW u \in Writers, RemoveAllUserAnswer(u) PROVE AShape'
  BY <1>4, RemoveAllUserAnswerShape
<1>5. CASE UNCHANGED aVars
  BY <1>5 DEF aVars, aQuestion, aAnswers, aRanks, aHistory, AShape, AnswerTypes, AtWork,
         NewUnreviewed, Answer
<1> QED
  BY <1>1, <1>2, <1>3, <1>4, <1>5 DEF ANext

LEMMA ANextCount ==
  ASSUME AShape, CountInv, [ANext]_aVars
  PROVE  CountInv'
<1>1. ASSUME NEW w \in Workers, AAnswering(w) PROVE CountInv'
  BY <1>1, InsertAnswerCount, RecoverAnswerCount, RemoveAnswerCount, UpdateReviewCount,
         AddAnswerReviewCount, AddReviewFailsCount, WriteStatusCount, CountAnswersCount,
         UpdateAnswerCountCount, UpdateAnswerCountOfReviewCount, UpdateReviewStatusCount DEF
         AAnswering
<1>2. ASSUME NEW w \in Workers, AAccepting(w) PROVE CountInv'
  BY <1>2, AcceptAnswerCount, ClearAdoptedCount, AdoptCount, UpdateAcceptedCount,
         FindAcceptRowsCount, FindAcceptedRowsCount, CancelActivitiesCount,
         SaveActivitiesCount DEF AAccepting
<1>3. ASSUME NEW w \in Workers, LogAndGoOn(w) \/ BreakOff(w) PROVE CountInv'
  BY <1>3, LogAndGoOnCount, BreakOffCount
<1>4. ASSUME NEW u \in Writers, RemoveAllUserAnswer(u) PROVE CountInv'
  BY <1>4, RemoveAllUserAnswerCount
<1>5. CASE UNCHANGED aVars
  BY <1>5 DEF aVars, aQuestion, aAnswers, aRanks, aHistory, CountInv, AvailableAnswers
<1> QED
  BY <1>1, <1>2, <1>3, <1>4, <1>5 DEF ANext

LEMMA ANextReview ==
  ASSUME AShape, ReviewInv, [ANext]_aVars
  PROVE  ReviewInv'
<1>1. ASSUME NEW w \in Workers, AAnswering(w) PROVE ReviewInv'
  BY <1>1, InsertAnswerReview, RecoverAnswerReview, RemoveAnswerReview, UpdateReviewReview,
         AddAnswerReviewReview, AddReviewFailsReview, WriteStatusReview, CountAnswersReview,
         UpdateAnswerCountReview, UpdateAnswerCountOfReviewReview, UpdateReviewStatusReview
         DEF AAnswering
<1>2. ASSUME NEW w \in Workers, AAccepting(w) PROVE ReviewInv'
  BY <1>2, AcceptAnswerReview, ClearAdoptedReview, AdoptReview, UpdateAcceptedReview,
         FindAcceptRowsReview, FindAcceptedRowsReview, CancelActivitiesReview,
         SaveActivitiesReview DEF AAccepting
<1>3. ASSUME NEW w \in Workers, LogAndGoOn(w) \/ BreakOff(w) PROVE ReviewInv'
  BY <1>3, LogAndGoOnReview, BreakOffReview
<1>4. ASSUME NEW u \in Writers, RemoveAllUserAnswer(u) PROVE ReviewInv'
  BY <1>4, RemoveAllUserAnswerReview
<1>5. CASE UNCHANGED aVars
  BY <1>5, ReviewFrame DEF aVars, aQuestion, aAnswers, aRanks, aHistory, AShape, AtWork
<1> QED
  BY <1>1, <1>2, <1>3, <1>4, <1>5 DEF ANext

LEMMA ANextAccept ==
  ASSUME AShape, AcceptInv, [ANext]_aVars
  PROVE  AcceptInv'
<1>1. ASSUME NEW w \in Workers, AAnswering(w) PROVE AcceptInv'
  BY <1>1, InsertAnswerAccept, RecoverAnswerAccept, RemoveAnswerAccept, UpdateReviewAccept,
         AddAnswerReviewAccept, AddReviewFailsAccept, WriteStatusAccept, CountAnswersAccept,
         UpdateAnswerCountAccept, UpdateAnswerCountOfReviewAccept, UpdateReviewStatusAccept
         DEF AAnswering
<1>2. ASSUME NEW w \in Workers, AAccepting(w) PROVE AcceptInv'
  BY <1>2, AcceptAnswerAccept, ClearAdoptedAccept, AdoptAccept, UpdateAcceptedAccept,
         FindAcceptRowsAccept, FindAcceptedRowsAccept, CancelActivitiesAccept,
         SaveActivitiesAccept DEF AAccepting
<1>3. ASSUME NEW w \in Workers, LogAndGoOn(w) \/ BreakOff(w) PROVE AcceptInv'
  BY <1>3, LogAndGoOnAccept, BreakOffAccept
<1>4. ASSUME NEW u \in Writers, RemoveAllUserAnswer(u) PROVE AcceptInv'
  BY <1>4, RemoveAllUserAnswerAccept
<1>5. CASE UNCHANGED aVars
  BY <1>5, AcceptFrame DEF aVars, aQuestion, aAnswers, aRanks, aHistory
<1> QED
  BY <1>1, <1>2, <1>3, <1>4, <1>5 DEF ANext

LEMMA ANextRanks ==
  ASSUME AShape, RanksInv, [ANext]_aVars
  PROVE  RanksInv'
<1>1. ASSUME NEW w \in Workers, AAnswering(w) PROVE RanksInv'
  BY <1>1, InsertAnswerRanks, RecoverAnswerRanks, RemoveAnswerRanks, UpdateReviewRanks,
         AddAnswerReviewRanks, AddReviewFailsRanks, WriteStatusRanks, CountAnswersRanks,
         UpdateAnswerCountRanks, UpdateAnswerCountOfReviewRanks, UpdateReviewStatusRanks
         DEF AAnswering
<1>2. ASSUME NEW w \in Workers, FindAcceptRows(w) \/ FindAcceptedRows(w) PROVE RanksInv'
  BY <1>2, SeeRanks DEF FindAcceptRows, FindAcceptedRows, aRanks, aHistory
<1>3. ASSUME NEW w \in Workers, AAccepting(w) PROVE RanksInv'
  BY <1>2, <1>3, AcceptAnswerRanks, ClearAdoptedRanks, AdoptRanks, UpdateAcceptedRanks,
         CancelActivitiesRanks, SaveActivitiesRanks DEF AAccepting
<1>4. ASSUME NEW w \in Workers, LogAndGoOn(w) \/ BreakOff(w) PROVE RanksInv'
  BY <1>4, LogAndGoOnRanks, BreakOffRanks
<1>5. ASSUME NEW u \in Writers, RemoveAllUserAnswer(u) PROVE RanksInv'
  BY <1>5, RemoveAllUserAnswerRanks
<1>6. CASE UNCHANGED aVars
  BY <1>6, RanksFrame DEF aVars, aRanks, aHistory
<1> QED
  BY <1>1, <1>3, <1>4, <1>5, <1>6 DEF ANext

LEMMA AnswersInductive == ASpec => []AnswersInv
<1>1. AnswersInv /\ [ANext]_aVars => AnswersInv'
  BY ANextShape, ANextCount, ANextReview, ANextAccept, ANextRanks DEF AnswersInv
<1> QED
  BY AInitInv, <1>1, PTL DEF ASpec

(* Every variable of the answers keeps its type. *)
THEOREM AnswersTyped == ASpec => []ATypeOK
<1>1. AnswersInv => ATypeOK
  BY DEF AnswersInv, AShape, AnswerTypes, SeenType, RanksInv, ATypeOK
<1> QED
  BY AnswersInductive, <1>1, PTL

(* What each user got in rank is what their live rows are worth, however the
   acceptances of a question overlap or break off, unless a cancellation looked
   up one row of an acceptance before it and the other one after it. *)
THEOREM GainMatchesRowsTheorem == ASpec => []GainMatchesRows
<1>1. AnswersInv => GainMatchesRows
  BY DEF AnswersInv, RanksInv, LiveRows, GainMatchesRows
<1> QED
  BY AnswersInductive, <1>1, PTL

(* Whatever requests overlap or break off, an answer on hold that no error and
   no early decision of a reviewer has reached has a review that waits. *)
THEOREM OnHoldIsReviewed == ASpec => []PendingReviewed
<1>1. AnswersInv => PendingReviewed
  BY DEF AnswersInv, AShape, AtWork, ReviewInv, OnHoldOK, Waiting, PendingReviewed, AtRest
<1> QED
  BY AnswersInductive, <1>1, PTL

(* When no request is in progress, the column answer_count is the number of
   available answers, unless it was written from a count that was too old. *)
THEOREM AnswersCounted == ASpec => []CountAgrees
<1>1. AnswersInv => CountAgrees
  BY DEF AnswersInv, CountInv, CountAgrees, AtRest
<1> QED
  BY AnswersInductive, <1>1, PTL

(* When no request is in progress and no two acceptances have overlapped nor one
   broken off, the question, the answers and the rows of the activity name one
   accepted answer: the three places AcceptAnswer writes, one after the other. *)
THEOREM OneAcceptedAnswer == ASpec => []AcceptanceAgrees
<1>1. AnswersInv => AcceptanceAgrees
  <2>1. AnswersInv /\ AtRest => \A w \in Workers : areq[w].op # "accept"
    BY DEF AnswersInv, AShape, AtWork, AtRest
  <2> QED
    BY <2>1 DEF AnswersInv, AcceptInv, Agreed, Credited, AcceptanceAgrees
<1> QED
  BY AnswersInductive, <1>1, PTL
=============================================================================
