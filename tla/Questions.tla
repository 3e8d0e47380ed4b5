----------------------------- MODULE Questions -----------------------------
(***************************************************************************)
(* Questions and their tags: internal/service/content/question_service.go, *)
(* the relations of internal/service/tag_common/tag_common.go, and the     *)
(* review of a question in internal/service/review/review_service.go.      *)
(*                                                                         *)
(* A question has a status, is pinned or not and shown or hidden; a        *)
(* relation links it to a tag, and each tag keeps the number of its        *)
(* relations that are available.  A request reads the question and then    *)
(* writes it, its relations and the numbers, statement by statement.       *)
(***************************************************************************)
EXTENDS Naturals, FiniteSets

CONSTANTS QuestionIds,  (* rows the table question may get *)
          Tags,         (* rows of the table tag *)
          NoQuestion,
          NoTag,
          Editors,      (* HTTP requests in progress *)
          MaxEdits,     (* bound: requests altogether *)
          MaxLapses     (* bound: requests that an error or a crash ends *)

ASSUME QuestionsAssumption ==
  /\ IsFiniteSet(QuestionIds)
  /\ NoQuestion \notin QuestionIds
  /\ NoTag \notin Tags
  /\ MaxEdits \in Nat
  /\ MaxLapses \in Nat

QStatuses == {"available", "closed", "pending", "deleted"}
Operations == {"hide", "show", "pin", "unpin"}
QOps == Operations \cup {"none", "add", "edit", "remove", "recover", "set", "review"}

VARIABLES qStatus,    (* column status of the questions *)
          pinned,     (* those with pin = QuestionPin *)
          hidden,     (* those with show = QuestionHide *)
          qReview,    (* the status of the review of each question *)
          rel,        (* column status of the relations *)
          tagCount,   (* column question_count of the tags *)
          qpc,        (* the next statement of each request *)
          qreq,       (* what it was asked for *)
          qseen,      (* what it has read or prepared *)
          edits,      (* how many requests have arrived *)
          lapses,     (* how many have broken off *)
          late,       (* history: requests during which another one changed
                         relations or numbers *)
          staleTags,  (* history: tags whose number a late request has written,
                         or no request after it changed their relations *)
          mixed       (* history: questions on which requests overlapped or
                         broke off, or that were recovered *)

qQuestion == <<qStatus, pinned, hidden, qReview>>
qTags == <<rel, tagCount>>
qHistory == <<late, staleTags, mixed>>
qVars == <<qQuestion, qTags, qpc, qreq, qseen, edits, lapses, qHistory>>

Rels == QuestionIds \X Tags

QPCs == {"idle", "ask", "status", "settle", "reject", "look", "drop", "link",
         "hide", "show", "list", "list_all", "drop_all", "recover_rels",
         "count", "number", "operation"}

QEdits == [op : QOps, on : QuestionIds \cup {NoQuestion}, tags : SUBSET Tags]
QSights == [pin : BOOLEAN, hide : BOOLEAN, status : QStatuses, old : SUBSET Tags,
            new : SUBSET Tags, default : {"available", "hide"}, refresh : SUBSET Tags,
            tag : Tags \cup {NoTag}, n : 0..Cardinality(QuestionIds)]

NoEdit == [op |-> "none", on |-> NoQuestion, tags |-> {}]
NoSight == [pin |-> FALSE, hide |-> FALSE, status |-> "deleted", old |-> {},
            new |-> {}, default |-> "available", refresh |-> {}, tag |-> NoTag, n |-> 0]

QTypeOK ==
  /\ qStatus \in [QuestionIds -> QStatuses \cup {"none"}]
  /\ pinned \subseteq QuestionIds
  /\ hidden \subseteq QuestionIds
  /\ qReview \in [QuestionIds -> {"none", "pending", "approved", "rejected"}]
  /\ rel \in [Rels -> {"none", "available", "hide", "deleted"}]
  /\ tagCount \in [Tags -> 0..Cardinality(QuestionIds)]
  /\ qpc \in [Editors -> QPCs]
  /\ qreq \in [Editors -> QEdits]
  /\ qseen \in [Editors -> QSights]
  /\ edits \in 0..MaxEdits
  /\ lapses \in 0..MaxLapses
  /\ late \subseteq Editors
  /\ staleTags \subseteq Tags
  /\ mixed \subseteq QuestionIds

Linked(t) == {q \in QuestionIds : rel[<<q, t>>] = "available"}

(* Some questions are there already, shown, pinned, hidden or deleted, with
   some of the tags. *)
QInit ==
  /\ qStatus \in [QuestionIds -> {"none", "available", "deleted"}]
  /\ pinned \in SUBSET {q \in QuestionIds : qStatus[q] = "available"}
  /\ hidden \in SUBSET {q \in QuestionIds : qStatus[q] = "available" /\ q \notin pinned}
  /\ qReview = [q \in QuestionIds |-> "none"]
  /\ rel \in [Rels -> {"none", "available", "hide", "deleted"}]
  /\ \A k \in Rels : rel[k] \in {"none", CASE qStatus[k[1]] = "none" -> "none"
                                         [] qStatus[k[1]] = "deleted" -> "deleted"
                                         [] k[1] \in hidden -> "hide"
                                         [] OTHER -> "available"}
  /\ tagCount = [t \in Tags |-> Cardinality(Linked(t))]
  /\ qpc = [w \in Editors |-> "idle"]
  /\ qreq = [w \in Editors |-> NoEdit]
  /\ qseen = [w \in Editors |-> NoSight]
  /\ edits = 0
  /\ lapses = 0
  /\ late = {}
  /\ staleTags = {}
  /\ mixed = {}

-----------------------------------------------------------------------------
QGoto(w, from, to) == qpc[w] = from /\ qpc' = [qpc EXCEPT ![w] = to]

QDone(w) ==
  /\ qreq' = [qreq EXCEPT ![w] = NoEdit]
  /\ qseen' = [qseen EXCEPT ![w] = NoSight]

QReturn(w, from) == QGoto(w, from, "idle") /\ QDone(w)

On(w) == qreq[w].on
Op(w) == qreq[w].op

(* History: another request is at work on the same question. *)
Meets(w, q) == \E v \in Editors \ {w} : On(v) = q

(* A request for question q arrives, reads it and prepares what s says. *)
QArrives(w, q, op, ts, s, to) ==
  /\ QGoto(w, "idle", to)
  /\ edits < MaxEdits
  /\ edits' = edits + 1
  /\ qreq' = [qreq EXCEPT ![w] = [op |-> op, on |-> q, tags |-> ts]]
  /\ qseen' = [qseen EXCEPT ![w] = s]
  /\ mixed' = IF Meets(w, q) THEN mixed \cup {q} ELSE mixed
  /\ late' = late \ {w}
  /\ UNCHANGED <<lapses, staleTags>>

(* The relations ks get the status st.  Requests that are in progress may have
   read them before; a late request may leave numbers behind. *)
SetRels(w, ks, st) ==
  /\ rel' = [k \in Rels |-> IF k \in ks THEN st ELSE rel[k]]
  /\ late' = late \cup {v \in Editors \ {w} : qpc[v] # "idle"}
  /\ staleTags' = IF w \in late THEN staleTags \cup {k[2] : k \in ks} ELSE staleTags

RelsOf(q, sts) == {k \in Rels : k[1] = q /\ rel[k] \in sts}

(* GetObjectTagRelList: also the hidden ones. *)
TagsOf(q) == {k[2] : k \in RelsOf(q, {"available", "hide"})}

-----------------------------------------------------------------------------
(* AddQuestion: on hold at first, shown and not pinned. *)
AddQuestion(w, q, ts) ==
  /\ QArrives(w, q, "add", ts, NoSight, "ask")
  /\ qStatus[q] = "none"
  /\ qStatus' = [qStatus EXCEPT ![q] = "pending"]
  /\ pinned' = pinned \ {q}
  /\ hidden' = hidden \ {q}
  /\ UNCHANGED <<qReview, qTags>>

AddQuestionReview(w) ==
  /\ QGoto(w, "ask", "status")
  /\ \E d \in QStatuses \ {"closed"} :
       /\ qseen' = [qseen EXCEPT ![w].status = d]
       /\ qReview' = IF d = "pending" THEN [qReview EXCEPT ![On(w)] = "pending"] ELSE qReview
  /\ UNCHANGED <<qStatus, pinned, hidden, qTags, qreq, edits, lapses, qHistory>>

(* CloseQuestion, ReopenQuestion and AdminSetQuestionStatus write a status,
   whatever the status was. *)
SetQuestionStatus(w, q, st) ==
  /\ QArrives(w, q, "set", {}, [NoSight EXCEPT !.status = st], "status")
  /\ qStatus[q] # "none"
  /\ UNCHANGED <<qQuestion, qTags>>

(* UpdateReview *)
ReviewQuestion(w, q, st) ==
  /\ QArrives(w, q, "review", {}, [NoSight EXCEPT !.status = st], "status")
  /\ qReview[q] = "pending"
  /\ qStatus[q] # "none"
  /\ UNCHANGED <<qQuestion, qTags>>

(* RemoveQuestion; whether the user may is left to the request. *)
RemoveQuestion(w, q) ==
  /\ QArrives(w, q, "remove", {}, [NoSight EXCEPT !.status = "deleted"], "status")
  /\ qStatus[q] \notin {"none", "deleted"}
  /\ UNCHANGED <<qQuestion, qTags>>

(* RecoverQuestion *)
RecoverQuestion(w, q) ==
  /\ QArrives(w, q, "recover", {}, [NoSight EXCEPT !.status = "available"], "status")
  /\ qStatus[q] = "deleted"
  /\ UNCHANGED <<qQuestion, qTags>>

AfterStatus == [add |-> "look", set |-> "idle", review |-> "settle",
                remove |-> "reject", recover |-> "recover_rels"]

(* UpdateQuestionStatus and the like. *)
WriteQuestionStatus(w) ==
  /\ qpc[w] = "status"
  /\ qpc' = [qpc EXCEPT ![w] = AfterStatus[Op(w)]]
  /\ qStatus' = [qStatus EXCEPT ![On(w)] = qseen[w].status]
  /\ IF Op(w) = "set" THEN QDone(w) ELSE UNCHANGED <<qreq, qseen>>
  /\ UNCHANGED <<pinned, hidden, qReview, qTags, edits, lapses, qHistory>>

SettleQuestionReview(w) ==
  /\ QReturn(w, "settle")
  /\ qReview' = [qReview EXCEPT ![On(w)] =
                   IF qseen[w].status = "available" THEN "approved" ELSE "rejected"]
  /\ UNCHANGED <<qStatus, pinned, hidden, qTags, edits, lapses, qHistory>>

(* A review of a removed question is rejected, whatever was decided. *)
RejectReview(w) ==
  /\ QGoto(w, "reject", "list_all")
  /\ qReview' = [qReview EXCEPT ![On(w)] = IF @ = "none" THEN @ ELSE "rejected"]
  /\ UNCHANGED <<qStatus, pinned, hidden, qTags, qreq, qseen, edits, lapses, qHistory>>

-----------------------------------------------------------------------------
(* UpdateQuestion by somebody whose edits need no review. *)
EditQuestion(w, q, ts) ==
  /\ QArrives(w, q, "edit", ts, NoSight, "look")
  /\ qStatus[q] \notin {"none", "deleted"}
  /\ UNCHANGED <<qQuestion, qTags>>

(* GetTagRelDefaultStatusByObjectID *)
DefaultStatus(q) ==
  IF qStatus[q] # "none" /\ (q \in hidden \/ qStatus[q] = "deleted") THEN "hide" ELSE "available"

(* ObjectChangeTag and CreateOrUpdateTagRelList: the reads in one action, *)
LookAtTags(w) ==
  /\ QGoto(w, "look", "drop")
  /\ qseen' = [qseen EXCEPT ![w].old = TagsOf(On(w)) \ qreq[w].tags,
                            ![w].new = qreq[w].tags \ TagsOf(On(w)),
                            ![w].default = DefaultStatus(On(w)),
                            ![w].refresh = qreq[w].tags \cup TagsOf(On(w))]
  /\ UNCHANGED <<qQuestion, qTags, qreq, edits, lapses, qHistory>>

(* then the relations that are no longer wanted, *)
DropTags(w) ==
  /\ QGoto(w, "drop", "link")
  /\ SetRels(w, {On(w)} \X qseen[w].old, "deleted")
  /\ UNCHANGED <<qQuestion, tagCount, qreq, qseen, edits, lapses, mixed>>

(* and those that were not there or removed; another request may have linked
   them since. *)
LinkTags(w) ==
  /\ QGoto(w, "link", "count")
  /\ SetRels(w, {On(w)} \X qseen[w].new, qseen[w].default)
  /\ UNCHANGED <<qQuestion, tagCount, qreq, qseen, edits, lapses, mixed>>

-----------------------------------------------------------------------------
(* OperationQuestion: what is hidden cannot be pinned, what is pinned cannot be
   hidden. *)
OperationQuestion(w, q, op) ==
  /\ QArrives(w, q, op, {},
              [NoSight EXCEPT !.pin = IF op \in {"pin", "unpin"} THEN op = "pin" ELSE q \in pinned,
                              !.hide = IF op \in {"hide", "show"} THEN op = "hide" ELSE q \in hidden],
              IF op \in {"hide", "show"} THEN op ELSE "operation")
  /\ qStatus[q] # "none"
  /\ op = "pin" => q \notin hidden
  /\ op = "hide" => q \notin pinned
  /\ UNCHANGED <<qQuestion, qTags>>

HideTagRels(w) ==
  /\ QGoto(w, "hide", "list")
  /\ SetRels(w, RelsOf(On(w), {"available"}), "hide")
  /\ UNCHANGED <<qQuestion, tagCount, qreq, qseen, edits, lapses, mixed>>

ShowTagRels(w) ==
  /\ QGoto(w, "show", "list")
  /\ SetRels(w, RelsOf(On(w), {"hide"}), "available")
  /\ UNCHANGED <<qQuestion, tagCount, qreq, qseen, edits, lapses, mixed>>

(* Mutant: only the column that was asked for is written. *)
WriteOneColumn(w) ==
  /\ QReturn(w, "operation")
  /\ pinned' = CASE Op(w) = "pin" -> pinned \cup {On(w)}
                 [] Op(w) = "unpin" -> pinned \ {On(w)}
                 [] OTHER -> pinned
  /\ hidden' = CASE Op(w) = "hide" -> hidden \cup {On(w)}
                 [] Op(w) = "show" -> hidden \ {On(w)}
                 [] OTHER -> hidden
  /\ UNCHANGED <<qStatus, qReview, qTags, edits, lapses, qHistory>>

(* UpdateQuestionOperation writes both columns, one of them as it was read. *)
UpdateQuestionOperation(w) ==
  /\ QReturn(w, "operation")
  /\ pinned' = IF qseen[w].pin THEN pinned \cup {On(w)} ELSE pinned \ {On(w)}
  /\ hidden' = IF qseen[w].hide THEN hidden \cup {On(w)} ELSE hidden \ {On(w)}
  /\ UNCHANGED <<qStatus, qReview, qTags, edits, lapses, qHistory>>

-----------------------------------------------------------------------------
(* Mutant: the relations are removed before they are listed. *)
DropUnlisted(w) ==
  /\ QGoto(w, "list_all", "drop_all")
  /\ SetRels(w, RelsOf(On(w), {"available", "hide"}), "deleted")
  /\ qseen' = [qseen EXCEPT ![w].refresh = {k[2] : k \in {x \in Rels : x[1] = On(w) /\ rel'[x] # "deleted" /\ rel'[x] # "none"}}]
  /\ UNCHANGED <<qQuestion, tagCount, qreq, edits, lapses, mixed>>

(* RemoveQuestion lists the tags and then removes the relations. *)
ListAllTags(w) ==
  /\ QGoto(w, "list_all", "drop_all")
  /\ qseen' = [qseen EXCEPT ![w].refresh = TagsOf(On(w))]
  /\ UNCHANGED <<qQuestion, qTags, qreq, edits, lapses, qHistory>>

RemoveTagRels(w) ==
  /\ QGoto(w, "drop_all", "count")
  /\ SetRels(w, RelsOf(On(w), {"available", "hide", "deleted"}), "deleted")
  /\ UNCHANGED <<qQuestion, tagCount, qreq, qseen, edits, lapses, mixed>>

(* RecoverQuestion makes all relations available, also those that an edit had
   removed and those of a hidden question. *)
RecoverTagRels(w) ==
  /\ QGoto(w, "recover_rels", "list")
  /\ SetRels(w, RelsOf(On(w), {"available", "hide", "deleted"}), "available")
  /\ mixed' = mixed \cup {On(w)}
  /\ UNCHANGED <<qQuestion, tagCount, qreq, qseen, edits, lapses>>

(* RefreshTagCountByQuestionID *)
ListTags(w) ==
  /\ QGoto(w, "list", "count")
  /\ qseen' = [qseen EXCEPT ![w].refresh = TagsOf(On(w))]
  /\ UNCHANGED <<qQuestion, qTags, qreq, edits, lapses, qHistory>>

(* RefreshTagQuestionCount: for one tag after the other, the relations are
   counted, *)
CountTag(w, t) ==
  /\ QGoto(w, "count", "number")
  /\ t \in qseen[w].refresh
  /\ qseen' = [qseen EXCEPT ![w].tag = t, ![w].n = Cardinality(Linked(t))]
  /\ UNCHANGED <<qQuestion, qTags, qreq, edits, lapses, qHistory>>

(* and the number is written. *)
WriteTagCount(w) ==
  LET t == qseen[w].tag IN
    /\ QGoto(w, "number", "count")
    /\ tagCount' = [tagCount EXCEPT ![t] = qseen[w].n]
    /\ staleTags' = IF w \in late THEN staleTags \cup {t} ELSE staleTags \ {t}
    /\ late' = late \cup {v \in Editors \ {w} : qpc[v] # "idle"}
    /\ qseen' = [qseen EXCEPT ![w].refresh = @ \ {t}, ![w].tag = NoTag, ![w].n = 0]
    /\ UNCHANGED <<qQuestion, rel, qreq, edits, lapses, mixed>>

CountedAll(w) ==
  /\ qpc[w] = "count"
  /\ qseen[w].refresh = {}
  /\ IF Op(w) \in {"hide", "show"}
     THEN QGoto(w, "count", "operation") /\ UNCHANGED <<qreq, qseen>>
     ELSE QReturn(w, "count")
  /\ UNCHANGED <<qQuestion, qTags, edits, lapses, qHistory>>

-----------------------------------------------------------------------------
(* An error or a crash ends a request.  After an error AddQuestion removes the
   row again, and leaves its relations. *)
QBreakOff(w) ==
  /\ lapses < MaxLapses
  /\ lapses' = lapses + 1
  /\ qpc[w] # "idle"
  /\ qpc' = [qpc EXCEPT ![w] = "idle"]
  /\ QDone(w)
  /\ \/ UNCHANGED qStatus
     \/ Op(w) = "add" /\ qStatus' = [qStatus EXCEPT ![On(w)] = "none"]
  /\ mixed' = mixed \cup {On(w)}
  /\ staleTags' = staleTags \cup {k[2] : k \in RelsOf(On(w), {"available", "hide", "deleted"})}
  /\ UNCHANGED <<pinned, hidden, qReview, qTags, edits, late>>

QEdit(w) ==
  \/ \E q \in QuestionIds :
       \/ \E ts \in SUBSET Tags : AddQuestion(w, q, ts) \/ EditQuestion(w, q, ts)
       \/ \E st \in {"available", "closed", "deleted"} : SetQuestionStatus(w, q, st)
       \/ \E st \in {"available", "deleted"} : ReviewQuestion(w, q, st)
       \/ \E op \in Operations : OperationQuestion(w, q, op)
       \/ RemoveQuestion(w, q) \/ RecoverQuestion(w, q)
  \/ AddQuestionReview(w) \/ WriteQuestionStatus(w) \/ SettleQuestionReview(w) \/ RejectReview(w)
  \/ LookAtTags(w) \/ DropTags(w) \/ LinkTags(w) \/ HideTagRels(w) \/ ShowTagRels(w)
  \/ UpdateQuestionOperation(w) \/ ListAllTags(w) \/ RemoveTagRels(w) \/ RecoverTagRels(w)
  \/ ListTags(w) \/ (\E t \in Tags : CountTag(w, t)) \/ WriteTagCount(w) \/ CountedAll(w)
  \/ QBreakOff(w)

QNext == \E w \in Editors : QEdit(w)

QSpec == QInit /\ [][QNext]_qVars

-----------------------------------------------------------------------------
QAtRest == \A w \in Editors : qpc[w] = "idle"

(* A pinned question is not hidden, also when one request pins it while another
   one hides it: each writes both columns, as one request left them. *)
PinnedVisible == pinned \cap hidden = {}

(* With no request in progress the number of questions of a tag is that of its
   available relations, whatever requests one after the other did to questions
   and relations; and no relation of a hidden question is among them, also when
   its tags were edited while it was hidden, unless requests for it overlapped
   or broke off, or it was removed and recovered. *)
TagCountsAgree ==
  QAtRest =>
    /\ \A t \in Tags \ staleTags : tagCount[t] = Cardinality(Linked(t))
    /\ \A q \in hidden \ mixed, t \in Tags : rel[<<q, t>>] # "available"
=============================================================================
