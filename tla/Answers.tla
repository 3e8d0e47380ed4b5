------------------------------ MODULE Answers ------------------------------
(***************************************************************************)
(* The answers of one question: internal/service/content/                  *)
(* answer_service.go, the review of an answer in                           *)
(* internal/service/review/review_service.go, and the reputation of an     *)
(* acceptance in internal/repo/activity/answer_repo.go.                    *)
(*                                                                         *)
(* A request is a sequence of statements, each of them an action; only the *)
(* reputation is written in transactions.  Requests overlap, a statement   *)
(* may fail, and the number of answers and the accepted answer are kept on *)
(* the question as well as on the answers.                                 *)
(***************************************************************************)
EXTENDS Integers, FiniteSets, FiniteSetsExt

CONSTANTS AnswerIds,      (* rows the table answer may get *)
          Writers,        (* users *)
          AuthorOf,       (* the author of each answer *)
          Asker,          (* the author of the question *)
          Acceptors,      (* users who may accept an answer *)
          NoAnswer,       (* accepted_answer_id of a question without one *)
          Workers,        (* HTTP requests in progress *)
          RankOfAccept,   (* answer.accept, for the author of the question *)
          RankOfAccepted, (* answer.accepted, for the author of the answer *)
          MaxWork,        (* bound: requests altogether *)
          MaxBreaks       (* bound: failing statements *)

ASSUME AnswersAssumption ==
  /\ NoAnswer \notin AnswerIds /\ IsFiniteSet(AnswerIds) /\ IsFiniteSet(Acceptors)
  /\ AuthorOf \in [AnswerIds -> Writers]
  /\ Asker \in Writers
  /\ RankOfAccept \in Nat /\ RankOfAccepted \in Nat
  /\ MaxWork \in Nat
  /\ MaxBreaks \in Nat

Statuses == {"available", "pending", "deleted"}

(* Rows of the table activity about an acceptance. *)
ActRows == [type : {"accept", "accepted"}, trigger : Acceptors, answer : AnswerIds]

UserOf(x) == IF x.type = "accept" THEN Asker ELSE AuthorOf[x.answer]

(* The author of the question gets nothing for an answer of their own, and
   neither for accepting it. *)
RankOf == [x \in ActRows |-> CASE AuthorOf[x.answer] = Asker -> 0
                              [] x.type = "accept" -> RankOfAccept
                              [] OTHER -> RankOfAccepted]

VARIABLES status,       (* column status of the answers *)
          adopted,      (* answers whose column adopted says they are accepted *)
          review,       (* the status of the review of each answer *)
          acceptedId,   (* accepted_answer_id of the question *)
          answerCount,  (* answer_count of the question *)
          acts,         (* the rows about acceptances *)
          gained,       (* what each user got and lost in rank *)
          apc,          (* the next statement of each request *)
          areq,         (* what each request is about *)
          aseen,        (* what it has read *)
          work,         (* how many requests have arrived *)
          breaks,       (* how many statements have failed *)
          stale,        (* history: answerCount was written from an old count *)
          disturbed,    (* history: acceptances overlapped, or one broke off *)
          torn,         (* history: a cancellation looked up one row of an
                           acceptance before it and the other one after it *)
          unreviewed    (* history: answers whose review was not added, or was
                           settled before the answer was put on hold *)

aQuestion == <<acceptedId, answerCount>>
aAnswers == <<status, adopted, review>>
aRanks == <<acts, gained>>
aHistory == <<stale, disturbed, torn, unreviewed>>
aVars == <<aQuestion, aAnswers, aRanks, apc, areq, aseen, work, breaks, aHistory>>

APCs == {"idle", "ask", "status", "count", "write", "settle",
         "clear", "adopt", "question", "find", "find_too", "cancel", "reward"}
Ops == {"none", "insert", "remove", "recover", "review", "accept"}

NoWork == [op |-> "none", answer |-> NoAnswer, by |-> Asker]
NothingSeen == [status |-> "deleted", count |-> 0, late |-> FALSE,
                old |-> NoAnswer, rows |-> {}, live |-> {}]

ATypeOK ==
  /\ status \in [AnswerIds -> Statuses \cup {"none"}]
  /\ adopted \subseteq AnswerIds
  /\ review \in [AnswerIds -> {"none", "pending", "approved", "rejected"}]
  /\ acceptedId \in AnswerIds \cup {NoAnswer}
  /\ answerCount \in 0..Cardinality(AnswerIds)
  /\ acts \in [ActRows -> {"none", "live", "cancelled"}]
  /\ gained \in [Writers -> Int]
  /\ apc \in [Workers -> APCs]
  /\ areq \in [Workers -> [op : Ops, answer : AnswerIds \cup {NoAnswer},
                           by : Acceptors \cup {Asker}]]
  /\ \A w \in Workers :
       /\ aseen[w].status \in Statuses
       /\ aseen[w].count \in 0..Cardinality(AnswerIds)
       /\ aseen[w].late \in BOOLEAN
       /\ aseen[w].old \in AnswerIds \cup {NoAnswer}
       /\ aseen[w].rows \subseteq ActRows
       /\ aseen[w].live \subseteq ActRows
  /\ work \in 0..MaxWork
  /\ breaks \in 0..MaxBreaks
  /\ stale \in BOOLEAN
  /\ disturbed \in BOOLEAN
  /\ torn \in BOOLEAN
  /\ unreviewed \subseteq AnswerIds

AvailableAnswers == {a \in AnswerIds : status[a] = "available"}

AInit ==
  /\ status \in [AnswerIds -> {"none", "available"}]
  /\ adopted = {}
  /\ review = [a \in AnswerIds |-> "none"]
  /\ acceptedId = NoAnswer
  /\ answerCount = Cardinality(AvailableAnswers)
  /\ acts = [x \in ActRows |-> "none"]
  /\ gained = [u \in Writers |-> 0]
  /\ apc = [w \in Workers |-> "idle"]
  /\ areq = [w \in Workers |-> NoWork]
  /\ aseen = [w \in Workers |-> NothingSeen]
  /\ work = 0
  /\ breaks = 0
  /\ stale = FALSE
  /\ disturbed = FALSE
  /\ torn = FALSE
  /\ unreviewed = {}

-----------------------------------------------------------------------------
AGoto(w, from, to) == apc[w] = from /\ apc' = [apc EXCEPT ![w] = to]

AReturn(w, from) ==
  /\ AGoto(w, from, "idle")
  /\ areq' = [areq EXCEPT ![w] = NoWork]
  /\ aseen' = [aseen EXCEPT ![w] = NothingSeen]

Answer(w) == areq[w].answer

Arrives(w, r, to) ==
  /\ AGoto(w, "idle", to)
  /\ work < MaxWork
  /\ work' = work + 1
  /\ areq' = [areq EXCEPT ![w] = r]

(* Another request is changing the status of the same answer. *)
Inserting(w, a) == \E v \in Workers \ {w} :
                     areq[v].op = "insert" /\ Answer(v) = a /\ apc[v] = "status"

-----------------------------------------------------------------------------
(* Insert: the answer is on hold at first. *)
InsertAnswer(w, a) ==
  /\ Arrives(w, [op |-> "insert", answer |-> a, by |-> Asker], "ask")
  /\ status[a] = "none"
  /\ status' = [status EXCEPT ![a] = "pending"]
  /\ UNCHANGED <<aQuestion, adopted, review, aRanks, aseen, breaks, aHistory>>

(* AddAnswerReview: the reviewers decide; an answer on hold gets a review. *)
AddAnswerReview(w) ==
  /\ AGoto(w, "ask", "status")
  /\ \E d \in Statuses :
       /\ aseen' = [aseen EXCEPT ![w].status = d]
       /\ review' = IF d = "pending" THEN [review EXCEPT ![Answer(w)] = "pending"] ELSE review
  /\ UNCHANGED <<aQuestion, status, adopted, aRanks, areq, work, breaks, aHistory>>

(* An error is logged: the answer is on hold and no reviewer will see it. *)
AddReviewFails(w) ==
  /\ AGoto(w, "ask", "status")
  /\ breaks < MaxBreaks
  /\ breaks' = breaks + 1
  /\ aseen' = [aseen EXCEPT ![w].status = "pending"]
  /\ unreviewed' = unreviewed \cup {Answer(w)}
  /\ UNCHANGED <<aQuestion, aAnswers, aRanks, areq, work, stale, disturbed, torn>>

(* RemoveAnswer.  Only a moderator may remove an accepted answer. *)
RemoveAnswer(w, a, moderator) ==
  /\ Arrives(w, [op |-> "remove", answer |-> a, by |-> Asker], "status")
  /\ status[a] \notin {"none", "deleted"}
  /\ moderator \/ a \notin adopted
  /\ aseen' = [aseen EXCEPT ![w].status = "deleted"]
  /\ UNCHANGED <<aQuestion, aAnswers, aRanks, breaks, aHistory>>

RecoverAnswer(w, a) ==
  /\ Arrives(w, [op |-> "recover", answer |-> a, by |-> Asker], "status")
  /\ status[a] = "deleted"
  /\ aseen' = [aseen EXCEPT ![w].status = "available"]
  /\ UNCHANGED <<aQuestion, aAnswers, aRanks, breaks, aHistory>>

Outcome(d) == IF d = "available" THEN "approved" ELSE "rejected"

(* Mutant: the review is settled before its answer. *)
SettleFirst(w, a, d) ==
  /\ Arrives(w, [op |-> "review", answer |-> a, by |-> Asker], "status")
  /\ review[a] = "pending"
  /\ review' = [review EXCEPT ![a] = Outcome(d)]
  /\ aseen' = [aseen EXCEPT ![w].status = d]
  /\ UNCHANGED <<aQuestion, status, adopted, aRanks, breaks, aHistory>>

(* UpdateReview: the answer first, *)
UpdateReview(w, a, d) ==
  /\ Arrives(w, [op |-> "review", answer |-> a, by |-> Asker], "status")
  /\ review[a] = "pending"
  /\ aseen' = [aseen EXCEPT ![w].status = d]
  /\ UNCHANGED <<aQuestion, aAnswers, aRanks, breaks, aHistory>>

(* History: a count that a request has read and not yet written is late when an
   answer changes or another count is written in the meantime. *)
MakeLate(seen) ==
  [v \in Workers |-> IF apc[v] = "write" THEN [seen[v] EXCEPT !.late = TRUE] ELSE seen[v]]

(* UpdateAnswerStatus, or the status column of RemoveAnswer and RecoverAnswer,
   whatever the status is by now. *)
WriteStatus(w) ==
  /\ AGoto(w, "status", "count")
  /\ status' = [status EXCEPT ![Answer(w)] = aseen[w].status]
  /\ aseen' = MakeLate(aseen)
  /\ unreviewed' = IF areq[w].op = "review" /\ Inserting(w, Answer(w))
                   THEN unreviewed \cup {Answer(w)} ELSE unreviewed
  /\ UNCHANGED <<aQuestion, adopted, review, aRanks, areq, work, breaks, stale, disturbed, torn>>

(* Mutant: what is on hold is counted as well. *)
NotDeleted == {a \in AnswerIds : status[a] \notin {"none", "deleted"}}

(* The answers that GetCountByQuestionID counts. *)
Counted == AvailableAnswers

CountAnswers(w) ==
  /\ AGoto(w, "count", "write")
  /\ aseen' = [aseen EXCEPT ![w].count = Cardinality(Counted)]
  /\ UNCHANGED <<aQuestion, aAnswers, aRanks, areq, work, breaks, aHistory>>

(* A review goes on; every other request is done. *)
WriteCount(w) ==
  /\ answerCount' = aseen[w].count
  /\ stale' = aseen[w].late
  /\ UNCHANGED <<acceptedId, aAnswers, aRanks, work, breaks, disturbed, torn, unreviewed>>

UpdateAnswerCount(w) ==
  /\ AGoto(w, "write", "idle")
  /\ areq[w].op # "review"
  /\ areq' = [areq EXCEPT ![w] = NoWork]
  /\ aseen' = [MakeLate(aseen) EXCEPT ![w] = NothingSeen]
  /\ WriteCount(w)

UpdateAnswerCountOfReview(w) ==
  /\ AGoto(w, "write", "settle")
  /\ areq[w].op = "review"
  /\ aseen' = [MakeLate(aseen) EXCEPT ![w] = [@ EXCEPT !.late = FALSE]]
  /\ WriteCount(w)
  /\ UNCHANGED areq

(* then the review. *)
UpdateReviewStatus(w) ==
  /\ AReturn(w, "settle")
  /\ review' = [review EXCEPT ![Answer(w)] = Outcome(aseen[w].status)]
  /\ UNCHANGED <<aQuestion, status, adopted, aRanks, work, breaks, aHistory>>

(* The administrator removes everything a user has posted; no count follows. *)
RemoveAllUserAnswer(u) ==
  /\ work < MaxWork
  /\ work' = work + 1
  /\ \E a \in AnswerIds : AuthorOf[a] = u /\ status[a] \notin {"none", "deleted"}
  /\ status' = [a \in AnswerIds |->
                  IF AuthorOf[a] = u /\ status[a] # "none" THEN "deleted" ELSE status[a]]
  /\ stale' = TRUE
  /\ aseen' = MakeLate(aseen)
  /\ UNCHANGED <<aQuestion, adopted, review, aRanks, apc, areq, breaks, disturbed, torn, unreviewed>>

-----------------------------------------------------------------------------
(* History: acceptances of the question overlap. *)
Accepting(w) == \E v \in Workers \ {w} : areq[v].op = "accept"

(* AcceptAnswer, also of no answer; an answer need not be available. *)
AcceptAnswer(w, t, a) ==
  /\ Arrives(w, [op |-> "accept", answer |-> a, by |-> t], "clear")
  /\ acceptedId # a
  /\ a # NoAnswer => status[a] # "none"
  /\ aseen' = [aseen EXCEPT ![w].old = acceptedId]
  /\ disturbed' = (disturbed \/ Accepting(w))
  /\ UNCHANGED <<aQuestion, aAnswers, aRanks, breaks, stale, torn, unreviewed>>

(* Mutant: the answer that was accepted so far is not cleared. *)
ClearNothing(w) ==
  /\ AGoto(w, "clear", IF Answer(w) = NoAnswer THEN "question" ELSE "adopt")
  /\ UNCHANGED <<aQuestion, aAnswers, aRanks, areq, aseen, work, breaks, aHistory>>

(* UpdateAcceptedStatus: none of the answers is accepted, *)
ClearAdopted(w) ==
  /\ AGoto(w, "clear", IF Answer(w) = NoAnswer THEN "question" ELSE "adopt")
  /\ adopted' = {}
  /\ UNCHANGED <<aQuestion, status, review, aRanks, areq, aseen, work, breaks, aHistory>>

(* then this one is. *)
Adopt(w) ==
  /\ AGoto(w, "adopt", "question")
  /\ adopted' = adopted \cup {Answer(w)}
  /\ UNCHANGED <<aQuestion, status, review, aRanks, areq, aseen, work, breaks, aHistory>>

(* The answer whose reputation is taken back is the one that the question had
   when the request began. *)
UpdateAccepted(w) ==
  /\ AGoto(w, "question", IF aseen[w].old = NoAnswer THEN "reward" ELSE "find")
  /\ acceptedId' = Answer(w)
  /\ UNCHANGED <<answerCount, aAnswers, aRanks, areq, aseen, work, breaks, aHistory>>

(* getExistActivity reads the rows of one type, then those of the other. *)
RowsAbout(a, type) == {x \in ActRows : x.answer = a /\ x.type = type /\ acts[x] # "none"}

See(w, new) ==
  aseen' = [aseen EXCEPT ![w].rows = @ \cup new,
                         ![w].live = @ \cup {x \in new : acts[x] = "live"}]

FindAcceptRows(w) ==
  /\ AGoto(w, "find", "find_too")
  /\ See(w, RowsAbout(aseen[w].old, "accept"))
  /\ UNCHANGED <<aQuestion, aAnswers, aRanks, areq, work, breaks, aHistory>>

FindAcceptedRows(w) ==
  /\ AGoto(w, "find_too", "cancel")
  /\ See(w, RowsAbout(aseen[w].old, "accepted"))
  /\ UNCHANGED <<aQuestion, aAnswers, aRanks, areq, work, breaks, aHistory>>

(* What rows were worth to a user. *)
Worth(rows, u) == MapThenSumSet(LAMBDA x : RankOf[x], {x \in rows : UserOf(x) = u})

(* Mutant: a row is taken back that was taken back by someone else meanwhile. *)
LiveWhenFound(w) == aseen[w].live

(* The rows that are still live, of users whose rows were live when they were
   looked up: only those users are locked and lose what they got. *)
ToTakeBack(w) ==
  {x \in aseen[w].rows : acts[x] = "live" /\ \E y \in aseen[w].live : UserOf(y) = UserOf(x)}

(* SaveCancelAcceptAnswerActivity; nothing happens when no row was live. *)
CancelActivities(w) ==
  /\ AGoto(w, "cancel", "reward")
  /\ acts' = IF aseen[w].live = {} THEN acts
             ELSE [x \in ActRows |-> IF x \in aseen[w].rows THEN "cancelled" ELSE acts[x]]
  /\ gained' = [u \in Writers |-> gained[u] - Worth(ToTakeBack(w), u)]
  /\ torn' = (torn \/ \E x \in aseen[w].live, y \in ActRows :
                        y.trigger = x.trigger /\ y.answer = x.answer /\ y \notin aseen[w].live)
  /\ UNCHANGED <<aQuestion, aAnswers, areq, aseen, work, breaks, stale, disturbed, unreviewed>>

(* SaveAcceptAnswerActivity, if there is an answer: a row is inserted or enabled
   again, unless it is live. *)
RowsOf(w) == {x \in ActRows : x.answer = Answer(w) /\ x.trigger = areq[w].by}

SaveActivities(w) ==
  /\ AReturn(w, "reward")
  /\ gained' = [u \in Writers |->
                  gained[u] + Worth({x \in RowsOf(w) : acts[x] # "live"}, u)]
  /\ acts' = [x \in ActRows |-> IF x \in RowsOf(w) THEN "live" ELSE acts[x]]
  /\ UNCHANGED <<aQuestion, aAnswers, work, breaks, aHistory>>

-----------------------------------------------------------------------------
(* A statement fails: errors of the question, of the counts and of the
   reputation are logged and the request goes on, *)
GoesOn == [question |-> "find", find |-> "reward", find_too |-> "reward", cancel |-> "reward"]

LogAndGoOn(w) ==
  /\ breaks < MaxBreaks
  /\ breaks' = breaks + 1
  /\ apc[w] \in DOMAIN GoesOn
  /\ apc' = [apc EXCEPT ![w] = GoesOn[apc[w]]]
  /\ disturbed' = TRUE
  /\ UNCHANGED <<aQuestion, aAnswers, aRanks, areq, aseen, work, stale, torn, unreviewed>>

(* any other ends it, and so does a crash of the process. *)
BreakOff(w) ==
  /\ breaks < MaxBreaks
  /\ breaks' = breaks + 1
  /\ apc[w] # "idle"
  /\ apc' = [apc EXCEPT ![w] = "idle"]
  /\ areq' = [areq EXCEPT ![w] = NoWork]
  /\ aseen' = [aseen EXCEPT ![w] = NothingSeen]
  /\ disturbed' = (disturbed \/ areq[w].op = "accept")
  /\ stale' = (stale \/ apc[w] \in {"count", "write"})
  /\ unreviewed' = IF areq[w].op = "insert" /\ review[Answer(w)] = "none"
                   THEN unreviewed \cup {Answer(w)} ELSE unreviewed
  /\ UNCHANGED <<aQuestion, aAnswers, aRanks, work, torn>>

-----------------------------------------------------------------------------
AAnswering(w) ==
  \/ \E a \in AnswerIds :
       \/ InsertAnswer(w, a) \/ RecoverAnswer(w, a)
       \/ \E m \in BOOLEAN : RemoveAnswer(w, a, m)
       \/ \E d \in {"available", "deleted"} : UpdateReview(w, a, d)
  \/ AddAnswerReview(w) \/ AddReviewFails(w) \/ WriteStatus(w) \/ CountAnswers(w)
  \/ UpdateAnswerCount(w) \/ UpdateAnswerCountOfReview(w) \/ UpdateReviewStatus(w)

AAccepting(w) ==
  \/ \E t \in Acceptors, a \in AnswerIds \cup {NoAnswer} : AcceptAnswer(w, t, a)
  \/ ClearAdopted(w) \/ Adopt(w) \/ UpdateAccepted(w)
  \/ FindAcceptRows(w) \/ FindAcceptedRows(w) \/ CancelActivities(w) \/ SaveActivities(w)

ANext ==
  \/ \E w \in Workers : AAnswering(w) \/ AAccepting(w) \/ LogAndGoOn(w) \/ BreakOff(w)
  \/ \E u \in Writers : RemoveAllUserAnswer(u)

ASpec == AInit /\ [][ANext]_aVars

-----------------------------------------------------------------------------
AtRest == \A w \in Workers : apc[w] = "idle"

(* With no request in progress, the column of the question, the columns of the
   answers and the rows about acceptances name the same answer, whatever was
   inserted, removed, recovered or reviewed meanwhile, unless two acceptances
   overlapped or one broke off. *)
AcceptanceAgrees ==
  AtRest /\ ~disturbed =>
    /\ adopted = {acceptedId} \ {NoAnswer}
    /\ \A x \in ActRows : acts[x] = "live" => x.answer = acceptedId
    /\ acceptedId # NoAnswer =>
         \A y \in {"accept", "accepted"} :
           \E t \in Acceptors : acts[[type |-> y, trigger |-> t, answer |-> acceptedId]] = "live"

(* What each user got in rank is what their live rows are worth, also when
   acceptances of the same answer overlap or break off. *)
GainMatchesRows ==
  ~torn => \A u \in Writers : gained[u] = Worth({x \in ActRows : acts[x] = "live"}, u)

(* With no request in progress, answer_count is the number of available answers,
   unless the request that wrote it last had counted before another one changed
   an answer or wrote its own count, or a whole user was removed. *)
CountAgrees == AtRest /\ ~stale => answerCount = Cardinality(AvailableAnswers)

(* An answer on hold has a review that waits for a decision, even when requests
   break off: it is not lost.  Exceptions are an error between the answer and
   its review, and a reviewer who decides before the answer is put on hold. *)
PendingReviewed ==
  AtRest => \A a \in AnswerIds \ unreviewed : status[a] = "pending" => review[a] = "pending"
=============================================================================
