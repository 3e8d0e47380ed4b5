----------------------------- MODULE MCServices -----------------------------
(* Instances for TLC of the services beside votes, sessions and identity.     *)
(* Each keeps its own tables and cache entries and they share none of them,   *)
(* so that one run checks them all: part says which of them moves in a        *)
(* behaviour, and the others stay as they begin.                              *)
EXTENDS KVStore, MailLinks, Notices, Uploads, Answers, Questions, Revisions, Follows, Badges

CONSTANTS a1, a2,         (* answers *)
          q1, q2,         (* questions *)
          s1, s2,         (* a question and a tag that are edited *)
          asker, other,   (* users *)
          p1, p2          (* users who follow tags *)

(* Both answers are of the user who is not the author of the question. *)
Authors == [a \in {a1, a2} |-> other]

SubjectKinds == [o \in {s1, s2} |-> IF o = s1 THEN "question" ELSE "tag"]

VARIABLE part

allVars == <<part, kvVars, mlVars, nVars, uVars, aVars, qVars, rVars, fVars, bVars>>

(* What may be there at the beginning is tried for the part that moves; of the
   others one beginning is enough. *)
Init ==
  /\ part \in {"kvstore", "mail", "notices", "uploads", "answers", "questions",
               "revisions", "follows", "badges"}
  /\ KVInit
  /\ part # "kvstore" => \A k \in KVKeys : stored[k] = NoRow
  /\ MLInit
  /\ part # "mail" => activated = {}
  /\ \A a \in Addresses : mailOf[FirstAccount] = a => a = CHOOSE b \in Addresses : TRUE
  /\ NInit
  /\ UInit
  /\ AInit
  /\ \A a \in AnswerIds : status[a] = "none" <=> (part # "answers" \/ a # a1)
  /\ QInit
  /\ part # "questions" => \A q \in QuestionIds : qStatus[q] = "none"
  /\ \A q \in QuestionIds, t \in Tags : qStatus[q] # "none" => rel[<<q, t>>] # "none"
  /\ part = "questions" => qStatus[q2] = "available" /\ q2 \notin hidden \cup pinned
  /\ RInit
  /\ body[s1] = CHOOSE c \in Bodies : TRUE
  /\ FInit
  /\ \A r \in follows : part = "follows" /\ r.fan = p1
  /\ BInit
  /\ part # "badges" => single

-----------------------------------------------------------------------------
KV(A) == part = "kvstore" /\ A /\ UNCHANGED <<part, mlVars, nVars, uVars, aVars, qVars,
        rVars, fVars, bVars>>

KVMoves(c) ==
  \/ KV(KVCall(c))
  \/ KV(GetHit(c)) \/ KV(GetMiss(c)) \/ KV(GetCacheError(c))
  \/ KV(GetRow(c)) \/ KV(GetNotFound(c)) \/ KV(GetFill(c)) \/ KV(GetFillLost(c))
  \/ KV(CleanCache(c)) \/ KV(CleanGroup(c)) \/ KV(CleanCacheError(c))
  \/ KV(SetUpdate(c)) \/ KV(SetAffectsNone(c)) \/ KV(SetInsert(c)) \/ KV(SetDuplicate(c))
  \/ KV(DelRows(c))
  \/ KV(TxBegin(c)) \/ KV(TxCommit(c)) \/ KV(TxRollback(c))

ML(A) == part = "mail" /\ A /\ UNCHANGED <<part, kvVars, nVars, uVars, aVars, qVars,
        rVars, fVars, bVars>>

MLSends ==
  \/ \E a \in Addresses : ML(RetrievePassWord(a))
  \/ \E u \in Accounts : ML(UserVerifyEmailSend(u)) \/ ML(NotifyByMail(u)) \/ ML(LatestExpires(u))
  \/ \E u \in Accounts, a \in Addresses : ML(UserChangeEmailSendCode(u, a))
  \/ \E m \in mailing : ML(SetLatest(m)) \/ ML(SetContent(m)) \/ ML(Deliver(m)) \/ ML(MailFails(m))
  \/ \E c \in Codes : ML(CodeExpires(c))

MLMoves(q) ==
  \/ \E a \in Addresses : ML(Register(q, a))
  \/ ML(AddUser(q)) \/ ML(MLBreakOff(q))
  \/ \E e \in Endpoints, c \in Codes : ML(Follow(q, e, c))
  \/ ML(GetCode(q)) \/ ML(NoCode(q)) \/ ML(DeleteCode(q)) \/ ML(AcceptCode(q)) \/ ML(RefuseCode(q))
  \/ ML(FindByEmail(q)) \/ ML(MLUserNotFound(q)) \/ ML(UpdatePass(q)) \/ ML(UpdateEmailStatus(q))
  \/ ML(CheckUnique(q)) \/ ML(EmailDuplicate(q)) \/ ML(UpdateEmail(q))
  \/ ML(UpdateEmailStatusToo(q)) \/ ML(Unsubscribe(q))

-----------------------------------------------------------------------------
Nt(A) == part = "notices" /\ A /\ UNCHANGED <<part, kvVars, mlVars, uVars, aVars, qVars,
        rVars, fVars, bVars>>

NMovesWorker ==
  \/ Nt(Receive) \/ Nt(LookUp) \/ Nt(ReadSum) \/ Nt(UpdateContent) \/ Nt(InsertNotice)
  \/ Nt(LookAtDot) \/ Nt(IncreaseDot) \/ Nt(SetDot) \/ Nt(ReadAlert) \/ Nt(WriteAlert)
  \/ Nt(FanOut)

NMovesSend ==
  \/ \E m \in owed : Nt(SendNote(m))
  \/ \E f \in fans : Nt(SendCopy(f))

NMoves ==
  \/ \E k \in Kinds : Nt(Happens(k))
  \/ Nt(HappensUntold)
  \/ Nt(AddFails)
  \/ \E y \in Types : Nt(ClearRedDot(y)) \/ Nt(ClearUnRead(y))
  \/ \E t \in Tabs :
       \/ \E i \in DOMAIN notices : Nt(ClearIDUnRead(t, i))
       \/ Nt(MarkRead(t)) \/ Nt(ReadAlerts(t)) \/ Nt(RemoveAlert(t))
       \/ Nt(NoDotToDecrease(t)) \/ Nt(DotToDecrease(t)) \/ Nt(DecreaseDot(t))
       \/ Nt(DecreaseFails(t)) \/ Nt(DeleteDot(t))

Up(A) == part = "uploads" /\ A /\ UNCHANGED <<part, kvVars, mlVars, nVars, aVars, qVars,
        rVars, fVars, bVars>>

UMovesJob ==
  \/ Up(StartJob) \/ Up(ReadPage) \/ Up(ReadPageFails) \/ Up(PageDone) \/ Up(KeepFile)
  \/ Up(FoundByURL) \/ Up(UpdateFileRecord) \/ Up(FoundOrphan)
  \/ Up(DeleteFileRecord) \/ Up(DeleteFileRecordFails) \/ Up(MoveFile)

UMoves ==
  \/ Up(SaveUploadedFile) \/ Up(PurgeDeletedFiles) \/ Up(Crash)
  \/ \E f \in Files :
       Up(AddFileRecord(f)) \/ Up(AddFileRecordFails(f)) \/ Up(Age(f)) \/ Up(Cite(f))
  \/ \E f \in Files \cup {NoFile} : Up(ChangeAvatar(f))
  \/ Up(FindOldAvatar) \/ Up(DeleteOldAvatar) \/ Up(MoveOldAvatar) \/ Up(CleanUpFails)
  \/ Up(SaveUserInfo) \/ Up(SaveUserInfoFails)

-----------------------------------------------------------------------------
An(A) == part = "answers" /\ A /\ UNCHANGED <<part, kvVars, mlVars, nVars, uVars, qVars,
        rVars, fVars, bVars>>

AMoves(w) ==
  \/ \E a \in AnswerIds :
       \/ An(InsertAnswer(w, a)) \/ An(RecoverAnswer(w, a))
       \/ \E m \in BOOLEAN : An(RemoveAnswer(w, a, m))
       \/ \E d \in {"available", "deleted"} : An(UpdateReview(w, a, d))
  \/ An(AddAnswerReview(w)) \/ An(AddReviewFails(w)) \/ An(WriteStatus(w)) \/ An(CountAnswers(w))
  \/ An(UpdateAnswerCount(w)) \/ An(UpdateAnswerCountOfReview(w)) \/ An(UpdateReviewStatus(w))
  \/ \E t \in Acceptors, a \in AnswerIds \cup {NoAnswer} : An(AcceptAnswer(w, t, a))
  \/ An(ClearAdopted(w)) \/ An(Adopt(w)) \/ An(UpdateAccepted(w))
  \/ An(FindAcceptRows(w)) \/ An(FindAcceptedRows(w)) \/ An(CancelActivities(w))
  \/ An(SaveActivities(w)) \/ An(LogAndGoOn(w)) \/ An(BreakOff(w))

Qn(A) == part = "questions" /\ A /\ UNCHANGED <<part, kvVars, mlVars, nVars, uVars, aVars,
        rVars, fVars, bVars>>

QMoves(w) ==
  \/ \E q \in QuestionIds :
       \/ \E ts \in SUBSET Tags : Qn(AddQuestion(w, q, ts)) \/ Qn(EditQuestion(w, q, ts))
       \/ \E st \in {"available", "closed", "deleted"} : Qn(SetQuestionStatus(w, q, st))
       \/ \E st \in {"available", "deleted"} : Qn(ReviewQuestion(w, q, st))
       \/ \E op \in Operations : Qn(OperationQuestion(w, q, op))
       \/ Qn(RemoveQuestion(w, q)) \/ Qn(RecoverQuestion(w, q))
  \/ Qn(AddQuestionReview(w)) \/ Qn(WriteQuestionStatus(w)) \/ Qn(SettleQuestionReview(w))
  \/ Qn(RejectReview(w)) \/ Qn(LookAtTags(w)) \/ Qn(DropTags(w)) \/ Qn(LinkTags(w))
  \/ Qn(HideTagRels(w)) \/ Qn(ShowTagRels(w)) \/ Qn(UpdateQuestionOperation(w))
  \/ Qn(ListAllTags(w)) \/ Qn(RemoveTagRels(w)) \/ Qn(RecoverTagRels(w)) \/ Qn(ListTags(w))
  \/ \E t \in Tags : Qn(CountTag(w, t))
  \/ Qn(WriteTagCount(w)) \/ Qn(CountedAll(w)) \/ Qn(QBreakOff(w))

-----------------------------------------------------------------------------
Rv(A) == part = "revisions" /\ A /\ UNCHANGED <<part, kvVars, mlVars, nVars, uVars, aVars, qVars, fVars, bVars>>

RMoves(w) ==
  \/ \E o \in Subjects :
       \/ \E u \in Suggesters, c \in Bodies, direct \in BOOLEAN : Rv(Edit(w, o, u, c, direct))
       \/ \E n \in Unreviewed(o), approve \in BOOLEAN : Rv(RevisionAudit(w, o, n, approve))
  \/ Rv(ReadContent(w)) \/ Rv(ReadLabels(w)) \/ Rv(WriteText(w)) \/ Rv(WriteSecond(w))
  \/ Rv(AddRevision(w)) \/ Rv(Reject(w)) \/ Rv(FindSubject(w)) \/ Rv(FindSubjectFails(w))
  \/ Rv(ApplyText(w)) \/ Rv(ApplySecond(w)) \/ Rv(Pass(w))
  \/ Rv(LockAuthor(w)) \/ Rv(BookReward(w)) \/ Rv(DeskBreaksOff(w))

Fo(A) == part = "follows" /\ A /\ UNCHANGED <<part, kvVars, mlVars, nVars, uVars, aVars, qVars, rVars, bVars>>

FMoves(w) ==
  \/ \E u \in Fans :
       \/ \E o \in Topics : Fo(FollowTag(w, u, o)) \/ Fo(FollowCancel(w, u, o))
       \/ \E wanted \in SUBSET Topics : Fo(UpdateFollowTags(w, u, wanted))
  \/ \E o \in Topics : Fo(FindNoRow(w, o)) \/ Fo(FindRow(w, o)) \/ Fo(EditTag(w, o))
  \/ Fo(WriteRow(w)) \/ Fo(FollowDone(w))
  \/ \E s, t \in Topics : Fo(MergeTag(w, s, t))
  \/ Fo(ListFollowers(w)) \/ Fo(LookAtTarget(w)) \/ Fo(MoveFollowers(w))
  \/ Fo(WriteTag(w)) \/ Fo(CallFails(w))

Ba(A) == part = "badges" /\ A /\ UNCHANGED <<part, kvVars, mlVars, nVars, uVars, aVars, qVars, rVars, fVars>>

BMoves ==
  \/ \E u \in Winners, k \in AwardKeys : Ba(HandleEvent(u, k))
  \/ Ba(LookAtBadge) \/ Ba(CheckIsAward) \/ Ba(AwardBadgeForUser) \/ Ba(AwardFails)
  \/ \E a \in Admins :
       \/ \E on \in BOOLEAN : Ba(UpdateStatus(a, on))
       \/ Ba(WriteBadgeStatus(a)) \/ Ba(CountAwards(a)) \/ Ba(UpdateAwardCount(a))
       \/ Ba(SwitchFails(a))
  \/ \E u \in Winners : Ba(DeleteUserBadgeAward(u))

-----------------------------------------------------------------------------
Next ==
  \/ \E c \in KVCallers : KVMoves(c)
  \/ \E k \in KVKeys : KV(KVExpire(k))
  \/ MLSends
  \/ \E q \in Clients : MLMoves(q)
  \/ NMovesWorker \/ NMovesSend \/ NMoves
  \/ UMovesJob \/ UMoves
  \/ \E w \in Workers : AMoves(w)
  \/ \E u \in Writers : An(RemoveAllUserAnswer(u))
  \/ \E w \in Editors : QMoves(w)
  \/ \E w \in Desks : RMoves(w)
  \/ \E w \in Calls : FMoves(w)
  \/ BMoves

(* The fairness of NFairSpec and of UFairSpec. *)
Spec ==
  /\ Init /\ [][Next]_allVars
  /\ WF_allVars(Nt(NWorker))
  /\ WF_allVars(Nt(NSends))
  /\ WF_allVars(Up(UJob))
=============================================================================
