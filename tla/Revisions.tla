----------------------------- MODULE Revisions -----------------------------
(***************************************************************************)
(* Edits of questions, answers and tags, and the revisions they leave:     *)
(* UpdateQuestion, Update (answers) and UpdateTag, internal/repo/revision, *)
(* RevisionAudit in internal/service/content/revision_service.go and the   *)
(* reputation of an accepted edit, internal/repo/activity/review_repo.go.  *)
(*                                                                         *)
(* Whoever may edit without review writes the content and records a        *)
(* revision that has passed; everybody else records one that waits.  An    *)
(* audit writes the content of a revision and then settles it.  Each       *)
(* statement is an action; only the reputation is written in a             *)
(* transaction.  The content has two parts, which are written one after    *)
(* the other: the text, and the tags of a question or the name of a tag.   *)
(* revision_id of an object is always its newest revision (AddRevision     *)
(* writes both) and is left out.                                           *)
(***************************************************************************)
EXTENDS Integers, Sequences, FiniteSets, FiniteSetsExt

CONSTANTS Subjects,      (* objects that are edited *)
          KindOf,        (* "question", "answer" or "tag" *)
          NoSubject,
          Texts, Labels, (* the two parts of a content *)
          NoText, NoLabel, (* an empty text; no tags, or an empty name *)
          Suggesters,      (* users who edit *)
          Desks,         (* HTTP requests in progress *)
          MaxDeskWork,   (* bound: requests altogether *)
          MaxSlips       (* bound: failing statements *)

ASSUME RevisionsAssumption ==
  /\ NoSubject \notin Subjects
  /\ KindOf \in [Subjects -> {"question", "answer", "tag"}]
  /\ NoText \in Texts
  /\ NoLabel \in Labels
  /\ MaxDeskWork \in Nat
  /\ MaxSlips \in Nat

Bodies == [text : Texts, label : Labels]
RevisionRows == [content : Bodies, by : Suggesters,
                 status : {"unreviewed", "passed", "rejected"}, rewards : Nat]

VARIABLES body,     (* what each object shows *)
          revisions,   (* its revisions, the oldest first; rewards is the number
                          of rows of activity for the revision *)
          rankLocks,   (* users whose row a transaction has locked *)
          desk,        (* what each request is about and its next statement *)
          deskWork,    (* how many requests have arrived *)
          slips,       (* how many statements have failed *)
          contested    (* history: objects two edits or two audits of which
                          overlapped, or at which a request broke off *)

rVars == <<body, revisions, rankLocks, desk, deskWork, slips, contested>>

EditPCs == {"read", "labels", "text", "second", "add"}
AuditPCs == {"reject", "find", "apply", "apply_second", "pass"}
DeskPCs == {"idle", "reward", "book"} \cup EditPCs \cup AuditPCs

(* n is the revision of an audit; to, by and direct belong to an edit. *)
NoDesk == [pc |-> "idle", subject |-> NoSubject, n |-> 0,
           to |-> CHOOSE c \in Bodies : TRUE, by |-> CHOOSE u \in Suggesters : TRUE,
           direct |-> FALSE]

RTypeOK ==
  /\ body \in [Subjects -> Bodies]
  /\ \A o \in Subjects : \A n \in DOMAIN revisions[o] : revisions[o][n] \in RevisionRows
  /\ rankLocks \subseteq Suggesters
  /\ desk \in [Desks -> [pc : DeskPCs, subject : Subjects \cup {NoSubject}, n : Nat,
                         to : Bodies, by : Suggesters, direct : BOOLEAN]]
  /\ deskWork \in 0..MaxDeskWork
  /\ slips \in 0..MaxSlips
  /\ contested \subseteq Subjects

(* The validator wants a text of an answer. *)
Allowed(o, c) == KindOf[o] = "answer" => c.text # NoText

(* Adding an object records its first revision, whose status, normal, counts as
   passed here.  A tag is added with a name. *)
RInit ==
  /\ \E c \in Bodies, u \in Suggesters :
       /\ \A o \in Subjects : Allowed(o, c) /\ (KindOf[o] = "tag" => c.label # NoLabel)
       /\ body = [o \in Subjects |-> c]
       /\ revisions = [o \in Subjects |->
            <<[content |-> c, by |-> u, status |-> "passed", rewards |-> 0]>>]
  /\ rankLocks = {}
  /\ desk = [w \in Desks |-> NoDesk]
  /\ deskWork = 0
  /\ slips = 0
  /\ contested = {}

-----------------------------------------------------------------------------
DeskOn(o, pcs) == {w \in Desks : desk[w].subject = o /\ desk[w].pc \in pcs}

DeskGoto(w, pc) == desk' = [desk EXCEPT ![w].pc = pc]
DeskDone(w) == desk' = [desk EXCEPT ![w] = NoDesk]

(* A request arrives and overlaps with those on the same object in pcs. *)
DeskArrives(w, job, pcs) ==
  /\ desk[w].pc = "idle"
  /\ deskWork < MaxDeskWork
  /\ deskWork' = deskWork + 1
  /\ desk' = [desk EXCEPT ![w] = job]
  /\ contested' = IF DeskOn(job.subject, pcs) = {} THEN contested
                  ELSE contested \cup {job.subject}
  /\ UNCHANGED <<body, revisions, rankLocks, slips>>

(* The statements of a request leave these alone. *)
DeskRest == UNCHANGED <<deskWork, slips, contested>>

Unreviewed(o) == {n \in DOMAIN revisions[o] : revisions[o][n].status = "unreviewed"}

-----------------------------------------------------------------------------
(* ExistUnreviewedByObjectID lets an edit begin when no revision waits. *)
Edit(w, o, u, c, direct) ==
  /\ Unreviewed(o) = {}
  /\ Allowed(o, c)
  /\ DeskArrives(w, [pc |-> "read", subject |-> o, n |-> 0,
                     to |-> c, by |-> u, direct |-> direct], EditPCs)

AfterReading(w) == DeskGoto(w, IF desk[w].direct THEN "text" ELSE "add")

(* An edit that changes nothing is ignored.  A question has its tags in rows of
   their own, which are read next; an answer has nothing but its text. *)
SameRow(w) ==
  LET now == body[desk[w].subject]
      kind == KindOf[desk[w].subject]
  IN /\ desk[w].to.text = now.text
     /\ kind = "tag" => desk[w].to.label = now.label

SameLabel(w) == desk[w].to.label = body[desk[w].subject].label

Ignored(w, same) == IF same THEN DeskDone(w) ELSE AfterReading(w)

ReadContent(w) ==
  /\ desk[w].pc = "read"
  /\ IF SameRow(w) /\ KindOf[desk[w].subject] = "question"
     THEN DeskGoto(w, "labels")
     ELSE Ignored(w, SameRow(w))
  /\ UNCHANGED <<body, revisions, rankLocks>> /\ DeskRest

ReadLabels(w) ==
  /\ desk[w].pc = "labels"
  /\ Ignored(w, SameLabel(w))
  /\ UNCHANGED <<body, revisions, rankLocks>> /\ DeskRest

(* tagRepo.UpdateTag does not name the columns it updates, and xorm then leaves
   those alone whose new value is empty. *)
UpdateTag(o, t, l) ==
  body' = [body EXCEPT ![o] = [text |-> IF t = NoText THEN @.text ELSE t,
                               label |-> IF l = NoLabel THEN @.label ELSE l]]

(* The row of a tag holds its name, too. *)
WriteText(w) ==
  LET d == desk[w]
  IN /\ d.pc = "text"
     /\ IF KindOf[d.subject] = "tag"
        THEN UpdateTag(d.subject, d.to.text, d.to.label)
        ELSE body' = [body EXCEPT ![d.subject].text = d.to.text]
     /\ DeskGoto(w, "second")
     /\ UNCHANGED <<revisions, rankLocks>> /\ DeskRest

(* The tags of a question; for an answer the time of its question and for a tag
   the name at its synonyms, which are not modelled. *)
WriteLabel(o, c) ==
  body' = IF KindOf[o] = "question" THEN [body EXCEPT ![o].label = c.label] ELSE body

WriteSecond(w) ==
  /\ desk[w].pc = "second"
  /\ WriteLabel(desk[w].subject, desk[w].to)
  /\ DeskGoto(w, "add")
  /\ UNCHANGED <<revisions, rankLocks>> /\ DeskRest

AddRevision(w) ==
  LET d == desk[w]
  IN /\ d.pc = "add"
     /\ revisions' = [revisions EXCEPT ![d.subject] =
          Append(@, [content |-> d.to, by |-> d.by, rewards |-> 0,
                     status |-> IF d.direct THEN "passed" ELSE "unreviewed"])]
     /\ DeskDone(w)
     /\ UNCHANGED <<body, rankLocks>> /\ DeskRest

-----------------------------------------------------------------------------
(* RevisionAudit goes on with a revision that it has found unreviewed.  What it
   is about is looked up, unless it is a tag. *)
AuditJob(o, n, approve) ==
  [NoDesk EXCEPT !.subject = o, !.n = n,
                 !.pc = CASE ~approve -> "reject"
                          [] KindOf[o] = "tag" -> "apply"
                          [] OTHER -> "find"]

(* Mutant: the revision is settled first and its content written afterwards. *)
AuditSettlesFirst(w, o, n, approve) ==
  /\ n \in Unreviewed(o)
  /\ desk[w].pc = "idle"
  /\ deskWork < MaxDeskWork
  /\ deskWork' = deskWork + 1
  /\ desk' = [desk EXCEPT ![w] = AuditJob(o, n, approve)]
  /\ revisions' = [revisions EXCEPT ![o][n].status = "passed"]
  /\ UNCHANGED <<body, rankLocks, slips, contested>>

RevisionAudit(w, o, n, approve) ==
  /\ n \in Unreviewed(o)
  /\ DeskArrives(w, AuditJob(o, n, approve), AuditPCs)

Settle(w, verdict) == revisions' = [revisions EXCEPT ![desk[w].subject][desk[w].n].status = verdict]

Reject(w) ==
  /\ desk[w].pc = "reject"
  /\ Settle(w, "rejected")
  /\ DeskDone(w)
  /\ UNCHANGED <<body, rankLocks>> /\ DeskRest

FindSubject(w) ==
  /\ desk[w].pc = "find"
  /\ DeskGoto(w, "apply")
  /\ UNCHANGED <<body, revisions, rankLocks>> /\ DeskRest

(* The error of the lookup is dropped: nothing is written and the audit goes on
   to settle the revision. *)
FindSubjectFails(w) ==
  /\ desk[w].pc = "find"
  /\ slips < MaxSlips
  /\ slips' = slips + 1
  /\ contested' = contested \cup {desk[w].subject}
  /\ DeskGoto(w, "pass")
  /\ UNCHANGED <<body, revisions, rankLocks, deskWork>>

Audited(w) == revisions[desk[w].subject][desk[w].n].content

(* Of a tag only the text is written, its new name is not. *)
ApplyText(w) ==
  /\ desk[w].pc = "apply"
  /\ IF KindOf[desk[w].subject] = "tag"
     THEN UpdateTag(desk[w].subject, Audited(w).text, NoLabel)
     ELSE body' = [body EXCEPT ![desk[w].subject].text = Audited(w).text]
  /\ DeskGoto(w, "apply_second")
  /\ UNCHANGED <<revisions, rankLocks>> /\ DeskRest

ApplySecond(w) ==
  /\ desk[w].pc = "apply_second"
  /\ WriteLabel(desk[w].subject, Audited(w))
  /\ DeskGoto(w, "pass")
  /\ UNCHANGED <<revisions, rankLocks>> /\ DeskRest

Pass(w) ==
  /\ desk[w].pc = "pass"
  /\ Settle(w, "passed")
  /\ DeskGoto(w, "reward")
  /\ UNCHANGED <<body, rankLocks>> /\ DeskRest

-----------------------------------------------------------------------------
(* ReviewActivityRepo.Review, a transaction: the row of the user is locked, and
   a revision that has brought reputation before brings none again. *)
AuditedBy(w) == revisions[desk[w].subject][desk[w].n].by

(* Mutant: the row of the user is read without FOR UPDATE. *)
LookAtReward(w) ==
  /\ desk[w].pc = "reward"
  /\ IF revisions[desk[w].subject][desk[w].n].rewards > 0
     THEN DeskDone(w) ELSE DeskGoto(w, "book")
  /\ UNCHANGED <<body, revisions, rankLocks>> /\ DeskRest

LockAuthor(w) ==
  /\ desk[w].pc = "reward"
  /\ AuditedBy(w) \notin rankLocks
  /\ IF revisions[desk[w].subject][desk[w].n].rewards > 0
     THEN DeskDone(w) /\ UNCHANGED rankLocks
     ELSE DeskGoto(w, "book") /\ rankLocks' = rankLocks \cup {AuditedBy(w)}
  /\ UNCHANGED <<body, revisions>> /\ DeskRest

(* The commit: the row of activity and, with it, the rank of the user. *)
BookReward(w) ==
  /\ desk[w].pc = "book"
  /\ revisions' = [revisions EXCEPT ![desk[w].subject][desk[w].n].rewards = @ + 1]
  /\ rankLocks' = rankLocks \ {AuditedBy(w)}
  /\ DeskDone(w)
  /\ UNCHANGED body /\ DeskRest

(* A statement fails, or the process stops: the rest of the request is not
   done.  After the status of the revision nobody learns of it. *)
DeskBreaksOff(w) ==
  LET d == desk[w]
  IN /\ d.pc # "idle"
     /\ slips < MaxSlips
     /\ slips' = slips + 1
     /\ contested' = IF d.pc \in {"second", "apply_second", "pass"} \/ (d.pc = "add" /\ d.direct)
                     THEN contested \cup {d.subject} ELSE contested
     /\ rankLocks' = IF d.pc = "book" THEN rankLocks \ {AuditedBy(w)} ELSE rankLocks
     /\ DeskDone(w)
     /\ UNCHANGED <<body, revisions, deskWork>>

-----------------------------------------------------------------------------
DeskSteps(w) ==
  \/ \E o \in Subjects :
       \/ \E u \in Suggesters, c \in Bodies, direct \in BOOLEAN : Edit(w, o, u, c, direct)
       \/ \E n \in Unreviewed(o), approve \in BOOLEAN : RevisionAudit(w, o, n, approve)
  \/ ReadContent(w) \/ ReadLabels(w) \/ WriteText(w) \/ WriteSecond(w) \/ AddRevision(w)
  \/ Reject(w) \/ FindSubject(w) \/ FindSubjectFails(w)
  \/ ApplyText(w) \/ ApplySecond(w) \/ Pass(w)
  \/ LockAuthor(w) \/ BookReward(w) \/ DeskBreaksOff(w)

RNext == \E w \in Desks : DeskSteps(w)
RSpec == RInit /\ [][RNext]_rVars

-----------------------------------------------------------------------------
Passed(o) == {n \in DOMAIN revisions[o] : revisions[o][n].status = "passed"}

(* The revisions that have passed with a text to show: an empty text of a tag is
   recorded and passes, but UpdateTag never writes it. *)
HasText(o, c) == KindOf[o] = "tag" => c.text # NoText
Worded(o) == {n \in Passed(o) : n = 1 \/ HasText(o, revisions[o][n].content)}

(* While nobody works on an object it shows its newest revision that has
   passed, of a tag the newest with a text; and a suggestion that waits is its
   newest revision: an edit begins only after the content of the audit before it
   was written, because the audit writes first and settles afterwards.  Left out
   are objects two edits or two audits of which have overlapped or broken off,
   and the name of a tag, which an audit never writes. *)
TextDecided ==
  \A o \in Subjects \ contested :
    /\ \A n \in Unreviewed(o) : n = Len(revisions[o])
    /\ DeskOn(o, EditPCs \cup AuditPCs) = {} =>
         LET shown == revisions[o][Max(Worded(o))].content
         IN /\ body[o].text = shown.text
            /\ KindOf[o] = "question" => body[o].label = shown.label

(* The author of a suggestion is rewarded at most once for it, however many
   reviewers approve it at the same time or after one another, and for nothing
   that was not applied before. *)
RewardedOnce ==
  \A o \in Subjects : \A n \in DOMAIN revisions[o] :
    /\ revisions[o][n].rewards <= 1
    /\ revisions[o][n].rewards = 1 /\ o \notin contested => revisions[o][n].status = "passed"
=============================================================================
