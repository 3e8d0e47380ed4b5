------------------------------ MODULE Uploads ------------------------------
(***************************************************************************)
(* Uploaded files and the job that clears those that nothing refers to:    *)
(* internal/service/uploader/upload.go,                                    *)
(* internal/service/file_record/file_record_service.go with the job table  *)
(* of internal/base/cron/cron.go, and the change of an avatar in           *)
(* internal/service/content/user_service.go.                               *)
(*                                                                         *)
(* A file is on disk, has a record, and is referred to by a revision of a  *)
(* post (its URL occurs in the text) or by a user's avatar.  The files are *)
(* numbered in the order of their records, which is the order of a page.   *)
(* Every statement and every operation on the disk is one action; the      *)
(* process may stop between any two.                                       *)
(***************************************************************************)
EXTENDS Integers, FiniteSets, FiniteSetsExt

CONSTANTS FileCount,    (* bound: files uploaded *)
          AvatarFiles,  (* those of them that are avatars *)
          PageSize,     (* of GetFileRecordPage *)
          MaxMishaps,   (* bound: failing statements, moves, and crashes *)
          MaxChanges    (* bound: changes of the avatar *)

Files == 1..FileCount
NoFile == 0

ASSUME UploadsAssumption ==
  /\ FileCount \in Nat
  /\ AvatarFiles \subseteq Files
  /\ PageSize \in Nat \ {0}
  /\ MaxMishaps \in Nat
  /\ MaxChanges \in Nat

VARIABLES record,     (* column status of the file records *)
          place,      (* where the file is on disk *)
          uploading,  (* files saved to disk whose record is not added yet *)
          uploaded,   (* how many uploads have begun *)
          aged,       (* files whose record is older than 48 hours *)
          linked,     (* records whose object_id is set *)
          cited,      (* files whose URL occurs in a revision *)
          avatar,     (* the file the user row refers to *)
          jpc,        (* the next statement of the clean-up job *)
          page,       (* its page number *)
          todo,       (* files of the page it has not looked at *)
          victim,     (* the file it is about to delete *)
          upc,        (* the next statement of a change of the avatar *)
          change,     (* the files it replaces and installs *)
          changes,    (* how many changes there were *)
          mishaps,    (* how often something failed *)
          risked      (* history: files referred to after they were looked up,
                         or replaced by a request that failed afterwards *)

disk == <<record, place>>
uploads == <<uploading, uploaded, aged>>
references == <<linked, cited, avatar>>
job == <<jpc, page, todo, victim>>
avatarRequest == <<upc, change, changes>>
uVars == <<disk, uploads, references, job, avatarRequest, mishaps, risked>>

UTypeOK ==
  /\ record \in [Files -> {"none", "available", "deleted"}]
  /\ place \in [Files -> {"absent", "upload", "trash"}]
  /\ uploading \subseteq Files
  /\ uploaded \in 0..FileCount
  /\ aged \subseteq Files
  /\ linked \subseteq Files
  /\ cited \subseteq Files
  /\ avatar \in Files \cup {NoFile}
  /\ jpc \in {"idle", "page", "files", "link", "delete", "move"}
  /\ page \in Nat
  /\ todo \subseteq Files
  /\ victim \in Files \cup {NoFile}
  /\ upc \in {"idle", "find", "delete", "move", "save"}
  /\ change \in [old : Files \cup {NoFile}, new : Files \cup {NoFile}]
  /\ changes \in 0..MaxChanges
  /\ mishaps \in 0..MaxMishaps
  /\ risked \subseteq Files

UInit ==
  /\ record = [f \in Files |-> "none"]
  /\ place = [f \in Files |-> "absent"]
  /\ uploading = {}
  /\ uploaded = 0
  /\ aged = {}
  /\ linked = {}
  /\ cited = {}
  /\ avatar = NoFile
  /\ jpc = "idle"
  /\ page = 1
  /\ todo = {}
  /\ victim = NoFile
  /\ upc = "idle"
  /\ change = [old |-> NoFile, new |-> NoFile]
  /\ changes = 0
  /\ mishaps = 0
  /\ risked = {}

Mishap == mishaps < MaxMishaps /\ mishaps' = mishaps + 1
Available == {f \in Files : record[f] = "available"}
Posts == Files \ AvatarFiles

-----------------------------------------------------------------------------
(* An upload saves the file and then adds its record. *)
SaveUploadedFile ==
  /\ uploaded < FileCount
  /\ uploaded' = uploaded + 1
  /\ place' = [place EXCEPT ![uploaded + 1] = "upload"]
  /\ uploading' = uploading \cup {uploaded + 1}
  /\ UNCHANGED <<record, aged, references, job, avatarRequest, mishaps, risked>>

AddFileRecord(f) ==
  /\ f \in uploading
  /\ record' = [record EXCEPT ![f] = "available"]
  /\ uploading' = uploading \ {f}
  /\ UNCHANGED <<place, uploaded, aged, references, job, avatarRequest, mishaps, risked>>

(* The error is logged and the URL returned all the same: no job will ever see
   this file. *)
AddFileRecordFails(f) ==
  /\ f \in uploading
  /\ Mishap
  /\ uploading' = uploading \ {f}
  /\ UNCHANGED <<disk, uploaded, aged, references, job, avatarRequest, risked>>

(* 48 hours pass. *)
Age(f) ==
  /\ f \in Available \ aged
  /\ aged' = aged \cup {f}
  /\ UNCHANGED <<disk, uploading, uploaded, references, job, avatarRequest, mishaps, risked>>

(* A post whose text contains the URL is saved with a revision, maybe from a
   draft that is days old. *)
Doomed(f) == record[f] = "deleted" \/ f = victim

Cite(f) ==
  /\ f \in (Posts \cap 1..uploaded) \ (cited \cup uploading)
  /\ cited' = cited \cup {f}
  /\ risked' = IF Doomed(f) THEN risked \cup {f} ELSE risked
  /\ UNCHANGED <<disk, uploads, linked, avatar, job, avatarRequest, mishaps>>

-----------------------------------------------------------------------------
(* CleanOrphanUploadFiles. *)
JGoto(from, to) == jpc = from /\ jpc' = to

(* Mutant: pages are counted from 0 in the code and from 1 in the query. *)
SecondPage == 2

FirstPage == 1

StartJob ==
  /\ JGoto("idle", "page")
  /\ page' = FirstPage
  /\ UNCHANGED <<disk, uploads, references, todo, victim, avatarRequest, mishaps, risked>>

(* The n-th page of what is available now: records that were deleted since the
   last page was read move the others up. *)
PageOf(n) ==
  {f \in Available :
     Cardinality({g \in Available : g <= f}) \in ((n - 1) * PageSize + 1)..(n * PageSize)}

ReadPage ==
  /\ JGoto("page", IF PageOf(page) = {} THEN "idle" ELSE "files")
  /\ todo' = PageOf(page)
  /\ page' = IF PageOf(page) = {} THEN 1 ELSE page + 1
  /\ UNCHANGED <<disk, uploads, references, victim, avatarRequest, mishaps, risked>>

(* An error ends the round. *)
ReadPageFails ==
  /\ JGoto("page", "idle")
  /\ Mishap
  /\ page' = 1
  /\ UNCHANGED <<disk, uploads, references, todo, victim, avatarRequest, risked>>

PageDone ==
  /\ JGoto("files", "page")
  /\ todo = {}
  /\ UNCHANGED <<disk, uploads, references, page, todo, victim, avatarRequest, mishaps, risked>>

(* Mutant: the revisions are not asked. *)
CitedByNone(f) == FALSE

(* GetLastRevisionByObjectID or GetLastRevisionByFileURL finds a revision. *)
InRevision(f) == f \in linked \/ f \in cited

(* IsAvatarFileUsed. *)
InUse(f) == IF f \in AvatarFiles THEN avatar = f ELSE InRevision(f)

(* Younger than 48 hours, in use, or the look-up failed. *)
KeepFile ==
  /\ jpc = "files"
  /\ todo # {}
  /\ LET f == Min(todo) IN
       /\ todo' = todo \ {f}
       /\ \/ f \notin aged /\ UNCHANGED mishaps
          \/ InUse(f) /\ f \in AvatarFiles \cup linked /\ UNCHANGED mishaps
          \/ f \in aged /\ Mishap
  /\ UNCHANGED <<disk, uploads, references, jpc, page, victim, avatarRequest, risked>>

(* A revision has the URL: its object becomes the object of the record. *)
FoundByURL ==
  /\ JGoto("files", "link")
  /\ todo # {}
  /\ LET f == Min(todo) IN
       /\ f \in (aged \cap Posts) \ linked
       /\ InUse(f)
       /\ victim' = f
       /\ todo' = todo \ {f}
  /\ UNCHANGED <<disk, uploads, references, page, avatarRequest, mishaps, risked>>

UpdateFileRecord ==
  /\ JGoto("link", "files")
  /\ \/ linked' = linked \cup {victim} /\ UNCHANGED mishaps
     \/ Mishap /\ UNCHANGED linked
  /\ victim' = NoFile
  /\ UNCHANGED <<disk, uploads, cited, avatar, page, todo, avatarRequest, risked>>

FoundOrphan ==
  /\ JGoto("files", "delete")
  /\ todo # {}
  /\ LET f == Min(todo) IN
       /\ f \in aged
       /\ ~InUse(f)
       /\ victim' = f
       /\ todo' = todo \ {f}
  /\ UNCHANGED <<disk, uploads, references, page, avatarRequest, mishaps, risked>>

(* Mutant: the file is moved before the record is deleted. *)
MoveEarly ==
  /\ JGoto("delete", "move")
  /\ place' = [place EXCEPT ![victim] = "trash"]
  /\ UNCHANGED <<record, uploads, references, page, todo, victim, avatarRequest, mishaps, risked>>

(* Moving a file that is not there fails. *)
Trashed(p) == IF p = "upload" THEN "trash" ELSE p

(* DeleteAndMoveFileRecord: first the record, *)
DeleteFileRecord ==
  /\ JGoto("delete", "move")
  /\ record' = [record EXCEPT ![victim] = "deleted"]
  /\ UNCHANGED <<place, uploads, references, page, todo, victim, avatarRequest, mishaps, risked>>

DeleteFileRecordFails ==
  /\ JGoto("delete", "files")
  /\ Mishap
  /\ victim' = NoFile
  /\ UNCHANGED <<disk, uploads, references, page, todo, avatarRequest, risked>>

(* then the file; if that fails it stays where nobody looks for it. *)
MoveFile ==
  /\ JGoto("move", "files")
  /\ \/ place' = [place EXCEPT ![victim] = Trashed(@)] /\ UNCHANGED mishaps
     \/ Mishap /\ UNCHANGED place
  /\ victim' = NoFile
  /\ UNCHANGED <<record, uploads, references, page, todo, avatarRequest, risked>>

(* PurgeDeletedFiles, a job of its own. *)
PurgeDeletedFiles ==
  /\ \E f \in Files : place[f] = "trash"
  /\ place' = [f \in Files |-> IF place[f] = "trash" THEN "absent" ELSE place[f]]
  /\ UNCHANGED <<record, uploads, references, job, avatarRequest, mishaps, risked>>

-----------------------------------------------------------------------------
(* UpdateInfo with another avatar: the old file is cleaned up first. *)
UGoto(from, to) == upc = from /\ upc' = to
NoChange == [old |-> NoFile, new |-> NoFile]

ChangeAvatar(f) ==
  /\ UGoto("idle", "find")
  /\ changes < MaxChanges
  /\ changes' = changes + 1
  /\ f # avatar
  /\ f = NoFile \/ f \in (AvatarFiles \cap 1..uploaded) \ uploading
  /\ change' = [old |-> avatar, new |-> f]
  /\ UNCHANGED <<disk, uploads, references, job, mishaps, risked>>

(* GetFileRecordByURL: only an available record is found. *)
FindOldAvatar ==
  /\ UGoto("find", IF change.old \in Available THEN "delete" ELSE "save")
  /\ UNCHANGED <<disk, uploads, references, job, change, changes, mishaps, risked>>

DeleteOldAvatar ==
  /\ UGoto("delete", "move")
  /\ record' = [record EXCEPT ![change.old] = "deleted"]
  /\ UNCHANGED <<place, uploads, references, job, change, changes, mishaps, risked>>

MoveOldAvatar ==
  /\ UGoto("move", "save")
  /\ place' = [place EXCEPT ![change.old] = Trashed(@)]
  /\ UNCHANGED <<record, uploads, references, job, change, changes, mishaps, risked>>

(* An error on the way is logged and the change goes on: the old file stays. *)
CleanUpFails ==
  /\ upc \in {"find", "delete", "move"}
  /\ change.old # NoFile
  /\ upc' = "save"
  /\ Mishap
  /\ UNCHANGED <<disk, uploads, references, job, change, changes, risked>>

SaveUserInfo ==
  /\ UGoto("save", "idle")
  /\ avatar' = change.new
  /\ risked' = IF change.new \in Files /\ Doomed(change.new)
               THEN risked \cup {change.new} ELSE risked
  /\ change' = NoChange
  /\ UNCHANGED <<disk, uploads, linked, cited, job, changes, mishaps>>

(* The row keeps an avatar whose file is gone. *)
SaveUserInfoFails ==
  /\ UGoto("save", "idle")
  /\ Mishap
  /\ risked' = risked \cup ({change.old} \ {NoFile})
  /\ change' = NoChange
  /\ UNCHANGED <<disk, uploads, references, job, changes>>

-----------------------------------------------------------------------------
(* The process stops: the job and the requests are gone. *)
Crash ==
  /\ Mishap
  /\ jpc' = "idle"
  /\ page' = 1
  /\ todo' = {}
  /\ victim' = NoFile
  /\ upc' = "idle"
  /\ change' = NoChange
  /\ uploading' = {}
  /\ risked' = risked \cup ({change.old} \ {NoFile})
  /\ UNCHANGED <<disk, uploaded, aged, references, changes>>

UJob ==
  \/ StartJob \/ ReadPage \/ ReadPageFails \/ PageDone \/ KeepFile \/ FoundByURL \/ UpdateFileRecord
  \/ FoundOrphan \/ DeleteFileRecord \/ DeleteFileRecordFails \/ MoveFile

UChange ==
  \/ \E f \in Files \cup {NoFile} : ChangeAvatar(f)
  \/ FindOldAvatar \/ DeleteOldAvatar \/ MoveOldAvatar \/ CleanUpFails
  \/ SaveUserInfo \/ SaveUserInfoFails

UUpload ==
  \/ SaveUploadedFile
  \/ \E f \in Files : AddFileRecord(f) \/ AddFileRecordFails(f) \/ Age(f) \/ Cite(f)

UNext == UJob \/ UChange \/ UUpload \/ PurgeDeletedFiles \/ Crash

USpec == UInit /\ [][UNext]_uVars

(* The scheduler starts the job again and again, and the job goes on. *)
UFairSpec == USpec /\ WF_uVars(UJob)

-----------------------------------------------------------------------------
(* A record that is available has its file in place, wherever the job, a change
   of an avatar or the process stops. *)
AvailableInPlace == \A f \in Available : place[f] = "upload"

(* A file that a revision or a user refers to is not taken away, except when the
   reference is younger than the look-up that found none, or the request that
   replaced it failed half-way. *)
ReferencedKept ==
  /\ \A f \in cited \ risked : place[f] = "upload"
  /\ avatar \in Files \ risked /\ upc = "idle" => place[avatar] = "upload"

(* An old file with a record that nothing refers to is cleared in the end,
   although the job skips a page whenever it deletes one. *)
OrphansCleared ==
  \A f \in Files :
    f \in Available \cap aged /\ ~InUse(f) ~> f \notin Available \/ InUse(f)
=============================================================================
