--------------------------- MODULE StorageProofs ---------------------------
(***************************************************************************)
(* Theorems about what is kept in files and in caches.                     *)
(*                                                                         *)
(* Uploads, for any number of files, failures and crashes: what is         *)
(* available or referred to is where the URL says.                         *)
(* A file leaves its place only when its record is deleted, so that the    *)
(* question is whose record may be deleted: not that of a file that is     *)
(* referred to, unless the reference came after the look-up that found     *)
(* none, or the request that replaces the reference is still at work.      *)
(*                                                                         *)
(* SiteSettings, for any number of upgrades, saves and stops: the cache    *)
(* file of an upgraded site holds nothing from before the upgrade; and     *)
(* each setting tells what was asked for last.  The rows are a sequence of *)
(* which the first of a type counts: Stores says what a statement leaves   *)
(* of what is read of them.  Of v1.8.0 it takes to know, at each of its    *)
(* steps, that what it has seen of the settings it has not moved is still  *)
(* there, and that it has left none behind of those it has (SplitOK).      *)
(*                                                                         *)
(* KVStore, for any number of callers, keys and calls: a cached value is   *)
(* that of the row.  Whoever writes a key is alone with it unless two      *)
(* calls overlap, which excused records; the entry then stays deleted from *)
(* the first access of the writer to its last.                             *)
(***************************************************************************)
EXTENDS Uploads, SiteSettings, KVStore, Sums, SequenceTheorems, TLAPS

USE UploadsAssumption DEF UploadsAssumption, Files, NoFile

InPlace ==
  \A f \in Files :
    /\ f <= uploaded /\ record[f] # "deleted" => place[f] = "upload"
    /\ f > uploaded => record[f] = "none"

UploadOK ==
  /\ \A f \in uploading : f <= uploaded /\ record[f] = "none"
  /\ \A f \in aged : record[f] # "none"

CitedOK ==
  \A f \in cited :
    /\ f \in Posts /\ f <= uploaded
    /\ f \notin risked => record[f] # "deleted"

(* The job only deletes what nothing referred to when it looked. *)
JobOK ==
  /\ jpc \in {"link", "delete", "move"} => victim \in Files
  /\ jpc \in {"delete", "move"} =>
       /\ record[victim] # "none"
       /\ victim \in cited \/ victim = avatar => victim \in risked
  /\ jpc = "move" => record[victim] = "deleted"

(* The avatar of the user is kept until a request replaces it. *)
AvatarOK ==
  /\ avatar # NoFile => avatar \in AvatarFiles /\ avatar <= uploaded
  /\ upc = "idle" => change = NoChange
  /\ upc # "idle" => /\ change.old = avatar
                     /\ change.new # NoFile => change.new \in AvatarFiles /\ change.new <= uploaded
  /\ upc \in {"delete", "move"} => change.old # NoFile /\ record[change.old] # "none"
  /\ upc = "move" => record[change.old] = "deleted"
  /\ avatar \in Files \ risked /\ record[avatar] = "deleted" => upc \in {"move", "save"}

UInv == UTypeOK /\ InPlace /\ UploadOK /\ CitedOK /\ JobOK /\ AvatarOK

-----------------------------------------------------------------------------
LEMMA UInitInv == UInit => UInv
BY DEF UInit, UInv, UTypeOK, InPlace, UploadOK, CitedOK, JobOK, AvatarOK, NoChange

(* The clean-up job. *)
LEMMA StartJobInv ==
  ASSUME UInv, StartJob
  PROVE  UInv'
<1>1. UTypeOK'
  BY DEF StartJob, JGoto, disk, uploads, references, avatarRequest, FirstPage, UInv, UTypeOK
<1>2. InPlace'
  BY DEF StartJob, JGoto, disk, uploads, references, avatarRequest, FirstPage, UInv, InPlace
<1>3. UploadOK'
  BY DEF StartJob, JGoto, disk, uploads, references, avatarRequest, FirstPage, UInv, UploadOK
<1>4. CitedOK'
  BY DEF StartJob, JGoto, disk, uploads, references, avatarRequest, FirstPage, UInv, CitedOK
<1>5. JobOK'
  BY DEF StartJob, JGoto, disk, uploads, references, avatarRequest, FirstPage, UInv, JobOK
<1>6. AvatarOK'
  BY DEF StartJob, JGoto, disk, uploads, references, avatarRequest, FirstPage, UInv, AvatarOK
<1> QED
  BY <1>1, <1>2, <1>3, <1>4, <1>5, <1>6 DEF UInv

LEMMA ReadPageInv ==
  ASSUME UInv, ReadPage
  PROVE  UInv'
<1>1. UTypeOK'
  BY DEF ReadPage, JGoto, disk, uploads, references, avatarRequest, PageOf, Available, UInv,
         UTypeOK
<1>2. InPlace'
  BY DEF ReadPage, JGoto, disk, uploads, references, avatarRequest, PageOf, Available, UInv,
         InPlace
<1>3. UploadOK'
  BY DEF ReadPage, JGoto, disk, uploads, references, avatarRequest, PageOf, Available, UInv,
         UploadOK
<1>4. CitedOK'
  BY DEF ReadPage, JGoto, disk, uploads, references, avatarRequest, PageOf, Available, UInv,
         CitedOK
<1>5. JobOK'
  BY DEF ReadPage, JGoto, disk, uploads, references, avatarRequest, PageOf, Available, UInv,
         JobOK
<1>6. AvatarOK'
  BY DEF ReadPage, JGoto, disk, uploads, references, avatarRequest, PageOf, Available, UInv,
         AvatarOK
<1> QED
  BY <1>1, <1>2, <1>3, <1>4, <1>5, <1>6 DEF UInv

LEMMA ReadPageFailsInv ==
  ASSUME UInv, ReadPageFails
  PROVE  UInv'
<1>1. UTypeOK'
  BY DEF ReadPageFails, JGoto, Mishap, disk, uploads, references, avatarRequest, UInv, UTypeOK
<1>2. InPlace'
  BY DEF ReadPageFails, JGoto, Mishap, disk, uploads, references, avatarRequest, UInv, InPlace
<1>3. UploadOK'
  BY DEF ReadPageFails, JGoto, Mishap, disk, uploads, references, avatarRequest, UInv, UploadOK
<1>4. CitedOK'
  BY DEF ReadPageFails, JGoto, Mishap, disk, uploads, references, avatarRequest, UInv, CitedOK
<1>5. JobOK'
  BY DEF ReadPageFails, JGoto, Mishap, disk, uploads, references, avatarRequest, UInv, JobOK
<1>6. AvatarOK'
  BY DEF ReadPageFails, JGoto, Mishap, disk, uploads, references, avatarRequest, UInv, AvatarOK
<1> QED
  BY <1>1, <1>2, <1>3, <1>4, <1>5, <1>6 DEF UInv

LEMMA PageDoneInv ==
  ASSUME UInv, PageDone
  PROVE  UInv'
<1>1. UTypeOK'
  BY DEF PageDone, JGoto, disk, uploads, references, avatarRequest, UInv, UTypeOK
<1>2. InPlace'
  BY DEF PageDone, JGoto, disk, uploads, references, avatarRequest, UInv, InPlace
<1>3. UploadOK'
  BY DEF PageDone, JGoto, disk, uploads, references, avatarRequest, UInv, UploadOK
<1>4. CitedOK'
  BY DEF PageDone, JGoto, disk, uploads, references, avatarRequest, UInv, CitedOK
<1>5. JobOK'
  BY DEF PageDone, JGoto, disk, uploads, references, avatarRequest, UInv, JobOK
<1>6. AvatarOK'
  BY DEF PageDone, JGoto, disk, uploads, references, avatarRequest, UInv, AvatarOK
<1> QED
  BY <1>1, <1>2, <1>3, <1>4, <1>5, <1>6 DEF UInv

LEMMA KeepFileInv ==
  ASSUME UInv, KeepFile
  PROVE  UInv'
<1>1. UTypeOK'
  <2>1. todo' \subseteq todo /\ (mishaps' = mishaps \/ Mishap)
    BY DEF KeepFile
  <2>2. mishaps' \in 0..MaxMishaps
    BY <2>1 DEF Mishap, UInv, UTypeOK
  <2> QED
    BY <2>1, <2>2 DEF KeepFile, disk, uploads, references, avatarRequest, UInv, UTypeOK
<1>2. InPlace'
  BY DEF KeepFile, Mishap, disk, uploads, references, avatarRequest, UInv, InPlace
<1>3. UploadOK'
  BY DEF KeepFile, Mishap, disk, uploads, references, avatarRequest, UInv, UploadOK
<1>4. CitedOK'
  BY DEF KeepFile, Mishap, disk, uploads, references, avatarRequest, UInv, CitedOK
<1>5. JobOK'
  BY DEF KeepFile, Mishap, disk, uploads, references, avatarRequest, UInv, JobOK
<1>6. AvatarOK'
  BY DEF KeepFile, Mishap, disk, uploads, references, avatarRequest, UInv, AvatarOK
<1> QED
  BY <1>1, <1>2, <1>3, <1>4, <1>5, <1>6 DEF UInv

LEMMA FoundByURLInv ==
  ASSUME UInv, FoundByURL
  PROVE  UInv'
<1>1. UTypeOK'
  BY DEF FoundByURL, JGoto, disk, uploads, references, avatarRequest, UInv, UTypeOK
<1>2. InPlace'
  BY DEF FoundByURL, JGoto, disk, uploads, references, avatarRequest, UInv, InPlace
<1>3. UploadOK'
  BY DEF FoundByURL, JGoto, disk, uploads, references, avatarRequest, UInv, UploadOK
<1>4. CitedOK'
  BY DEF FoundByURL, JGoto, disk, uploads, references, avatarRequest, UInv, CitedOK
<1>5. JobOK'
  BY DEF FoundByURL, JGoto, disk, uploads, references, avatarRequest, UInv, UTypeOK, JobOK
<1>6. AvatarOK'
  BY DEF FoundByURL, JGoto, disk, uploads, references, avatarRequest, UInv, AvatarOK
<1> QED
  BY <1>1, <1>2, <1>3, <1>4, <1>5, <1>6 DEF UInv

LEMMA UpdateFileRecordInv ==
  ASSUME UInv, UpdateFileRecord
  PROVE  UInv'
<1>1. UTypeOK'
  <2>1. victim \in Files
    BY DEF UpdateFileRecord, JGoto, UInv, JobOK
  <2>2. linked' \subseteq Files
    BY <2>1 DEF UpdateFileRecord, UInv, UTypeOK
  <2>3. mishaps' \in 0..MaxMishaps
    BY DEF UpdateFileRecord, Mishap, UInv, UTypeOK
  <2> QED
    BY <2>2, <2>3 DEF UpdateFileRecord, JGoto, disk, uploads, avatarRequest, UInv, UTypeOK
<1>2. InPlace'
  BY DEF UpdateFileRecord, JGoto, Mishap, disk, uploads, avatarRequest, UInv, InPlace
<1>3. UploadOK'
  BY DEF UpdateFileRecord, JGoto, Mishap, disk, uploads, avatarRequest, UInv, UploadOK
<1>4. CitedOK'
  BY DEF UpdateFileRecord, JGoto, Mishap, disk, uploads, avatarRequest, UInv, CitedOK
<1>5. JobOK'
  BY DEF UpdateFileRecord, JGoto, Mishap, disk, uploads, avatarRequest, UInv, JobOK
<1>6. AvatarOK'
  BY DEF UpdateFileRecord, JGoto, Mishap, disk, uploads, avatarRequest, UInv, AvatarOK
<1> QED
  BY <1>1, <1>2, <1>3, <1>4, <1>5, <1>6 DEF UInv

LEMMA FoundOrphanInv ==
  ASSUME UInv, FoundOrphan
  PROVE  UInv'
<1>1. UTypeOK'
  BY DEF FoundOrphan, JGoto, disk, uploads, references, avatarRequest, UInv, UTypeOK
<1>2. InPlace'
  BY DEF FoundOrphan, JGoto, disk, uploads, references, avatarRequest, UInv, InPlace
<1>3. UploadOK'
  BY DEF FoundOrphan, JGoto, disk, uploads, references, avatarRequest, UInv, UploadOK
<1>4. CitedOK'
  BY DEF FoundOrphan, JGoto, disk, uploads, references, avatarRequest, UInv, CitedOK
<1>5. JobOK'
  <2>1. PICK f : f \in aged /\ ~InUse(f) /\ victim' = f /\ jpc' = "delete"
    BY DEF FoundOrphan, JGoto
  <2>2. f \in Files /\ record[f] # "none"
    BY <2>1 DEF UInv, UTypeOK, UploadOK
  <2>3. CASE f \in AvatarFiles
    <3>1. avatar # f /\ f \notin cited
      BY <2>1, <2>3 DEF InUse, UInv, CitedOK, Posts
    <3> QED
      BY <2>1, <2>2, <3>1 DEF FoundOrphan, disk, references, JobOK
  <2>4. CASE f \notin AvatarFiles
    <3>1. f \notin cited
      BY <2>1, <2>4 DEF InUse, InRevision
    <3>2. avatar # f
      BY <2>2, <2>4 DEF UInv, AvatarOK
    <3> QED
      BY <2>1, <2>2, <3>1, <3>2 DEF FoundOrphan, disk, references, JobOK
  <2> QED
    BY <2>3, <2>4
<1>6. AvatarOK'
  BY DEF FoundOrphan, JGoto, disk, uploads, references, avatarRequest, UInv, AvatarOK
<1> QED
  BY <1>1, <1>2, <1>3, <1>4, <1>5, <1>6 DEF UInv

LEMMA DeleteFileRecordInv ==
  ASSUME UInv, DeleteFileRecord
  PROVE  UInv'
<1>1. UTypeOK'
  BY DEF DeleteFileRecord, JGoto, uploads, references, avatarRequest, UInv, UTypeOK
<1>2. InPlace'
  BY DEF DeleteFileRecord, JGoto, uploads, references, avatarRequest, UInv, UTypeOK, JobOK,
         InPlace
<1>3. UploadOK'
  BY DEF DeleteFileRecord, JGoto, uploads, references, avatarRequest, UInv, UTypeOK, JobOK,
         UploadOK
<1>4. CitedOK'
  BY DEF DeleteFileRecord, JGoto, uploads, references, avatarRequest, UInv, UTypeOK, JobOK,
         CitedOK
<1>5. JobOK'
  BY DEF DeleteFileRecord, JGoto, uploads, references, avatarRequest, UInv, UTypeOK, JobOK
<1>6. AvatarOK'
  BY DEF DeleteFileRecord, JGoto, uploads, references, avatarRequest, UInv, UTypeOK, JobOK,
         AvatarOK
<1> QED
  BY <1>1, <1>2, <1>3, <1>4, <1>5, <1>6 DEF UInv

LEMMA DeleteFileRecordFailsInv ==
  ASSUME UInv, DeleteFileRecordFails
  PROVE  UInv'
<1>1. UTypeOK'
  BY DEF DeleteFileRecordFails, JGoto, Mishap, disk, uploads, references, avatarRequest, UInv,
         UTypeOK
<1>2. InPlace'
  BY DEF DeleteFileRecordFails, JGoto, Mishap, disk, uploads, references, avatarRequest, UInv,
         InPlace
<1>3. UploadOK'
  BY DEF DeleteFileRecordFails, JGoto, Mishap, disk, uploads, references, avatarRequest, UInv,
         UploadOK
<1>4. CitedOK'
  BY DEF DeleteFileRecordFails, JGoto, Mishap, disk, uploads, references, avatarRequest, UInv,
         CitedOK
<1>5. JobOK'
  BY DEF DeleteFileRecordFails, JGoto, Mishap, disk, uploads, references, avatarRequest, UInv,
         JobOK
<1>6. AvatarOK'
  BY DEF DeleteFileRecordFails, JGoto, Mishap, disk, uploads, references, avatarRequest, UInv,
         AvatarOK
<1> QED
  BY <1>1, <1>2, <1>3, <1>4, <1>5, <1>6 DEF UInv

LEMMA MoveFileInv ==
  ASSUME UInv, MoveFile
  PROVE  UInv'
<1>1. UTypeOK'
  BY DEF MoveFile, JGoto, Mishap, uploads, references, avatarRequest, Trashed, UInv, UTypeOK
<1>2. InPlace'
  BY DEF MoveFile, JGoto, Mishap, uploads, references, avatarRequest, Trashed, UInv, UTypeOK,
         JobOK, InPlace
<1>3. UploadOK'
  BY DEF MoveFile, JGoto, Mishap, uploads, references, avatarRequest, Trashed, UInv, UploadOK
<1>4. CitedOK'
  BY DEF MoveFile, JGoto, Mishap, uploads, references, avatarRequest, Trashed, UInv, CitedOK
<1>5. JobOK'
  BY DEF MoveFile, JGoto, Mishap, uploads, references, avatarRequest, Trashed, UInv, JobOK
<1>6. AvatarOK'
  BY DEF MoveFile, JGoto, Mishap, uploads, references, avatarRequest, Trashed, UInv, AvatarOK
<1> QED
  BY <1>1, <1>2, <1>3, <1>4, <1>5, <1>6 DEF UInv

(* The change of an avatar. *)
LEMMA ChangeAvatarInv ==
  ASSUME UInv, NEW f \in Files \cup {NoFile}, ChangeAvatar(f)
  PROVE  UInv'
<1>1. UTypeOK'
  BY DEF ChangeAvatar, UGoto, disk, uploads, references, job, NoChange, UInv, UTypeOK
<1>2. InPlace'
  BY DEF ChangeAvatar, UGoto, disk, uploads, references, job, NoChange, UInv, InPlace
<1>3. UploadOK'
  BY DEF ChangeAvatar, UGoto, disk, uploads, references, job, NoChange, UInv, UploadOK
<1>4. CitedOK'
  BY DEF ChangeAvatar, UGoto, disk, uploads, references, job, NoChange, UInv, CitedOK
<1>5. JobOK'
  BY DEF ChangeAvatar, UGoto, disk, uploads, references, job, NoChange, UInv, JobOK
<1>6. AvatarOK'
  BY DEF ChangeAvatar, UGoto, disk, uploads, references, job, NoChange, UInv, AvatarOK
<1> QED
  BY <1>1, <1>2, <1>3, <1>4, <1>5, <1>6 DEF UInv

LEMMA FindOldAvatarInv ==
  ASSUME UInv, FindOldAvatar
  PROVE  UInv'
<1>1. UTypeOK'
  BY DEF FindOldAvatar, UGoto, disk, uploads, references, job, Available, UInv, UTypeOK
<1>2. InPlace'
  BY DEF FindOldAvatar, UGoto, disk, uploads, references, job, Available, UInv, InPlace
<1>3. UploadOK'
  BY DEF FindOldAvatar, UGoto, disk, uploads, references, job, Available, UInv, UploadOK
<1>4. CitedOK'
  BY DEF FindOldAvatar, UGoto, disk, uploads, references, job, Available, UInv, CitedOK
<1>5. JobOK'
  BY DEF FindOldAvatar, UGoto, disk, uploads, references, job, Available, UInv, JobOK
<1>6. AvatarOK'
  BY DEF FindOldAvatar, UGoto, disk, uploads, references, job, Available, UInv, AvatarOK
<1> QED
  BY <1>1, <1>2, <1>3, <1>4, <1>5, <1>6 DEF UInv

LEMMA DeleteOldAvatarInv ==
  ASSUME UInv, DeleteOldAvatar
  PROVE  UInv'
<1>1. UTypeOK'
  BY DEF DeleteOldAvatar, UGoto, uploads, references, job, Posts, UInv, UTypeOK
<1>2. InPlace'
  BY DEF DeleteOldAvatar, UGoto, uploads, references, job, Posts, UInv, UTypeOK, AvatarOK,
         InPlace
<1>3. UploadOK'
  BY DEF DeleteOldAvatar, UGoto, uploads, references, job, Posts, UInv, UTypeOK, AvatarOK,
         UploadOK
<1>4. CitedOK'
  BY DEF DeleteOldAvatar, UGoto, uploads, references, job, Posts, UInv, UTypeOK, AvatarOK,
         CitedOK
<1>5. JobOK'
  BY DEF DeleteOldAvatar, UGoto, uploads, references, job, Posts, UInv, JobOK
<1>6. AvatarOK'
  BY DEF DeleteOldAvatar, UGoto, uploads, references, job, Posts, UInv, UTypeOK, AvatarOK
<1> QED
  BY <1>1, <1>2, <1>3, <1>4, <1>5, <1>6 DEF UInv

LEMMA MoveOldAvatarInv ==
  ASSUME UInv, MoveOldAvatar
  PROVE  UInv'
<1>1. UTypeOK'
  BY DEF MoveOldAvatar, UGoto, uploads, references, job, Trashed, UInv, UTypeOK
<1>2. InPlace'
  BY DEF MoveOldAvatar, UGoto, uploads, references, job, Trashed, UInv, UTypeOK, AvatarOK,
         InPlace
<1>3. UploadOK'
  BY DEF MoveOldAvatar, UGoto, uploads, references, job, Trashed, UInv, UploadOK
<1>4. CitedOK'
  BY DEF MoveOldAvatar, UGoto, uploads, references, job, Trashed, UInv, CitedOK
<1>5. JobOK'
  BY DEF MoveOldAvatar, UGoto, uploads, references, job, Trashed, UInv, JobOK
<1>6. AvatarOK'
  BY DEF MoveOldAvatar, UGoto, uploads, references, job, Trashed, UInv, AvatarOK
<1> QED
  BY <1>1, <1>2, <1>3, <1>4, <1>5, <1>6 DEF UInv

LEMMA CleanUpFailsInv ==
  ASSUME UInv, CleanUpFails
  PROVE  UInv'
<1>1. UTypeOK'
  BY DEF CleanUpFails, Mishap, disk, uploads, references, job, UInv, UTypeOK
<1>2. InPlace'
  BY DEF CleanUpFails, Mishap, disk, uploads, references, job, UInv, InPlace
<1>3. UploadOK'
  BY DEF CleanUpFails, Mishap, disk, uploads, references, job, UInv, UploadOK
<1>4. CitedOK'
  BY DEF CleanUpFails, Mishap, disk, uploads, references, job, UInv, CitedOK
<1>5. JobOK'
  BY DEF CleanUpFails, Mishap, disk, uploads, references, job, UInv, JobOK
<1>6. AvatarOK'
  BY DEF CleanUpFails, Mishap, disk, uploads, references, job, UInv, AvatarOK
<1> QED
  BY <1>1, <1>2, <1>3, <1>4, <1>5, <1>6 DEF UInv

LEMMA SaveUserInfoInv ==
  ASSUME UInv, SaveUserInfo
  PROVE  UInv'
<1>1. UTypeOK'
  BY DEF SaveUserInfo, UGoto, disk, uploads, job, Doomed, NoChange, UInv, UTypeOK
<1>2. InPlace'
  BY DEF SaveUserInfo, UGoto, disk, uploads, job, Doomed, NoChange, UInv, InPlace
<1>3. UploadOK'
  BY DEF SaveUserInfo, UGoto, disk, uploads, job, Doomed, NoChange, UInv, UploadOK
<1>4. CitedOK'
  BY DEF SaveUserInfo, UGoto, disk, uploads, job, Doomed, NoChange, UInv, CitedOK
<1>5. JobOK'
  BY DEF SaveUserInfo, UGoto, disk, uploads, job, Doomed, NoChange, UInv, JobOK
<1>6. AvatarOK'
  BY DEF SaveUserInfo, UGoto, disk, uploads, job, Doomed, NoChange, UInv, AvatarOK
<1> QED
  BY <1>1, <1>2, <1>3, <1>4, <1>5, <1>6 DEF UInv

LEMMA SaveUserInfoFailsInv ==
  ASSUME UInv, SaveUserInfoFails
  PROVE  UInv'
<1>1. UTypeOK'
  <2>1. change.old \in Files \cup {NoFile}
    BY DEF UInv, UTypeOK
  <2>2. risked' \subseteq Files
    BY <2>1 DEF SaveUserInfoFails, UInv, UTypeOK
  <2>3. NoChange \in [old : Files \cup {NoFile}, new : Files \cup {NoFile}]
    BY DEF NoChange
  <2> QED
    BY <2>2, <2>3 DEF SaveUserInfoFails, UGoto, Mishap, disk, uploads, references, job, UInv, UTypeOK
<1>2. InPlace'
  BY DEF SaveUserInfoFails, UGoto, Mishap, disk, uploads, references, job, NoChange, UInv,
         InPlace
<1>3. UploadOK'
  BY DEF SaveUserInfoFails, UGoto, Mishap, disk, uploads, references, job, NoChange, UInv,
         UploadOK
<1>4. CitedOK'
  BY DEF SaveUserInfoFails, UGoto, Mishap, disk, uploads, references, job, NoChange, UInv,
         CitedOK
<1>5. JobOK'
  BY DEF SaveUserInfoFails, UGoto, Mishap, disk, uploads, references, job, NoChange, UInv, JobOK
<1>6. AvatarOK'
  BY DEF SaveUserInfoFails, UGoto, Mishap, disk, uploads, references, job, NoChange, UInv,
         AvatarOK
<1> QED
  BY <1>1, <1>2, <1>3, <1>4, <1>5, <1>6 DEF UInv

(* Uploads and references. *)
LEMMA SaveUploadedFileInv ==
  ASSUME UInv, SaveUploadedFile
  PROVE  UInv'
<1>1. UTypeOK'
  BY DEF SaveUploadedFile, references, job, avatarRequest, UInv, UTypeOK
<1>2. InPlace'
  BY DEF SaveUploadedFile, references, job, avatarRequest, UInv, UTypeOK, InPlace
<1>3. UploadOK'
  BY DEF SaveUploadedFile, references, job, avatarRequest, UInv, UTypeOK, InPlace, UploadOK
<1>4. CitedOK'
  BY DEF SaveUploadedFile, references, job, avatarRequest, UInv, UTypeOK, CitedOK
<1>5. JobOK'
  BY DEF SaveUploadedFile, references, job, avatarRequest, UInv, JobOK
<1>6. AvatarOK'
  BY DEF SaveUploadedFile, references, job, avatarRequest, UInv, UTypeOK, AvatarOK
<1> QED
  BY <1>1, <1>2, <1>3, <1>4, <1>5, <1>6 DEF UInv

LEMMA AddFileRecordInv ==
  ASSUME UInv, NEW f \in Files, AddFileRecord(f)
  PROVE  UInv'
<1>1. UTypeOK'
  BY DEF AddFileRecord, references, job, avatarRequest, UInv, UTypeOK
<1>2. InPlace'
  BY DEF AddFileRecord, references, job, avatarRequest, UInv, UTypeOK, UploadOK, InPlace
<1>3. UploadOK'
  BY DEF AddFileRecord, references, job, avatarRequest, UInv, UploadOK
<1>4. CitedOK'
  BY DEF AddFileRecord, references, job, avatarRequest, UInv, CitedOK
<1>5. JobOK'
  BY DEF AddFileRecord, references, job, avatarRequest, UInv, UTypeOK, UploadOK, JobOK
<1>6. AvatarOK'
  BY DEF AddFileRecord, references, job, avatarRequest, UInv, UTypeOK, UploadOK, AvatarOK
<1> QED
  BY <1>1, <1>2, <1>3, <1>4, <1>5, <1>6 DEF UInv

LEMMA AddFileRecordFailsInv ==
  ASSUME UInv, NEW f \in Files, AddFileRecordFails(f)
  PROVE  UInv'
<1>1. UTypeOK'
  BY DEF AddFileRecordFails, Mishap, disk, references, job, avatarRequest, UInv, UTypeOK
<1>2. InPlace'
  BY DEF AddFileRecordFails, Mishap, disk, references, job, avatarRequest, UInv, InPlace
<1>3. UploadOK'
  BY DEF AddFileRecordFails, Mishap, disk, references, job, avatarRequest, UInv, UploadOK
<1>4. CitedOK'
  BY DEF AddFileRecordFails, Mishap, disk, references, job, avatarRequest, UInv, CitedOK
<1>5. JobOK'
  BY DEF AddFileRecordFails, Mishap, disk, references, job, avatarRequest, UInv, JobOK
<1>6. AvatarOK'
  BY DEF AddFileRecordFails, Mishap, disk, references, job, avatarRequest, UInv, AvatarOK
<1> QED
  BY <1>1, <1>2, <1>3, <1>4, <1>5, <1>6 DEF UInv

LEMMA AgeInv ==
  ASSUME UInv, NEW f \in Files, Age(f)
  PROVE  UInv'
<1>1. UTypeOK'
  BY DEF Age, disk, references, job, avatarRequest, Available, UInv, UTypeOK
<1>2. InPlace'
  BY DEF Age, disk, references, job, avatarRequest, Available, UInv, InPlace
<1>3. UploadOK'
  BY DEF Age, disk, references, job, avatarRequest, Available, UInv, UploadOK
<1>4. CitedOK'
  BY DEF Age, disk, references, job, avatarRequest, Available, UInv, CitedOK
<1>5. JobOK'
  BY DEF Age, disk, references, job, avatarRequest, Available, UInv, JobOK
<1>6. AvatarOK'
  BY DEF Age, disk, references, job, avatarRequest, Available, UInv, AvatarOK
<1> QED
  BY <1>1, <1>2, <1>3, <1>4, <1>5, <1>6 DEF UInv

LEMMA CiteInv ==
  ASSUME UInv, NEW f \in Files, Cite(f)
  PROVE  UInv'
<1>1. UTypeOK'
  BY DEF Cite, disk, uploads, job, avatarRequest, Doomed, Posts, UInv, UTypeOK
<1>2. InPlace'
  BY DEF Cite, disk, uploads, job, avatarRequest, Doomed, Posts, UInv, InPlace
<1>3. UploadOK'
  BY DEF Cite, disk, uploads, job, avatarRequest, Doomed, Posts, UInv, UploadOK
<1>4. CitedOK'
  BY DEF Cite, disk, uploads, job, avatarRequest, Doomed, Posts, UInv, CitedOK
<1>5. JobOK'
  BY DEF Cite, disk, uploads, job, avatarRequest, Doomed, Posts, UInv, JobOK
<1>6. AvatarOK'
  BY DEF Cite, disk, uploads, job, avatarRequest, Doomed, Posts, UInv, AvatarOK
<1> QED
  BY <1>1, <1>2, <1>3, <1>4, <1>5, <1>6 DEF UInv

LEMMA PurgeDeletedFilesInv ==
  ASSUME UInv, PurgeDeletedFiles
  PROVE  UInv'
<1>1. UTypeOK'
  BY DEF PurgeDeletedFiles, uploads, references, job, avatarRequest, UInv, UTypeOK
<1>2. InPlace'
  BY DEF PurgeDeletedFiles, uploads, references, job, avatarRequest, UInv, InPlace
<1>3. UploadOK'
  BY DEF PurgeDeletedFiles, uploads, references, job, avatarRequest, UInv, UploadOK
<1>4. CitedOK'
  BY DEF PurgeDeletedFiles, uploads, references, job, avatarRequest, UInv, CitedOK
<1>5. JobOK'
  BY DEF PurgeDeletedFiles, uploads, references, job, avatarRequest, UInv, JobOK
<1>6. AvatarOK'
  BY DEF PurgeDeletedFiles, uploads, references, job, avatarRequest, UInv, AvatarOK
<1> QED
  BY <1>1, <1>2, <1>3, <1>4, <1>5, <1>6 DEF UInv

LEMMA CrashInv ==
  ASSUME UInv, Crash
  PROVE  UInv'
<1>1. UTypeOK'
  <2>1. change.old \in Files \cup {NoFile}
    BY DEF UInv, UTypeOK
  <2>2. risked' \subseteq Files
    BY <2>1 DEF Crash, UInv, UTypeOK
  <2>3. NoChange \in [old : Files \cup {NoFile}, new : Files \cup {NoFile}]
    BY DEF NoChange
  <2> QED
    BY <2>2, <2>3 DEF Crash, Mishap, disk, references, UInv, UTypeOK
<1>2. InPlace'
  BY DEF Crash, Mishap, disk, references, NoChange, UInv, InPlace
<1>3. UploadOK'
  BY DEF Crash, Mishap, disk, references, NoChange, UInv, UploadOK
<1>4. CitedOK'
  BY DEF Crash, Mishap, disk, references, NoChange, UInv, CitedOK
<1>5. JobOK'
  BY DEF Crash, Mishap, disk, references, NoChange, UInv, JobOK
<1>6. AvatarOK'
  BY DEF Crash, Mishap, disk, references, NoChange, UInv, AvatarOK
<1> QED
  BY <1>1, <1>2, <1>3, <1>4, <1>5, <1>6 DEF UInv

-----------------------------------------------------------------------------
LEMMA UInvStep == UInv /\ [UNext]_uVars => UInv'
<1> SUFFICES ASSUME UInv, [UNext]_uVars PROVE UInv'
  OBVIOUS
<1>1. CASE UNCHANGED uVars
  BY <1>1 DEF uVars, disk, uploads, references, job, avatarRequest, UInv, UTypeOK, InPlace, UploadOK,
              CitedOK, JobOK, AvatarOK
<1>2. CASE UJob
  BY <1>2, StartJobInv, ReadPageInv, ReadPageFailsInv, PageDoneInv, KeepFileInv, FoundByURLInv,
     UpdateFileRecordInv, FoundOrphanInv, DeleteFileRecordInv, DeleteFileRecordFailsInv, MoveFileInv
     DEF UJob
<1>3. CASE UChange
  BY <1>3, ChangeAvatarInv, FindOldAvatarInv, DeleteOldAvatarInv, MoveOldAvatarInv, CleanUpFailsInv,
     SaveUserInfoInv, SaveUserInfoFailsInv DEF UChange
<1>4. CASE UUpload
  BY <1>4, SaveUploadedFileInv, AddFileRecordInv, AddFileRecordFailsInv, AgeInv, CiteInv DEF UUpload
<1>5. CASE PurgeDeletedFiles \/ Crash
  BY <1>5, PurgeDeletedFilesInv, CrashInv
<1> QED
  BY <1>1, <1>2, <1>3, <1>4, <1>5 DEF UNext

LEMMA UInvAlways == USpec => []UInv
BY UInitInv, UInvStep, PTL DEF USpec

(* Every variable of the uploads and of the clean-up job keeps its type. *)
THEOREM UploadTypes == USpec => []UTypeOK
<1>1. UInv => UTypeOK
  BY DEF UInv
<1> QED
  BY <1>1, UInvAlways, PTL

(* A record that is available has its file in the upload directory, wherever
   DeleteAndMoveFileRecord, a change of the avatar or the process stops. *)
THEOREM AvailableFilesInPlace == USpec => []AvailableInPlace
<1>1. UInv => AvailableInPlace
  BY DEF UInv, InPlace, AvailableInPlace, Available, UTypeOK
<1> QED
  BY <1>1, UInvAlways, PTL

(* CleanOrphanUploadFiles never takes away what a revision or the user refers
   to, but for references younger than its look-up and requests that failed
   after they had removed the old avatar. *)
THEOREM ReferencedFilesKept == USpec => []ReferencedKept
<1>1. UInv => ReferencedKept
  <2> SUFFICES ASSUME UInv PROVE ReferencedKept
    OBVIOUS
  <2>1. \A f \in cited \ risked : place[f] = "upload"
    BY DEF UInv, CitedOK, InPlace, UTypeOK
  <2>2. avatar \in Files \ risked /\ upc = "idle" => place[avatar] = "upload"
    BY DEF UInv, AvatarOK, InPlace, UTypeOK
  <2> QED
    BY <2>1, <2>2 DEF ReferencedKept
<1> QED
  BY <1>1, UInvAlways, PTL

-----------------------------------------------------------------------------
(* SiteSettings *)

ProcessOK ==
  /\ DOMAIN process = {"pc", "at", "step", "seen"}
  /\ process.at \in Versions
  /\ process.pc \in {"work", "flush", "version"} => process.at < ExpectedVersion

(* The last migration leaves nothing in the cache, and what the file holds from
   before is replaced when the upgrade is over. *)
CacheOK ==
  /\ process.pc = "version" /\ process.at + 1 = ExpectedVersion => memory = {}
  /\ dbVersion = ExpectedVersion /\ ~flushLost =>
       /\ memory \subseteq {ExpectedVersion}
       /\ cacheFile \subseteq {ExpectedVersion}
            \/ (process.pc = "next" /\ process.at = ExpectedVersion)

SiteInv == dbVersion \in Versions /\ ProcessOK /\ CacheOK

(* The last migration flushes the cache. *)
LEMMA LastVersion == /\ ExpectedVersion = 8 /\ ShouldCleanCache[8]
                     /\ Versions = 0..8
  BY DEF ExpectedVersion, ShouldCleanCache, Versions

(* Before any process runs nothing is cached from an older version. *)
LEMMA SiteInvInit == SInit => SiteInv
  BY LastVersion, SiteSettingsAssumption DEF SInit, SiteInv, ProcessOK, CacheOK, Off, SiteSettingsAssumption

(* Steps that move the process on with the versions and caches as they are. *)
LEMMA MigrationStep ==
  ASSUME SiteInv, UNCHANGED dbVersion, CachesKept,
         process.pc \in {"next", "work"},
         process.at < ExpectedVersion,
         process'.at = process.at,
         process'.pc \in {"work", "flush"},
         DOMAIN process' = {"pc", "at", "step", "seen"}
  PROVE  SiteInv'
  BY LastVersion DEF SiteInv, ProcessOK, CacheOK, CachesKept

(* What an upgrade does keeps the invariant. *)
LEMMA SiteInvUpgrade == SiteInv /\ SUpgrade => SiteInv'
<1> SUFFICES ASSUME SiteInv, SUpgrade PROVE SiteInv'
  OBVIOUS
<1> USE DEF SiteInv
<1>1. ASSUME NEW from \in 0..dbVersion, StartUpgrade(from) PROVE SiteInv'
  <2>1. process' = [Off EXCEPT !.pc = "next", !.at = from]
    BY <1>1 DEF StartUpgrade
  <2>2. process'.pc = "next" /\ process'.at = from /\ DOMAIN process' = {"pc", "at", "step", "seen"}
    BY <2>1 DEF Off
  <2> QED
    BY <1>1, <2>2, LastVersion DEF StartUpgrade, ProcessOK, CacheOK
<1>2. CASE NextMigration
  <2>1. /\ process'.pc \in {"work", "flush"} /\ process'.at = process.at
        /\ DOMAIN process' = {"pc", "at", "step", "seen"}
    BY <1>2 DEF NextMigration, ProcessOK
  <2> QED
    BY <1>2, <2>1, MigrationStep DEF NextMigration
<1>3. CASE MoveUserConfigToInterface \/ AddAPIKey \/ ZeroOrdinaryUserCustomPrivileges
  <2>1. /\ process.pc = "work" /\ process' = [process EXCEPT !.pc = "flush"]
        /\ UNCHANGED dbVersion /\ CachesKept
    BY <1>3 DEF MoveUserConfigToInterface, AddAPIKey, ZeroOrdinaryUserCustomPrivileges, Working,
                ContinueAt, MigrationKeeps
  <2> QED
    BY <2>1, MigrationStep DEF ProcessOK
<1>4. CASE InsertSplit \/ StripRow
  <2>1. process.pc = "work" /\ SplitGoesOn /\ UNCHANGED dbVersion /\ CachesKept
    BY <1>4 DEF InsertSplit, StripRow, Working, MigrationKeeps
  <2>2. /\ process'.pc \in {"work", "flush"} /\ process'.at = process.at
        /\ DOMAIN process' = {"pc", "at", "step", "seen"}
    BY <2>1 DEF SplitGoesOn, Off, ProcessOK
  <2> QED
    BY <2>1, <2>2, MigrationStep DEF ProcessOK
<1>5. CASE FlushCache
  <2>1. process'.pc = "version" /\ process'.at = process.at /\ DOMAIN process' = {"pc", "at", "step", "seen"}
    BY <1>5 DEF FlushCache, ContinueAt, ProcessOK
  <2>2. memory' \subseteq memory /\ (process.at = 7 => memory' = {})
    BY <1>5, LastVersion DEF FlushCache
  <2> QED
    BY <1>5, <2>1, <2>2, LastVersion DEF FlushCache, ProcessOK, CacheOK
<1>6. CASE WriteVersion
  <2>1. /\ process'.pc = "next" /\ process'.at = process.at + 1
        /\ DOMAIN process' = {"pc", "at", "step", "seen"}
    BY <1>6 DEF WriteVersion, Off
  <2> QED
    BY <1>6, <2>1, LastVersion DEF WriteVersion, ProcessOK, CacheOK, CachesKept
<1>7. CASE UpgradeDone \/ UpgradeEnds
  <2>1. process'.pc = "down" /\ process'.at = 0 /\ DOMAIN process' = {"pc", "at", "step", "seen"}
    BY <1>7 DEF UpgradeDone, UpgradeEnds, Off
  <2>2. CASE UpgradeDone
    <3>1. ~flushLost' => ~flushLost \/ memory = {}
      BY <2>2 DEF UpgradeDone
    <3> QED
      BY <2>1, <2>2, <3>1, LastVersion DEF UpgradeDone, ProcessOK, CacheOK
  <2>3. CASE UpgradeEnds
    <3>1. ~flushLost' => ~flushLost /\ ~(dbVersion = ExpectedVersion /\ process.at = ExpectedVersion)
      BY <2>3 DEF UpgradeEnds
    <3> QED
      BY <2>1, <2>3, <3>1, LastVersion DEF UpgradeEnds, ProcessOK, CacheOK
  <2> QED
    BY <1>7, <2>2, <2>3
<1> QED
  BY <1>1, <1>2, <1>3, <1>4, <1>5, <1>6, <1>7 DEF SUpgrade

(* What the server does keeps the invariant. *)
LEMMA SiteInvServer == SiteInv /\ SServer => SiteInv'
<1> SUFFICES ASSUME SiteInv, SServer PROVE SiteInv'
  OBVIOUS
<1> USE LastVersion DEF SiteInv, ProcessOK, CacheOK
<1>1. CASE StartServer
  BY <1>1 DEF StartServer, ContinueAt
<1>2. CASE GetByType
  BY <1>2 DEF GetByType
<1>3. CASE SaveCacheFile
  BY <1>3 DEF SaveCacheFile
<1>4. CASE ServerStops
  BY <1>4 DEF ServerStops, Off, CachesKept
<1>5. ASSUME NEW v \in memory, EntriesExpire(v) PROVE SiteInv'
  BY <1>5 DEF EntriesExpire
<1>6. ASSUME NEW t \in Savable, SaveSetting(t) PROVE SiteInv'
  BY <1>6 DEF SaveSetting
<1> QED
  BY <1>1, <1>2, <1>3, <1>4, <1>5, <1>6 DEF SServer

(* The server of an upgraded site is not given entries that were cached before
   Migrate, for any site, any pages saved and any number of upgrades and stops;
   an upgrade that ends between its last version and the saving of the flushed
   cache is the one exception. *)
THEOREM UpgradedServesNew == SSpec => []NoOldEntries
<1>1. SiteInv /\ [SNext]_sVars => SiteInv'
  <2>1. SiteInv /\ UNCHANGED sVars => SiteInv'
    BY DEF SiteInv, ProcessOK, CacheOK, sVars
  <2> QED
    BY <2>1, SiteInvUpgrade, SiteInvServer DEF SNext
<1>2. SiteInv => NoOldEntries
  BY DEF SiteInv, CacheOK, NoOldEntries
<1> QED
  BY <1>1, <1>2, SiteInvInit, PTL DEF SSpec

-----------------------------------------------------------------------------
(* The rows of a site, of which the first of each type counts. *)
USE SiteSettingsAssumption DEF SiteSettingsAssumption

Contents == UNION {[fs -> SettingValues] : fs \in SUBSET SettingNames}
Rows == [type : RowTypes, content : Contents]

HasIn(s, t) == \E i \in DOMAIN s : s[i].type = t
FirstIn(s, t) == CHOOSE i \in DOMAIN s :
  s[i].type = t /\ \A j \in DOMAIN s : s[j].type = t => i <= j
Cell(row, f) == IF f \in DOMAIN row.content THEN row.content[f] ELSE 0
ValueOf(s, t, f) == IF HasIn(s, t) THEN Cell(s[FirstIn(s, t)], f) ELSE 0

(* What the model reads of the rows is what is in the sequence. *)
LEMMA RowsAsSeen ==
  /\ \A t : Has(t) <=> HasIn(siteInfo, t)
  /\ \A t : First(t) = FirstIn(siteInfo, t)
  /\ \A t, f : ValueIn(t, f) = ValueOf(siteInfo, t, f)
<1>1. \A t : Has(t) <=> HasIn(siteInfo, t)
  BY DEF Has, HasIn
<1>2. \A t : First(t) = FirstIn(siteInfo, t)
  BY Zenon DEF First, FirstIn
<1>3. ASSUME NEW t, NEW f PROVE ValueIn(t, f) = ValueOf(siteInfo, t, f)
  BY <1>1, <1>2 DEF ValueIn, ValueOf, Cell
<1> QED
  BY <1>1, <1>2, <1>3

LEMMA FirstIs ==
  ASSUME NEW s \in Seq(Rows), NEW t, HasIn(s, t)
  PROVE  /\ FirstIn(s, t) \in DOMAIN s
         /\ s[FirstIn(s, t)].type = t
         /\ \A j \in DOMAIN s : s[j].type = t => FirstIn(s, t) <= j
<1>1. PICK N : N = {i \in DOMAIN s : s[i].type = t}
  OBVIOUS
<1>2. N \subseteq Nat /\ N # {}
  BY <1>1 DEF HasIn
<1>3. \E n \in N : \A m \in N : n <= m
  BY <1>2, LeastNumber
<1>4. \E i \in DOMAIN s : s[i].type = t /\ \A j \in DOMAIN s : s[j].type = t => i <= j
  BY <1>1, <1>3
<1> QED
  BY <1>4, Zenon DEF FirstIn

LEMMA FirstUnique ==
  ASSUME NEW s \in Seq(Rows), NEW t, NEW i \in DOMAIN s, s[i].type = t,
         \A j \in DOMAIN s : s[j].type = t => i <= j
  PROVE  HasIn(s, t) /\ FirstIn(s, t) = i
<1>1. HasIn(s, t)
  BY DEF HasIn
<1>2. PICK k : k = FirstIn(s, t)
  OBVIOUS
<1>3. k \in DOMAIN s /\ s[k].type = t /\ \A j \in DOMAIN s : s[j].type = t => k <= j
  BY <1>1, <1>2, FirstIs
<1>4. k = i
  BY <1>3
<1> QED
  BY <1>1, <1>2, <1>4

LEMMA ValueType ==
  ASSUME NEW s \in Seq(Rows), NEW t, NEW f
  PROVE  ValueOf(s, t, f) \in SettingValues
<1>1. 0 \in SettingValues
  BY DEF SettingValues
<1>2. ASSUME HasIn(s, t) PROVE Cell(s[FirstIn(s, t)], f) \in SettingValues
  <2>1. PICK row \in Rows : row = s[FirstIn(s, t)]
    BY <1>2, FirstIs
  <2>2. PICK fs \in SUBSET SettingNames : row.content \in [fs -> SettingValues]
    BY DEF Rows, Contents
  <2> QED
    BY <1>1, <2>1, <2>2 DEF Cell
<1> QED
  BY <1>1, <1>2 DEF ValueOf

(* What it takes of the rows for t to be read as before. *)
LEMMA SameType ==
  ASSUME NEW s \in Seq(Rows), NEW r \in Seq(Rows), NEW t,
         \A i \in DOMAIN s : s[i].type = t => i \in DOMAIN r /\ r[i] = s[i],
         \A i \in DOMAIN r : r[i].type = t => i \in DOMAIN s /\ r[i] = s[i]
  PROVE  /\ HasIn(r, t) <=> HasIn(s, t)
         /\ \A f : ValueOf(r, t, f) = ValueOf(s, t, f)
<1>1. HasIn(r, t) <=> HasIn(s, t)
  BY DEF HasIn
<1>2. ASSUME HasIn(s, t) PROVE FirstIn(r, t) = FirstIn(s, t) /\ r[FirstIn(r, t)] = s[FirstIn(s, t)]
  <2>1. PICK k : k = FirstIn(s, t)
    OBVIOUS
  <2>2. k \in DOMAIN s /\ s[k].type = t /\ \A j \in DOMAIN s : s[j].type = t => k <= j
    BY <1>2, <2>1, FirstIs
  <2>3. k \in DOMAIN r /\ r[k] = s[k] /\ \A j \in DOMAIN r : r[j].type = t => k <= j
    BY <2>2
  <2>4. FirstIn(r, t) = k
    BY <2>2, <2>3, FirstUnique
  <2> QED
    BY <2>1, <2>3, <2>4
<1> QED
  BY <1>1, <1>2 DEF ValueOf

(* A statement that gives the row of type t another content, and perhaps another
   type: the types that are not concerned are read as before. *)
Stores(s, r, t, row) ==
  /\ r \in Seq(Rows)
  /\ \A u : u \notin {t, row.type} =>
       /\ HasIn(r, u) <=> HasIn(s, u)
       /\ \A f : ValueOf(r, u, f) = ValueOf(s, u, f)
  /\ row.type = t => HasIn(r, t) /\ \A f : ValueOf(r, t, f) = Cell(row, f)

LEMMA Appended ==
  ASSUME NEW s \in Seq(Rows), NEW row \in Rows, NEW t, ~HasIn(s, t)
  PROVE  Stores(s, Append(s, row), t, row)
<1>1. PICK r : r = Append(s, row)
  OBVIOUS
<1>2. /\ r \in Seq(Rows) /\ Len(s) \in Nat
      /\ DOMAIN s = 1..Len(s) /\ DOMAIN r = 1..(Len(s) + 1)
      /\ \A i \in DOMAIN s : r[i] = s[i]
      /\ r[Len(s) + 1] = row
  BY <1>1
<1>3. ASSUME NEW u, u # row.type
      PROVE  (HasIn(r, u) <=> HasIn(s, u)) /\ \A f : ValueOf(r, u, f) = ValueOf(s, u, f)
  <2>1. /\ \A i \in DOMAIN s : s[i].type = u => i \in DOMAIN r /\ r[i] = s[i]
        /\ \A i \in DOMAIN r : r[i].type = u => i \in DOMAIN s /\ r[i] = s[i]
    BY <1>2, <1>3
  <2> QED
    BY <1>2, <2>1, SameType
<1>4. ASSUME row.type = t PROVE HasIn(r, t) /\ \A f : ValueOf(r, t, f) = Cell(row, f)
  <2>1. PICK k : k = Len(s) + 1
    OBVIOUS
  <2>2. k \in DOMAIN r /\ r[k] = row
    BY <1>2, <2>1
  <2>3. \A j \in DOMAIN r : r[j].type = t => k <= j
    BY <1>2, <2>1 DEF HasIn
  <2>4. HasIn(r, t) /\ FirstIn(r, t) = k
    BY <1>2, <1>4, <2>2, <2>3, FirstUnique
  <2> QED
    BY <2>2, <2>4 DEF ValueOf
<1>5. Stores(s, r, t, row)
  BY <1>2, <1>3, <1>4 DEF Stores
<1> QED
  BY <1>1, <1>5

LEMMA Replaced ==
  ASSUME NEW s \in Seq(Rows), NEW row \in Rows, NEW t, HasIn(s, t)
  PROVE  Stores(s, [s EXCEPT ![FirstIn(s, t)] = row], t, row)
<1>1. PICK k : k = FirstIn(s, t)
  OBVIOUS
<1>2. k \in DOMAIN s /\ s[k].type = t /\ \A j \in DOMAIN s : s[j].type = t => k <= j
  BY <1>1, FirstIs
<1>3. PICK r : r = [s EXCEPT ![k] = row]
  OBVIOUS
<1>4. /\ r \in Seq(Rows) /\ DOMAIN r = DOMAIN s /\ r[k] = row
      /\ \A i \in DOMAIN s : i # k => r[i] = s[i]
  BY <1>2, <1>3
<1>5. ASSUME NEW u, u \notin {t, row.type}
      PROVE  (HasIn(r, u) <=> HasIn(s, u)) /\ \A f : ValueOf(r, u, f) = ValueOf(s, u, f)
  <2>1. /\ \A i \in DOMAIN s : s[i].type = u => i \in DOMAIN r /\ r[i] = s[i]
        /\ \A i \in DOMAIN r : r[i].type = u => i \in DOMAIN s /\ r[i] = s[i]
    BY <1>2, <1>4, <1>5
  <2> QED
    BY <1>4, <2>1, SameType
<1>6. ASSUME row.type = t PROVE HasIn(r, t) /\ \A f : ValueOf(r, t, f) = Cell(row, f)
  <2>1. \A j \in DOMAIN r : r[j].type = t => k <= j
    BY <1>2, <1>4
  <2>2. HasIn(r, t) /\ FirstIn(r, t) = k
    BY <1>2, <1>4, <1>6, <2>1, FirstUnique
  <2> QED
    BY <1>4, <2>2 DEF ValueOf
<1>7. Stores(s, r, t, row)
  BY <1>4, <1>5, <1>6 DEF Stores
<1> QED
  BY <1>1, <1>3, <1>7

-----------------------------------------------------------------------------
(* Where this release and those before look for a setting. *)
NewHomes == {"advanced", "questions", "tags", "users_settings", "interface_settings",
             "policies", "security"}
OldHomes == {"write", "interface", "legal", "login", "general"}
SameHomes == {"login", "general", "ai", "privileges"}

LEMMA HomeIs ==
  /\ SettingNames = {"images", "answers", "slugs", "language", "avatar", "terms", "display",
                     "required", "update", "signup", "name", "prompt", "ranks"}
  /\ Home["images"] = "advanced" /\ Home["answers"] = "questions" /\ Home["slugs"] = "tags"
  /\ Home["language"] = "interface_settings" /\ Home["avatar"] = "users_settings"
  /\ Home["terms"] = "policies"
  /\ Home["display"] = "security" /\ Home["required"] = "security" /\ Home["update"] = "security"
  /\ Home["signup"] = "login" /\ Home["name"] = "general"
  /\ Home["prompt"] = "ai" /\ Home["ranks"] = "privileges"
BY DEF SettingNames, Home

LEMMA FormerHomeIs ==
  /\ FormerHome["images"] = "write" /\ FormerHome["answers"] = "write" /\ FormerHome["slugs"] = "write"
  /\ FormerHome["language"] = "interface" /\ FormerHome["avatar"] = "interface"
  /\ FormerHome["terms"] = "legal"
  /\ FormerHome["display"] = "legal" /\ FormerHome["required"] = "login" /\ FormerHome["update"] = "general"
  /\ FormerHome["signup"] = "login" /\ FormerHome["name"] = "general"
  /\ FormerHome["prompt"] = "ai" /\ FormerHome["ranks"] = "privileges"
BY DEF FormerHome, Home

LEMMA HomeOf ==
  ASSUME NEW f \in SettingNames
  PROVE  /\ Home[f] # FormerHome[f] => Home[f] \in NewHomes /\ FormerHome[f] \in OldHomes
         /\ Home[f] = FormerHome[f] => Home[f] \in SameHomes
         /\ Home[f] \in {"advanced", "questions", "tags"} => FormerHome[f] = "write"
         /\ Home[f] \in {"users_settings", "interface_settings"} <=> FormerHome[f] = "interface"
         /\ Home[f] = "policies" => FormerHome[f] = "legal"
         /\ Home[f] = "users_settings" <=> f = "avatar"
         /\ Home[f] = "interface_settings" <=> f = "language"
         /\ FormerHome[f] = "login" => Home[f] \in {"login", "security"}
         /\ FormerHome[f] = "general" => Home[f] \in {"general", "security"}
         /\ FormerHome[f] = "ai" <=> f = "prompt"
         /\ Home[f] = "ai" <=> f = "prompt"
         /\ FormerHome[f] = "privileges" <=> f = "ranks"
         /\ Home[f] = "privileges" <=> f = "ranks"
BY HomeIs, FormerHomeIs DEF NewHomes, OldHomes, SameHomes

-----------------------------------------------------------------------------
(* Types.  Three rows are there from the first version on. *)
SiteRows(s) ==
  s \in Seq(Rows) /\ HasIn(s, "login") /\ HasIn(s, "general") /\ HasIn(s, "privileges")

Settled(w, sp) == w \in [SettingNames -> SettingValues] /\ sp \subseteq SettingNames

Running ==
  /\ dbVersion \in Versions
  /\ memory \subseteq Versions /\ cacheFile \subseteq Versions
  /\ process \in [pc : {"down", "server", "next", "work", "flush", "version"},
                  at : Versions, step : 1..Len(SplitSteps), seen : [SettingNames -> SettingValues]]
  /\ flushLost \in BOOLEAN
  /\ saves \in 0..MaxSaves /\ upgrades \in 0..MaxUpgrades /\ stops \in 0..MaxStops

SiteShape == SiteRows(siteInfo) /\ Settled(wanted, spoilt) /\ Running

LEMMA ShapeTypes == SiteShape => STypeOK
<1> SUFFICES ASSUME SiteShape PROVE STypeOK
  OBVIOUS
<1>1. ASSUME NEW i \in DOMAIN siteInfo
      PROVE  /\ siteInfo[i].type \in RowTypes
             /\ \A f \in DOMAIN siteInfo[i].content : siteInfo[i].content[f] \in SettingValues
  <2>1. PICK row \in Rows : row = siteInfo[i]
    BY DEF SiteShape, SiteRows
  <2>2. PICK fs \in SUBSET SettingNames : row.content \in [fs -> SettingValues]
    BY DEF Rows, Contents
  <2>3. row.type \in RowTypes
    BY DEF Rows
  <2> QED
    BY <2>1, <2>2, <2>3
<1> QED
  BY <1>1 DEF SiteShape, Settled, Running, STypeOK

LEMMA StoredRows ==
  ASSUME NEW s, SiteRows(s), NEW r, NEW t, NEW row, Stores(s, r, t, row),
         row.type = t \/ {t, row.type} \cap {"login", "general", "privileges"} = {}
  PROVE  SiteRows(r)
<1>1. r \in Seq(Rows)
  BY DEF Stores
<1>2. ASSUME NEW u \in {"login", "general", "privileges"} PROVE HasIn(r, u)
  <2>1. HasIn(s, u)
    BY DEF SiteRows
  <2> QED
    BY <2>1 DEF Stores
<1> QED
  BY <1>1, <1>2 DEF SiteRows

(* Values and rows. *)
LEMMA ValuesAre ==
  /\ {0, 1} \subseteq SettingValues
  /\ \A n \in 0..MaxSaves : n < MaxSaves => n + 2 \in SettingValues
BY DEF SettingValues

LEMMA RowIs ==
  ASSUME NEW t \in RowTypes, NEW fs \in SUBSET SettingNames, NEW c \in [fs -> SettingValues]
  PROVE  /\ c \in Contents
         /\ [type |-> t, content |-> c] \in Rows
BY DEF Rows, Contents

LEMMA TypesAre ==
  /\ CurrentTypes = NewHomes \cup SameHomes
  /\ RowTypes = NewHomes \cup SameHomes \cup OldHomes \cup {"users"}
<1>1. CurrentTypes = NewHomes \cup SameHomes
  <2>1. CurrentTypes \subseteq NewHomes \cup SameHomes
    BY HomeOf DEF CurrentTypes
  <2>2. ASSUME NEW t \in NewHomes \cup SameHomes PROVE \E f \in SettingNames : Home[f] = t
    BY HomeIs DEF NewHomes, SameHomes
  <2> QED
    BY <2>1, <2>2 DEF CurrentTypes
<1>2. PICK Former : Former = {FormerHome[f] : f \in SettingNames}
  OBVIOUS
<1>3. Former \subseteq OldHomes \cup SameHomes
  BY <1>2, HomeOf
<1>4. ASSUME NEW t \in OldHomes PROVE \E f \in SettingNames : FormerHome[f] = t
  BY HomeIs, FormerHomeIs DEF OldHomes
<1>5. OldHomes \subseteq Former
  BY <1>2, <1>4
<1> QED
  BY <1>1, <1>2, <1>3, <1>5 DEF RowTypes

LEMMA RewriteStores ==
  ASSUME SiteRows(siteInfo), NEW t \in RowTypes, NEW c \in Contents, Has(t), Rewrite(t, c)
  PROVE  Stores(siteInfo, siteInfo', t, [type |-> t, content |-> c])
<1>1. PICK s : s = siteInfo
  OBVIOUS
<1>2. s \in Seq(Rows) /\ HasIn(s, t)
  BY <1>1, RowsAsSeen DEF SiteRows
<1>3. PICK k : k = FirstIn(s, t)
  OBVIOUS
<1>4. k \in DOMAIN s /\ s[k].type = t
  BY <1>2, <1>3, FirstIs
<1>5. siteInfo' = [s EXCEPT ![k].content = c]
  BY <1>1, <1>3, RowsAsSeen DEF Rewrite
<1>6. PICK row \in Rows : row = [type |-> t, content |-> c]
  BY DEF Rows
<1>7. [s[k] EXCEPT !.content = c] = row
  <2>1. s[k] \in Rows
    BY <1>2, <1>4
  <2> QED
    BY <1>4, <1>6, <2>1 DEF Rows
<1>8. siteInfo' = [s EXCEPT ![k] = row]
  BY <1>5, <1>7
<1>9. Stores(s, [s EXCEPT ![k] = row], t, row)
  BY <1>2, <1>3, Replaced
<1> QED
  BY <1>1, <1>6, <1>8, <1>9

LEMMA InsertStores ==
  ASSUME SiteRows(siteInfo), NEW t \in RowTypes, NEW c \in Contents, ~Has(t), Insert(t, c)
  PROVE  Stores(siteInfo, siteInfo', t, [type |-> t, content |-> c])
<1>1. [type |-> t, content |-> c] \in Rows /\ ~HasIn(siteInfo, t) /\ siteInfo \in Seq(Rows)
  BY RowsAsSeen DEF Rows, SiteRows
<1>2. siteInfo' = Append(siteInfo, [type |-> t, content |-> c])
  BY DEF Insert
<1> QED
  BY <1>1, <1>2, Appended

LEMMA SaveStores ==
  ASSUME SiteRows(siteInfo), NEW t \in RowTypes, NEW row \in Rows, SaveByType(t, row)
  PROVE  Stores(siteInfo, siteInfo', t, row)
<1>1. siteInfo \in Seq(Rows)
  BY DEF SiteRows
<1>2. CASE Has(t)
  <2>1. siteInfo' = [siteInfo EXCEPT ![FirstIn(siteInfo, t)] = row] /\ HasIn(siteInfo, t)
    BY <1>2, RowsAsSeen DEF SaveByType
  <2> QED
    BY <1>1, <2>1, Replaced
<1>3. CASE ~Has(t)
  <2>1. siteInfo' = Append(siteInfo, row) /\ ~HasIn(siteInfo, t)
    BY <1>3, RowsAsSeen DEF SaveByType
  <2> QED
    BY <1>1, <2>1, Appended
<1> QED
  BY <1>2, <1>3

(* Versions, caches and the process keep their types. *)
LEMMA RunningStep ==
  ASSUME SiteShape, SiteInv, SNext
  PROVE  Running'
<1> USE LastVersion
<1>0. Off \in [pc : {"down"}, at : Versions, step : 1..Len(SplitSteps), seen : [SettingNames -> SettingValues]]
  BY ValuesAre DEF Off, Unseen, SplitSteps
<1>1. ASSUME NEW from \in 0..dbVersion, StartUpgrade(from) PROVE Running'
  <2>1. from \in Versions
    <3>1. dbVersion \in 0..8
      BY DEF SiteShape, Running
    <3> QED
      BY <1>1, <3>1
  <2>2. upgrades + 1 \in 0..MaxUpgrades
    BY <1>1 DEF StartUpgrade, SiteShape, Running
  <2> QED
    BY <1>0, <1>1, <2>1, <2>2 DEF StartUpgrade, SiteShape, Running
<1>2. CASE NextMigration
  <2>1. PICK g : g = [f \in SettingNames |-> ValueIn(FormerHome[f], f)]
    OBVIOUS
  <2>2. g \in [SettingNames -> SettingValues] /\ Unseen \in [SettingNames -> SettingValues]
    <3>1. \A f \in SettingNames : ValueIn(FormerHome[f], f) \in SettingValues
      BY RowsAsSeen, ValueType DEF SiteShape, SiteRows
    <3> QED
      BY <2>1, <3>1, ValuesAre DEF Unseen
  <2> QED
    BY <1>2, <2>1, <2>2 DEF NextMigration, CachesKept, BoundsKept, SiteShape, Running
<1>3. CASE MoveUserConfigToInterface \/ AddAPIKey \/ ZeroOrdinaryUserCustomPrivileges
  <2>1. ContinueAt("flush") /\ MigrationKeeps
    BY <1>3 DEF MoveUserConfigToInterface, AddAPIKey, ZeroOrdinaryUserCustomPrivileges
  <2> QED
    BY <2>1 DEF ContinueAt, MigrationKeeps, CachesKept, BoundsKept, SiteShape, Running
<1>4. CASE InsertSplit \/ StripRow
  <2>1. SplitGoesOn /\ MigrationKeeps
    BY <1>4 DEF InsertSplit, StripRow
  <2>2. Running => process'.step \in 1..Len(SplitSteps) /\ process'.at = process.at
    BY <2>1, <1>0 DEF SplitGoesOn, Running, SplitSteps, Off
  <2> QED
    BY <2>1, <2>2, <1>0 DEF SplitGoesOn, MigrationKeeps, CachesKept, BoundsKept, SiteShape, Running
<1>5. CASE FlushCache
  BY <1>5 DEF FlushCache, ContinueAt, BoundsKept, SiteShape, Running
<1>6. CASE WriteVersion
  <2>1. process.at + 1 \in Versions
    BY <1>6 DEF WriteVersion, SiteInv, ProcessOK
  <2> QED
    BY <1>0, <1>6, <2>1 DEF WriteVersion, CachesKept, BoundsKept, SiteShape, Running
<1>7. CASE UpgradeDone
  BY <1>0, <1>7 DEF UpgradeDone, BoundsKept, SiteShape, Running
<1>8. CASE UpgradeEnds
  BY <1>0, <1>8 DEF UpgradeEnds, SiteShape, Running
<1>9. CASE StartServer \/ GetByType \/ SaveCacheFile \/ ServerStops
  BY <1>0, <1>9 DEF StartServer, GetByType, SaveCacheFile, ServerStops, ContinueAt, CachesKept,
                    BoundsKept, SiteShape, Running
<1>10. ASSUME NEW v \in memory, EntriesExpire(v) PROVE Running'
  BY <1>10 DEF EntriesExpire, BoundsKept, SiteShape, Running
<1>11. ASSUME NEW t \in Savable, SaveSetting(t) PROVE Running'
  BY <1>11 DEF SaveSetting, SiteShape, Running
<1> QED
  BY <1>1, <1>2, <1>3, <1>4, <1>5, <1>6, <1>7, <1>8, <1>9, <1>10, <1>11 DEF SNext, SUpgrade, SServer

-----------------------------------------------------------------------------
(* Where the value of a setting is: in the row of its home; before there is one
   in the row that the releases before v1.8.0 kept it in.  From that version on
   a setting without a row at home has the value 0 there, too. *)
Place(db, f) == IF f = "avatar" /\ db = 0 THEN "users" ELSE FormerHome[f]

Kept(s, w, db, f) ==
  /\ w[f] = IF HasIn(s, Home[f]) THEN ValueOf(s, Home[f], f) ELSE ValueOf(s, Place(db, f), f)
  /\ db >= 4 /\ ~HasIn(s, Home[f]) => ValueOf(s, FormerHome[f], f) = 0

AllKept(s, w, db, sp) == \A f \in SettingNames \ sp : Kept(s, w, db, f)

Moved == {f \in SettingNames : FormerHome[f] # Home[f]}
Splitting(p) == p.pc = "work" /\ p.at = 3
IsSplit(p, f) == \E i \in 1..Len(SplitSteps) : SplitSteps[i] = Home[f] /\ i < p.step
Empty(s, f) == ~HasIn(s, Home[f]) => ValueOf(s, FormerHome[f], f) = 0

(* How far an upgrade is: its version is not ahead of the site's, *)
InStep(db, p) ==
  /\ p.pc \in {"next", "work", "flush", "version"} => p.at <= db
  /\ p.step # 1 => Splitting(p)

(* and v1.8.0 has seen the settings that it has not moved, and left none behind. *)
SplitOK(s, sp, p) ==
  /\ p.at = 0 /\ p.pc \in {"flush", "version"} => "avatar" \in sp \/ HasIn(s, "users_settings")
  /\ Splitting(p) => \A f \in Moved \ sp :
       IF IsSplit(p, f) THEN Empty(s, f) ELSE p.seen[f] = ValueOf(s, FormerHome[f], f)
  /\ Splitting(p) /\ p.step > 7 => (HasIn(s, "legal") => HasIn(s, "security"))
  /\ p.at = 3 /\ p.pc \in {"flush", "version"} => \A f \in Moved \ sp : Empty(s, f)

SettingsOK(s, w, db, sp, p) == AllKept(s, w, db, sp) /\ InStep(db, p) /\ SplitOK(s, sp, p)

SettingsInv ==
  /\ SiteInv
  /\ SiteShape
  /\ SettingsOK(siteInfo, wanted, dbVersion, spoilt, process)

LEMMA PlaceIs ==
  ASSUME NEW f \in SettingNames, NEW db
  PROVE  /\ Place(db, f) \in {FormerHome[f], "users"}
         /\ Place(db, f) \in OldHomes \cup SameHomes \cup {"users"}
         /\ FormerHome[f] \in OldHomes \cup SameHomes
         /\ Home[f] \in NewHomes \cup SameHomes
         /\ db # 0 => Place(db, f) = FormerHome[f]
         /\ f # "avatar" => Place(db, f) = FormerHome[f]
BY HomeOf DEF Place

LEMMA KeptFrame ==
  ASSUME NEW s, NEW r, NEW t, NEW row, NEW w, NEW x, NEW db, NEW f \in SettingNames,
         Stores(s, r, t, row), Kept(s, w, db, f), x[f] = w[f],
         Home[f] \notin {t, row.type}, Place(db, f) \notin {t, row.type},
         FormerHome[f] \notin {t, row.type}
  PROVE  Kept(r, x, db, f)
<1>1. \A u : u \notin {t, row.type} =>
        /\ HasIn(r, u) <=> HasIn(s, u)
        /\ \A g : ValueOf(r, u, g) = ValueOf(s, u, g)
  BY DEF Stores
<1>2. HasIn(r, Home[f]) <=> HasIn(s, Home[f])
  BY <1>1
<1>3. /\ ValueOf(r, Home[f], f) = ValueOf(s, Home[f], f)
      /\ ValueOf(r, Place(db, f), f) = ValueOf(s, Place(db, f), f)
      /\ ValueOf(r, FormerHome[f], f) = ValueOf(s, FormerHome[f], f)
  BY <1>1
<1> QED
  BY <1>2, <1>3 DEF Kept

(* A row at home that tells what was asked for is all it takes. *)
LEMMA KeptAtHome ==
  ASSUME NEW s, NEW w, NEW db, NEW f \in SettingNames, HasIn(s, Home[f]), w[f] = ValueOf(s, Home[f], f)
  PROVE  Kept(s, w, db, f)
BY DEF Kept

(* Steps of the process with the rows as they are. *)
LEMMA ProcessStep ==
  ASSUME SettingsInv, RowsKept, SettingsOK(siteInfo, wanted, dbVersion', spoilt, process')
  PROVE  /\ SiteRows(siteInfo') /\ Settled(wanted', spoilt')
         /\ SettingsOK(siteInfo', wanted', dbVersion', spoilt', process')
BY DEF SettingsInv, SiteShape, RowsKept

(* ... of which nothing is asked but not to be ahead. *)
LEMMA IdleStep ==
  ASSUME SettingsInv, NEW p, p.step = 1, p.pc \in {"down", "server", "next"} \/ p.at \notin {0, 3},
         p.pc \in {"next", "work", "flush", "version"} => p.at <= dbVersion,
         ~Splitting(p)
  PROVE  SettingsOK(siteInfo, wanted, dbVersion, spoilt, p)
BY DEF SettingsInv, SettingsOK, InStep, SplitOK

(* What a step has to keep of the rows, and of how far an upgrade is. *)
StepKept ==
  /\ SiteRows(siteInfo') /\ Settled(wanted', spoilt')
  /\ SettingsOK(siteInfo', wanted', dbVersion', spoilt', process')

LEMMA OffIs == Off.pc = "down" /\ Off.at = 0 /\ Off.step = 1
  BY DEF Off

LEMMA NextMigrationKept ==
  ASSUME SettingsInv, NextMigration
  PROVE  StepKept
<1>1. process.step = 1 /\ process.at <= dbVersion /\ process.at \in Versions
  BY DEF SettingsInv, SettingsOK, InStep, Splitting, NextMigration, SiteShape, Running
<1>2. PICK p : p = process'
  OBVIOUS
<1>3. /\ p.step = 1 /\ p.at = process.at /\ p.at \in Nat
      /\ p.at \in {0, 3} => p.pc = "work"
      /\ p.pc \in {"work", "flush"}
      /\ p.at = 3 => p.seen = [f \in SettingNames |-> ValueIn(FormerHome[f], f)]
  BY <1>1, <1>2 DEF NextMigration, SettingsInv, SiteShape, Running, Versions
<1>4. CASE p.at # 3
  <2>1. SettingsOK(siteInfo, wanted, dbVersion, spoilt, p)
    BY <1>1, <1>3, <1>4 DEF SettingsInv, SettingsOK, InStep, SplitOK, Splitting
  <2> QED
    BY <1>2, <2>1, ProcessStep DEF NextMigration, StepKept
<1>5. CASE p.at = 3
  <2>1. \A f \in SettingNames : ~IsSplit(p, f)
    BY <1>3 DEF IsSplit
  <2>2. \A f \in SettingNames : p.seen[f] = ValueOf(siteInfo, FormerHome[f], f)
    BY <1>3, <1>5, RowsAsSeen
  <2>3. Moved \subseteq SettingNames
    BY DEF Moved
  <2>4. SplitOK(siteInfo, spoilt, p)
    BY <1>3, <1>5, <2>1, <2>2, <2>3 DEF SplitOK
  <2>5. SettingsOK(siteInfo, wanted, dbVersion, spoilt, p)
    BY <1>1, <1>3, <1>5, <2>4 DEF SettingsInv, SettingsOK, InStep
  <2> QED
    BY <1>2, <2>5, ProcessStep DEF NextMigration, StepKept
<1> QED
  BY <1>4, <1>5

LEMMA FlushCacheKept ==
  ASSUME SettingsInv, FlushCache
  PROVE  StepKept
<1>1. PICK p : p = process'
  OBVIOUS
<1>2. /\ process.pc = "flush" /\ p.pc = "version" /\ p.at = process.at /\ p.step = process.step
  BY <1>1 DEF FlushCache, ContinueAt, SettingsInv, SiteShape, Running
<1>3. SettingsOK(siteInfo, wanted, dbVersion, spoilt, p)
  BY <1>2 DEF SettingsInv, SettingsOK, InStep, SplitOK, Splitting
<1> QED
  BY <1>1, <1>3, ProcessStep DEF FlushCache, StepKept

(* The version of a migration is written when what it had to move is moved. *)
LEMMA WriteVersionKept ==
  ASSUME SettingsInv, WriteVersion
  PROVE  StepKept
<1>1. PICK n : n = process.at
  OBVIOUS
<1>2. /\ n \in Nat /\ n <= dbVersion /\ dbVersion \in Nat /\ process.pc = "version"
      /\ dbVersion' = n + 1
  BY <1>1 DEF WriteVersion, SettingsInv, SettingsOK, InStep, SiteShape, Running, Versions
<1>3. PICK p : p = process'
  OBVIOUS
<1>4. p.pc = "next" /\ p.at = n + 1 /\ p.step = 1
  BY <1>1, <1>3, OffIs DEF WriteVersion, Off
<1>5. ASSUME NEW f \in SettingNames \ spoilt PROVE Kept(siteInfo, wanted, n + 1, f)
  <2>1. Kept(siteInfo, wanted, dbVersion, f)
    BY <1>5 DEF SettingsInv, SettingsOK, AllKept
  <2>2. HasIn(siteInfo, Home[f]) \/ Place(dbVersion, f) = Place(n + 1, f)
    <3>1. CASE dbVersion = 0 /\ f = "avatar"
      <4>1. n = 0
        BY <1>2, <3>1
      <4>2. HasIn(siteInfo, "users_settings")
        BY <1>1, <1>2, <1>5, <3>1, <4>1 DEF SettingsInv, SettingsOK, SplitOK
      <4> QED
        BY <3>1, <4>2, HomeIs
    <3>2. CASE ~(dbVersion = 0 /\ f = "avatar")
      BY <1>2, <3>2 DEF Place
    <3> QED
      BY <3>1, <3>2
  <2>3. n + 1 >= 4 => Empty(siteInfo, f)
    <3>1. CASE Home[f] = FormerHome[f]
      BY <3>1 DEF Empty, ValueOf
    <3>2. CASE Home[f] # FormerHome[f] /\ n = 3
      <4>1. f \in Moved \ spoilt
        BY <1>5, <3>2 DEF Moved
      <4> QED
        BY <1>1, <1>2, <3>2, <4>1 DEF SettingsInv, SettingsOK, SplitOK
    <3>3. CASE n >= 4
      BY <1>2, <2>1, <3>3 DEF Kept, Empty
    <3> QED
      BY <1>2, <3>1, <3>2, <3>3
  <2> QED
    BY <2>1, <2>2, <2>3 DEF Kept, Empty
<1>6. SettingsOK(siteInfo, wanted, n + 1, spoilt, p)
  BY <1>2, <1>4, <1>5 DEF SettingsOK, AllKept, InStep, SplitOK, Splitting
<1> QED
  BY <1>2, <1>3, <1>6, ProcessStep DEF WriteVersion, StepKept

(* An upgrade begins or is over, and the server runs. *)
LEMMA OtherStepsKept ==
  ASSUME SettingsInv,
         \/ \E from \in 0..dbVersion : StartUpgrade(from)
         \/ UpgradeDone \/ UpgradeEnds \/ StartServer \/ ServerStops
  PROVE  StepKept
<1>1. RowsKept /\ UNCHANGED dbVersion
  BY DEF StartUpgrade, UpgradeDone, UpgradeEnds, StartServer, ServerStops
<1>2. PICK p : p = process'
  OBVIOUS
<1>3. p.pc \in {"down", "server", "next"} /\ p.step = 1 /\ (p.pc = "next" => p.at <= dbVersion)
  <2>1. ASSUME NEW from \in 0..dbVersion, StartUpgrade(from)
        PROVE  p.pc = "next" /\ p.at = from /\ p.step = 1 /\ from <= dbVersion
    <3>1. from <= dbVersion
      BY <2>1 DEF SettingsInv, SiteShape, Running, Versions
    <3>2. p = [Off EXCEPT !.pc = "next", !.at = from]
      BY <1>2, <2>1 DEF StartUpgrade
    <3>3. p.pc = "next" /\ p.at = from /\ p.step = 1
      BY <3>2 DEF Off
    <3> QED
      BY <3>1, <3>3
  <2>2. CASE UpgradeDone \/ UpgradeEnds \/ ServerStops
    BY <1>2, <2>2, OffIs DEF UpgradeDone, UpgradeEnds, ServerStops
  <2>3. CASE StartServer
    BY <1>2, <2>3 DEF StartServer, ContinueAt, SettingsInv, SettingsOK, InStep, Splitting, SiteShape, Running
  <2> QED
    BY <2>1, <2>2, <2>3
<1>4. SettingsOK(siteInfo, wanted, dbVersion, spoilt, p)
  BY <1>3, IdleStep DEF Splitting
<1> QED
  BY <1>1, <1>2, <1>4, ProcessStep DEF StepKept

LEMMA CacheStepsKept ==
  ASSUME SettingsInv, RowsKept, UNCHANGED <<dbVersion, process>>
  PROVE  StepKept
BY ProcessStep DEF SettingsInv, StepKept

-----------------------------------------------------------------------------
(* v1.6.0 rewrites the row of the interface. *)
LEMMA MoveUserConfigToInterfaceKept ==
  ASSUME SettingsInv, MoveUserConfigToInterface
  PROVE  StepKept
<1>1. PICK c : c = [f \in {"language"} |-> ValueIn("interface", f)]
  OBVIOUS
<1>2. PICK row : row = [type |-> "interface", content |-> c]
  OBVIOUS
<1>3. PICK s : s = siteInfo
  OBVIOUS
<1>4. PICK r : r = siteInfo'
  OBVIOUS
<1>5. PICK p : p = process'
  OBVIOUS
<1>6. PICK sp : sp = spoilt'
  OBVIOUS
<1>7. /\ UNCHANGED <<wanted, dbVersion>>
      /\ process.pc = "work" /\ process.at = 0 /\ process.step = 1
      /\ p.pc = "flush" /\ p.at = 0 /\ p.step = 1
      /\ sp = spoilt \cup (IF HasIn(s, "users_settings") THEN {} ELSE {"avatar"})
  <2>1. process.pc = "work" /\ process.at = 0 /\ process.step = 1
    BY DEF MoveUserConfigToInterface, Working, SettingsInv, SettingsOK, InStep, Splitting, SiteShape,
           Running, Versions
  <2>2. p.pc = "flush" /\ p.at = process.at /\ p.step = process.step
    BY <1>5 DEF MoveUserConfigToInterface, ContinueAt, SettingsInv, SiteShape, Running
  <2> QED
    BY <1>3, <1>6, <2>1, <2>2, RowsAsSeen DEF MoveUserConfigToInterface, MigrationKeeps
<1>8. SiteRows(s) /\ s \in Seq(Rows)
  BY <1>3 DEF SettingsInv, SiteShape, SiteRows
<1>9. c \in Contents
  <2>1. \A f : ValueIn("interface", f) \in SettingValues
    BY <1>3, <1>8, RowsAsSeen, ValueType
  <2>2. c \in [{"language"} -> SettingValues] /\ {"language"} \subseteq SettingNames
    BY <1>1, <2>1, HomeIs
  <2> QED
    BY <2>2 DEF Contents
<1>10. "interface" \in RowTypes
  BY TypesAre DEF OldHomes
<1>11. Stores(s, r, "interface", row)
  BY <1>1, <1>2, <1>3, <1>4, <1>8, <1>9, <1>10, RewriteStores DEF MoveUserConfigToInterface
<1>12. SiteRows(r)
  BY <1>2, <1>8, <1>11, StoredRows
<1>13. ASSUME NEW f \in SettingNames \ sp PROVE Kept(r, wanted, dbVersion, f)
  <2>1. f \notin spoilt /\ Kept(s, wanted, dbVersion, f)
    BY <1>3, <1>7, <1>13 DEF SettingsInv, SettingsOK, AllKept
  <2>2. Home[f] # "interface" /\ row.type = "interface"
    BY <1>2, PlaceIs DEF NewHomes, SameHomes
  <2>3. CASE FormerHome[f] # "interface"
    <3>1. Place(dbVersion, f) # "interface"
      BY <2>3, PlaceIs
    <3> QED
      BY <1>11, <2>1, <2>2, <2>3, <3>1, KeptFrame
  <2>4. CASE f = "avatar"
    <3>1. HasIn(s, Home[f])
      BY <1>7, <1>13, <2>4, HomeIs
    <3>2. HasIn(r, Home[f]) /\ ValueOf(r, Home[f], f) = ValueOf(s, Home[f], f)
      BY <1>11, <2>2, <3>1 DEF Stores
    <3> QED
      BY <2>1, <3>1, <3>2 DEF Kept
  <2>5. CASE f = "language"
    <3>1. FormerHome[f] = "interface" /\ Place(dbVersion, f) = "interface"
      BY <2>5, FormerHomeIs DEF Place
    <3>2. (HasIn(r, Home[f]) <=> HasIn(s, Home[f])) /\ ValueOf(r, Home[f], f) = ValueOf(s, Home[f], f)
      BY <1>11, <2>2 DEF Stores
    <3>3. ValueOf(r, "interface", f) = Cell(row, f)
      BY <1>11, <2>2 DEF Stores
    <3>4. Cell(row, f) = ValueOf(s, "interface", f)
      <4>1. row.content = c /\ f \in DOMAIN c /\ c[f] = ValueIn("interface", f)
        BY <1>1, <1>2, <2>5
      <4> QED
        BY <1>3, <4>1, RowsAsSeen DEF Cell
    <3> QED
      BY <2>1, <3>1, <3>2, <3>3, <3>4 DEF Kept
  <2> QED
    BY <2>3, <2>4, <2>5, HomeOf
<1>14. SplitOK(r, sp, p)
  <2>1. HasIn(s, "users_settings") => HasIn(r, "users_settings")
    BY <1>2, <1>11 DEF Stores
  <2> QED
    BY <1>7, <2>1 DEF SplitOK, Splitting
<1>15. InStep(dbVersion, p)
  BY <1>7 DEF InStep, SettingsInv, SettingsOK
<1>16. Settled(wanted, sp)
  BY <1>7, HomeIs DEF SettingsInv, SiteShape, Settled
<1>17. SettingsOK(r, wanted, dbVersion, sp, p)
  BY <1>13, <1>14, <1>15 DEF SettingsOK, AllKept
<1> QED
  BY <1>4, <1>5, <1>6, <1>7, <1>12, <1>16, <1>17 DEF StepKept

(* v1.8.1 puts the default prompt into the row of the AI. *)
LEMMA AddAPIKeyKept ==
  ASSUME SettingsInv, AddAPIKey
  PROVE  StepKept
<1>1. PICK c : c = [prompt |-> 1]
  OBVIOUS
<1>2. PICK row : row = [type |-> "ai", content |-> c]
  OBVIOUS
<1>3. PICK s : s = siteInfo
  OBVIOUS
<1>4. PICK r : r = siteInfo'
  OBVIOUS
<1>5. PICK p : p = process'
  OBVIOUS
<1>6. PICK sp : sp = spoilt'
  OBVIOUS
<1>7. PICK w : w = wanted'
  OBVIOUS
<1>8. /\ UNCHANGED dbVersion
      /\ process.pc = "work" /\ process.at = 4 /\ process.step = 1
      /\ p.pc = "flush" /\ p.at = 4 /\ p.step = 1
  <2>1. process.pc = "work" /\ process.at = 4 /\ process.step = 1
    BY DEF AddAPIKey, Working, SettingsInv, SettingsOK, InStep, Splitting, SiteShape,
           Running, Versions
  <2>2. p.pc = "flush" /\ p.at = process.at /\ p.step = process.step
    BY <1>5 DEF AddAPIKey, ContinueAt, SettingsInv, SiteShape, Running
  <2> QED
    BY <2>1, <2>2 DEF AddAPIKey, MigrationKeeps
<1>9. SiteRows(s) /\ wanted \in [SettingNames -> SettingValues] /\ spoilt \subseteq SettingNames
  BY <1>3 DEF SettingsInv, SiteShape, Settled
<1>10. c \in Contents /\ "ai" \in RowTypes
  <2>1. c \in [{"prompt"} -> SettingValues] /\ {"prompt"} \subseteq SettingNames
    BY <1>1, HomeIs, ValuesAre
  <2> QED
    BY <2>1, TypesAre DEF Contents, SameHomes
<1>11. Stores(s, r, "ai", row)
  BY <1>1, <1>2, <1>3, <1>4, <1>9, <1>10, RewriteStores, InsertStores DEF AddAPIKey
<1>12. SiteRows(r)
  BY <1>2, <1>9, <1>11, StoredRows
<1>13. /\ w \in [SettingNames -> SettingValues] /\ \A f \in SettingNames : f # "prompt" => w[f] = wanted[f]
       /\ spoilt \subseteq sp /\ sp \subseteq SettingNames
       /\ "prompt" \in sp \/ w["prompt"] = 1
  BY <1>6, <1>7, <1>9, HomeIs, ValuesAre DEF AddAPIKey
<1>14. ASSUME NEW f \in SettingNames \ sp PROVE Kept(r, w, dbVersion, f)
  <2>1. f \notin spoilt /\ Kept(s, wanted, dbVersion, f)
    BY <1>3, <1>13, <1>14 DEF SettingsInv, SettingsOK, AllKept
  <2>2. CASE f # "prompt"
    <3>1. Home[f] # "ai" /\ FormerHome[f] # "ai" /\ Place(dbVersion, f) # "ai" /\ row.type = "ai"
      BY <1>2, <2>2, HomeOf, PlaceIs
    <3> QED
      BY <1>11, <1>13, <2>1, <2>2, <3>1, KeptFrame
  <2>3. CASE f = "prompt"
    <3>1. Home[f] = "ai" /\ Cell(row, f) = 1
      <4>1. row.content = c /\ f \in DOMAIN c /\ c[f] = 1
        BY <1>1, <1>2, <2>3
      <4> QED
        BY <2>3, <4>1, HomeIs DEF Cell
    <3>2. HasIn(r, "ai") /\ ValueOf(r, "ai", f) = Cell(row, f)
      BY <1>2, <1>11 DEF Stores
    <3> QED
      BY <1>13, <1>14, <2>3, <3>1, <3>2, KeptAtHome
  <2> QED
    BY <2>2, <2>3
<1>15. SettingsOK(r, w, dbVersion, sp, p)
  BY <1>8, <1>14 DEF SettingsInv, SettingsOK, AllKept, InStep, SplitOK, Splitting
<1> QED
  BY <1>4, <1>5, <1>6, <1>7, <1>8, <1>12, <1>13, <1>15 DEF StepKept, Settled

(* v1.8.4 asks no rank of ordinary users. *)
LEMMA ZeroPrivilegesKept ==
  ASSUME SettingsInv, ZeroOrdinaryUserCustomPrivileges
  PROVE  StepKept
<1>1. PICK c : c = [ranks |-> 0]
  OBVIOUS
<1>2. PICK row : row = [type |-> "privileges", content |-> c]
  OBVIOUS
<1>3. PICK s : s = siteInfo
  OBVIOUS
<1>4. PICK r : r = siteInfo'
  OBVIOUS
<1>5. PICK p : p = process'
  OBVIOUS
<1>6. PICK w : w = wanted'
  OBVIOUS
<1>7. /\ UNCHANGED <<dbVersion, spoilt>>
      /\ process.pc = "work" /\ process.at = 7 /\ process.step = 1
      /\ p.pc = "flush" /\ p.at = 7 /\ p.step = 1
  <2>1. process.pc = "work" /\ process.at = 7 /\ process.step = 1
    BY DEF ZeroOrdinaryUserCustomPrivileges, Working, SettingsInv, SettingsOK, InStep, Splitting,
           SiteShape, Running, Versions
  <2>2. p.pc = "flush" /\ p.at = process.at /\ p.step = process.step
    BY <1>5 DEF ZeroOrdinaryUserCustomPrivileges, ContinueAt, SettingsInv, SiteShape, Running
  <2> QED
    BY <2>1, <2>2 DEF ZeroOrdinaryUserCustomPrivileges, MigrationKeeps
<1>8. SiteRows(s) /\ wanted \in [SettingNames -> SettingValues] /\ spoilt \subseteq SettingNames
  BY <1>3 DEF SettingsInv, SiteShape, Settled
<1>9. c \in Contents /\ "privileges" \in RowTypes
  <2>1. c \in [{"ranks"} -> SettingValues] /\ {"ranks"} \subseteq SettingNames
    BY <1>1, HomeIs, ValuesAre
  <2> QED
    BY <2>1, TypesAre DEF Contents, SameHomes
<1>10. Stores(s, r, "privileges", row)
  BY <1>1, <1>2, <1>3, <1>4, <1>8, <1>9, RewriteStores DEF ZeroOrdinaryUserCustomPrivileges
<1>11. SiteRows(r)
  BY <1>2, <1>8, <1>10, StoredRows
<1>12. /\ w \in [SettingNames -> SettingValues] /\ \A f \in SettingNames : f # "ranks" => w[f] = wanted[f]
       /\ w["ranks"] = 0
  BY <1>6, <1>8, HomeIs, ValuesAre DEF ZeroOrdinaryUserCustomPrivileges
<1>13. ASSUME NEW f \in SettingNames \ spoilt PROVE Kept(r, w, dbVersion, f)
  <2>1. Kept(s, wanted, dbVersion, f)
    BY <1>3, <1>13 DEF SettingsInv, SettingsOK, AllKept
  <2>2. CASE f # "ranks"
    <3>1. /\ Home[f] # "privileges" /\ FormerHome[f] # "privileges"
          /\ Place(dbVersion, f) # "privileges" /\ row.type = "privileges"
      BY <1>2, <2>2, HomeOf, PlaceIs
    <3> QED
      BY <1>10, <1>12, <2>1, <2>2, <3>1, KeptFrame
  <2>3. CASE f = "ranks"
    <3>1. Home[f] = "privileges" /\ Cell(row, f) = 0
      <4>1. row.content = c /\ f \in DOMAIN c /\ c[f] = 0
        BY <1>1, <1>2, <2>3
      <4> QED
        BY <2>3, <4>1, HomeIs DEF Cell
    <3>2. HasIn(r, "privileges") /\ ValueOf(r, "privileges", f) = Cell(row, f)
      BY <1>2, <1>10 DEF Stores
    <3> QED
      BY <1>12, <2>3, <3>1, <3>2, KeptAtHome
  <2> QED
    BY <2>2, <2>3
<1>14. SettingsOK(r, w, dbVersion, spoilt, p)
  BY <1>7, <1>13 DEF SettingsInv, SettingsOK, AllKept, InStep, SplitOK, Splitting
<1> QED
  BY <1>4, <1>5, <1>6, <1>7, <1>8, <1>11, <1>12, <1>14 DEF StepKept, Settled

-----------------------------------------------------------------------------
(* The steps of v1.8.0. *)
LEMMA StepsAre ==
  /\ Len(SplitSteps) = 9
  /\ SplitSteps[1] = "advanced" /\ SplitSteps[2] = "questions" /\ SplitSteps[3] = "tags"
  /\ SplitSteps[4] = "users_settings" /\ SplitSteps[5] = "interface_settings"
  /\ SplitSteps[6] = "policies" /\ SplitSteps[7] = "security"
  /\ SplitSteps[8] = "login" /\ SplitSteps[9] = "general"
BY DEF SplitSteps

LEMMA StepKinds ==
  ASSUME NEW n \in 1..Len(SplitSteps)
  PROVE  /\ n <= 7 => SplitSteps[n] \in NewHomes
         /\ n >= 8 => SplitSteps[n] \in Stripped
         /\ SplitSteps[n] \in Stripped => SplitSteps[n] \in {"login", "general"} /\ n \in {8, 9}
         /\ SplitSteps[n] \notin Stripped => n \in 1..7
         /\ SplitSteps[n] = "security" => n = 7
         /\ n = 7 => SplitSteps[n] = "security"
BY StepsAre DEF NewHomes, Stripped

LEMMA NotYetSplit ==
  ASSUME NEW p, p.step \in 1..Len(SplitSteps), NEW f \in SettingNames, Home[f] = SplitSteps[p.step]
  PROVE  ~IsSplit(p, f)
<1>1. \A i, j \in 1..9 : SplitSteps[i] = SplitSteps[j] => i = j
  BY StepsAre
<1> QED
  BY <1>1, StepsAre DEF IsSplit

LEMMA NextSplit ==
  ASSUME NEW p, NEW q, p.step \in 1..Len(SplitSteps), q.step = p.step + 1, NEW f \in SettingNames
  PROVE  IsSplit(q, f) <=> IsSplit(p, f) \/ Home[f] = SplitSteps[p.step]
<1>1. \A i \in 1..9 : i < q.step <=> i < p.step \/ i = p.step
  BY StepsAre
<1> QED
  BY <1>1, StepsAre DEF IsSplit

LEMMA AllSplit ==
  ASSUME NEW p, p.step \in {8, 9}, NEW f \in Moved
  PROVE  IsSplit(p, f)
<1>1. Home[f] \in NewHomes
  BY HomeOf DEF Moved
<1>2. \E i \in 1..7 : SplitSteps[i] = Home[f]
  BY <1>1, StepsAre DEF NewHomes
<1> QED
  BY <1>2, StepsAre DEF IsSplit

(* The step after one of v1.8.0. *)
LEMMA SplitProcess ==
  ASSUME SettingsInv, Working(4), SplitGoesOn
  PROVE  /\ process.pc = "work" /\ process.at = 3 /\ process.step \in 1..9 /\ dbVersion >= 3
         /\ process'.at = 3 /\ process'.pc \in {"work", "flush"}
         /\ process'.pc = "work" => /\ process.step < 9 /\ process'.step = process.step + 1
                                    /\ process'.seen = process.seen
         /\ process'.pc = "flush" => process.step = 9 /\ process'.step = 1
<1>1. process.pc = "work" /\ process.at = 3 /\ process.step \in 1..9 /\ dbVersion >= 3
  BY StepsAre DEF Working, SettingsInv, SettingsOK, InStep, SiteShape, Running, Versions
<1>2. CASE process.step < 9
  BY <1>1, <1>2, StepsAre DEF SplitGoesOn, SettingsInv, SiteShape, Running
<1>3. CASE ~(process.step < 9)
  <2>1. process' = [Off EXCEPT !.pc = "flush", !.at = process.at]
    BY <1>3, StepsAre DEF SplitGoesOn
  <2> QED
    BY <1>1, <1>3, <2>1 DEF Off
<1> QED
  BY <1>1, <1>2, <1>3

LEMMA HomesAt ==
  ASSUME NEW t
  PROVE  \E fs \in SUBSET SettingNames :
           fs = SettingsAt(t) /\ \A f \in SettingNames : f \in fs <=> Home[f] = t
<1>1. /\ SettingsAt(t) \in SUBSET SettingNames
      /\ \A f \in SettingNames : f \in SettingsAt(t) <=> Home[f] = t
  BY DEF SettingsAt
<1> QED
  BY <1>1

LEMMA InsertSplitKept ==
  ASSUME SettingsInv, InsertSplit
  PROVE  StepKept
<1>1. PICK n : n = process.step
  OBVIOUS
<1>2. PICK t : t = SplitStep
  OBVIOUS
<1>3. PICK c : c = [f \in SettingsAt(t) |-> process.seen[f]]
  OBVIOUS
<1>4. PICK row : row = [type |-> t, content |-> c]
  OBVIOUS
<1>5. PICK s : s = siteInfo
  OBVIOUS
<1>6. PICK r : r = siteInfo'
  OBVIOUS
<1>7. PICK p : p = process'
  OBVIOUS
<1>8. PICK sp : sp = spoilt'
  OBVIOUS
<1>9. PICK seen : seen = process.seen
  OBVIOUS
<1>10. UNCHANGED <<wanted, dbVersion>>
  BY DEF InsertSplit, MigrationKeeps
<1>11. /\ process.pc = "work" /\ process.at = 3 /\ n \in 1..9 /\ dbVersion >= 3 /\ dbVersion \in Nat
       /\ p.at = 3 /\ p.pc \in {"work", "flush"}
       /\ p.pc = "work" => n < 9 /\ p.step = n + 1 /\ p.seen = seen
       /\ p.pc = "flush" => n = 9 /\ p.step = 1
  BY <1>1, <1>7, <1>9, SplitProcess DEF InsertSplit, SettingsInv, SiteShape, Running, Versions
<1>12. t = SplitSteps[n] /\ t \in NewHomes /\ t \notin Stripped /\ n \in 1..7 /\ (n = 7 => t = "security")
  <2>1. t = SplitSteps[n] /\ t \notin Stripped
    BY <1>1, <1>2 DEF SplitStep, InsertSplit
  <2> QED
    BY <1>11, <2>1, StepsAre, StepKinds
<1>13. p.pc = "work"
  BY <1>11, <1>12
<1>14. SiteRows(s) /\ wanted \in [SettingNames -> SettingValues] /\ spoilt \subseteq SettingNames
       /\ seen \in [SettingNames -> SettingValues]
  BY <1>5, <1>9 DEF SettingsInv, SiteShape, Settled, Running
<1>15. PICK fs \in SUBSET SettingNames : fs = SettingsAt(t) /\ \A f \in SettingNames : f \in fs <=> Home[f] = t
  BY HomesAt
<1>16. sp = spoilt \cup {f \in fs : /\ ~HasIn(s, t)
                                    /\ LookedFor(t) # t \/ ~HasIn(s, Source(t))
                                    /\ seen[f] # 0}
  BY <1>2, <1>5, <1>8, <1>9, <1>15, RowsAsSeen DEF InsertSplit
<1>17. spoilt \subseteq sp /\ sp \subseteq SettingNames
  BY <1>14, <1>15, <1>16
<1>18. CASE HasIn(s, Source(t)) /\ ~HasIn(s, LookedFor(t))
  <2>1. t # "advanced" /\ LookedFor(t) = t
    BY <1>18 DEF LookedFor, Source
  <2>2. sp = spoilt /\ ~HasIn(s, t)
    BY <1>16, <1>18, <2>1
  <2>3. Insert(t, c) /\ ~Has(t)
    BY <1>2, <1>3, <1>5, <1>18, <2>2, RowsAsSeen DEF InsertSplit
  <2>4. c \in Contents /\ t \in RowTypes
    <3>1. c \in [fs -> SettingValues]
      BY <1>3, <1>9, <1>14, <1>15
    <3> QED
      BY <1>12, <3>1, TypesAre DEF Contents
  <2>5. Stores(s, r, t, row)
    BY <1>4, <1>5, <1>6, <1>14, <2>3, <2>4, InsertStores
  <2>6. SiteRows(r)
    BY <1>4, <1>14, <2>5, StoredRows
  <2>7. HasIn(r, t) /\ (\A f : ValueOf(r, t, f) = Cell(row, f)) /\ row.type = t
    BY <1>4, <2>5 DEF Stores
  <2>8. \A u : u # t => (HasIn(r, u) <=> HasIn(s, u)) /\ \A f : ValueOf(r, u, f) = ValueOf(s, u, f)
    BY <1>4, <2>5 DEF Stores
  <2>9. ASSUME NEW f \in SettingNames \ spoilt PROVE Kept(r, wanted, dbVersion, f)
    <3>1. Kept(s, wanted, dbVersion, f)
      BY <1>5, <2>9 DEF SettingsInv, SettingsOK, AllKept
    <3>2. FormerHome[f] # t /\ Place(dbVersion, f) # t
      BY <1>12, PlaceIs DEF NewHomes, OldHomes, SameHomes
    <3>3. CASE Home[f] # t
      BY <2>5, <2>7, <3>1, <3>2, <3>3, KeptFrame
    <3>4. CASE Home[f] = t
      <4>1. wanted[f] = ValueOf(s, FormerHome[f], f)
        <5>1. Place(dbVersion, f) = FormerHome[f]
          BY <1>11, PlaceIs
        <5> QED
          BY <2>2, <3>1, <3>4, <5>1 DEF Kept
      <4>2. seen[f] = ValueOf(s, FormerHome[f], f)
        <5>1. ~IsSplit(process, f)
          BY <1>1, <1>11, <1>12, <3>4, StepsAre, NotYetSplit
        <5>2. f \in Moved \ spoilt
          BY <2>9, <3>2, <3>4 DEF Moved
        <5> QED
          BY <1>5, <1>9, <1>11, <5>1, <5>2 DEF SettingsInv, SettingsOK, SplitOK, Splitting
      <4>3. Cell(row, f) = seen[f]
        <5>1. row.content = c /\ f \in DOMAIN c /\ c[f] = seen[f]
          BY <1>3, <1>4, <1>9, <1>15, <3>4
        <5> QED
          BY <5>1 DEF Cell
      <4> QED
        BY <2>7, <3>4, <4>1, <4>2, <4>3, KeptAtHome
    <3> QED
      BY <3>3, <3>4
  <2>10. ASSUME NEW f \in Moved \ spoilt
         PROVE  IF IsSplit(p, f) THEN Empty(r, f) ELSE p.seen[f] = ValueOf(r, FormerHome[f], f)
    <3>1. f \in SettingNames /\ FormerHome[f] # t
      BY <1>12, HomeOf DEF Moved, NewHomes, OldHomes
    <3>2. IsSplit(p, f) <=> IsSplit(process, f) \/ Home[f] = t
      BY <1>1, <1>11, <1>12, <1>13, <3>1, StepsAre, NextSplit
    <3>3. ValueOf(r, FormerHome[f], f) = ValueOf(s, FormerHome[f], f)
      BY <2>8, <3>1
    <3>4. HasIn(s, Home[f]) => HasIn(r, Home[f])
      BY <2>7, <2>8
    <3>5. IF IsSplit(process, f) THEN Empty(s, f) ELSE seen[f] = ValueOf(s, FormerHome[f], f)
      BY <1>5, <1>9, <1>11, <2>10 DEF SettingsInv, SettingsOK, SplitOK, Splitting
    <3> QED
      BY <1>11, <1>13, <2>7, <3>2, <3>3, <3>4, <3>5 DEF Empty
  <2>11. n = 7 => HasIn(r, "security")
    BY <1>12, <2>7
  <2>12. SplitOK(r, sp, p)
    BY <1>11, <1>12, <1>13, <2>2, <2>10, <2>11 DEF SplitOK
  <2>13. SettingsOK(r, wanted, dbVersion, sp, p)
    BY <1>11, <1>13, <2>2, <2>9, <2>12 DEF SettingsOK, AllKept, InStep, Splitting
  <2> QED
    BY <1>6, <1>7, <1>8, <1>10, <1>14, <2>2, <2>6, <2>13 DEF StepKept, Settled
<1>19. CASE ~(HasIn(s, Source(t)) /\ ~HasIn(s, LookedFor(t)))
  <2>1. r = s
    BY <1>2, <1>5, <1>6, <1>19, RowsAsSeen DEF InsertSplit
  <2>2. ASSUME NEW f \in SettingNames \ sp PROVE Kept(s, wanted, dbVersion, f)
    BY <1>5, <1>17, <2>2 DEF SettingsInv, SettingsOK, AllKept
  <2>3. ASSUME NEW f \in Moved \ sp
        PROVE  IF IsSplit(p, f) THEN Empty(s, f) ELSE p.seen[f] = ValueOf(s, FormerHome[f], f)
    <3>1. f \in SettingNames /\ f \in Moved \ spoilt
      BY <1>17, <2>3 DEF Moved
    <3>2. IsSplit(p, f) <=> IsSplit(process, f) \/ Home[f] = t
      BY <1>1, <1>11, <1>12, <1>13, <3>1, StepsAre, NextSplit
    <3>3. IF IsSplit(process, f) THEN Empty(s, f) ELSE seen[f] = ValueOf(s, FormerHome[f], f)
      BY <1>5, <1>9, <1>11, <3>1 DEF SettingsInv, SettingsOK, SplitOK, Splitting
    <3>4. CASE Home[f] # t
      BY <1>11, <1>13, <3>2, <3>3, <3>4
    <3>5. CASE Home[f] = t
      <4>1. ~IsSplit(process, f)
        BY <1>1, <1>11, <1>12, <3>1, <3>5, StepsAre, NotYetSplit
      <4>2. HasIn(s, t) \/ seen[f] = 0
        BY <1>15, <1>16, <1>19, <2>3, <3>1, <3>5
      <4> QED
        BY <3>2, <3>3, <3>5, <4>1, <4>2 DEF Empty
    <3> QED
      BY <3>4, <3>5
  <2>4. n = 7 => (HasIn(s, "legal") => HasIn(s, "security"))
    <3>1. n = 7 => Source(t) = "legal" /\ LookedFor(t) = "security"
      BY <1>12 DEF Source, LookedFor
    <3> QED
      BY <1>19, <3>1
  <2>5. SplitOK(s, sp, p)
    BY <1>11, <1>12, <1>13, <2>3, <2>4 DEF SplitOK
  <2>6. SettingsOK(s, wanted, dbVersion, sp, p)
    BY <1>11, <1>13, <2>2, <2>5 DEF SettingsOK, AllKept, InStep, Splitting
  <2> QED
    BY <1>6, <1>7, <1>8, <1>10, <1>14, <1>17, <2>1, <2>6 DEF StepKept, Settled
<1> QED
  BY <1>18, <1>19

LEMMA StripRowKept ==
  ASSUME SettingsInv, StripRow
  PROVE  StepKept
<1>1. PICK n : n = process.step
  OBVIOUS
<1>2. PICK t : t = SplitStep
  OBVIOUS
<1>3. PICK c : c = [f \in SettingsAt(t) |-> ValueIn(t, f)]
  OBVIOUS
<1>4. PICK row : row = [type |-> t, content |-> c]
  OBVIOUS
<1>5. PICK s : s = siteInfo
  OBVIOUS
<1>6. PICK r : r = siteInfo'
  OBVIOUS
<1>7. PICK p : p = process'
  OBVIOUS
<1>8. UNCHANGED <<wanted, dbVersion, spoilt>>
  BY DEF StripRow, MigrationKeeps
<1>9. /\ process.pc = "work" /\ process.at = 3 /\ n \in 1..9 /\ dbVersion >= 3 /\ dbVersion \in Nat
      /\ p.at = 3 /\ p.pc \in {"work", "flush"}
      /\ p.pc = "work" => n < 9 /\ p.step = n + 1
      /\ p.pc = "flush" => n = 9 /\ p.step = 1
  BY <1>1, <1>7, SplitProcess DEF StripRow, SettingsInv, SiteShape, Running, Versions
<1>10. t = SplitSteps[n] /\ t \in {"login", "general"} /\ n \in {8, 9}
  <2>1. t = SplitSteps[n] /\ t \in Stripped
    BY <1>1, <1>2 DEF SplitStep, StripRow
  <2> QED
    BY <1>9, <2>1, StepsAre, StepKinds
<1>11. SiteRows(s) /\ s \in Seq(Rows) /\ Settled(wanted, spoilt)
  BY <1>5 DEF SettingsInv, SiteShape, SiteRows
<1>12. HasIn(s, t)
  BY <1>10, <1>11 DEF SiteRows
<1>13. PICK fs \in SUBSET SettingNames : fs = SettingsAt(t) /\ \A f \in SettingNames : f \in fs <=> Home[f] = t
  BY HomesAt
<1>14. HasIn(s, "legal") => HasIn(s, "security")
  BY <1>1, <1>5, <1>9, <1>10 DEF SettingsInv, SettingsOK, SplitOK, Splitting
<1>15. ASSUME NEW f \in Moved \ spoilt PROVE Empty(s, f)
  <2>1. IsSplit(process, f)
    BY <1>1, <1>10, AllSplit
  <2> QED
    BY <1>5, <1>9, <2>1 DEF SettingsInv, SettingsOK, SplitOK, Splitting
(* What is left to show once the rows are known. *)
<1>16. ASSUME SiteRows(r),
              \A f \in SettingNames \ spoilt : Kept(r, wanted, dbVersion, f),
              \A f \in Moved \ spoilt : Empty(r, f),
              HasIn(r, "legal") => HasIn(r, "security")
       PROVE  StepKept
  <2>1. p.pc = "work" => \A f \in Moved : IsSplit(p, f)
    <3>1. p.pc = "work" => p.step \in {8, 9}
      BY <1>9, <1>10
    <3> QED
      BY <3>1, AllSplit
  <2>2. SplitOK(r, spoilt, p)
    BY <1>9, <1>16, <2>1 DEF SplitOK, Splitting
  <2>3. SettingsOK(r, wanted, dbVersion, spoilt, p)
    BY <1>9, <1>16, <2>2 DEF SettingsOK, AllKept, InStep, Splitting
  <2> QED
    BY <1>6, <1>7, <1>8, <1>11, <1>16, <2>3 DEF StepKept
<1>17. CASE ~HasIn(s, "legal")
  <2>1. r = s
    BY <1>5, <1>6, <1>17, RowsAsSeen DEF StripRow
  <2>2. \A f \in SettingNames \ spoilt : Kept(s, wanted, dbVersion, f)
    BY <1>5 DEF SettingsInv, SettingsOK, AllKept
  <2> QED
    BY <1>11, <1>14, <1>15, <1>16, <2>1, <2>2
<1>18. CASE HasIn(s, "legal")
  <2>1. Rewrite(t, c) /\ Has(t)
    BY <1>2, <1>3, <1>5, <1>12, <1>18, RowsAsSeen DEF StripRow
  <2>2. c \in Contents /\ t \in RowTypes
    <3>1. \A f : ValueIn(t, f) \in SettingValues
      BY <1>5, <1>11, RowsAsSeen, ValueType
    <3>2. c \in [fs -> SettingValues]
      BY <1>3, <1>13, <3>1
    <3> QED
      BY <1>10, <3>2, TypesAre DEF Contents, SameHomes
  <2>3. Stores(s, r, t, row) /\ row.type = t
    BY <1>4, <1>5, <1>6, <1>11, <2>1, <2>2, RewriteStores
  <2>4. SiteRows(r)
    BY <1>11, <2>3, StoredRows
  <2>5. HasIn(r, t) /\ \A f : ValueOf(r, t, f) = Cell(row, f)
    BY <2>3 DEF Stores
  <2>6. \A u : u # t => (HasIn(r, u) <=> HasIn(s, u)) /\ \A f : ValueOf(r, u, f) = ValueOf(s, u, f)
    BY <2>3 DEF Stores
  <2>7. HasIn(r, "legal") /\ HasIn(r, "security")
    BY <1>10, <1>14, <1>18, <2>6
  <2>8. ASSUME NEW f \in SettingNames, FormerHome[f] = t, Home[f] # t PROVE HasIn(r, Home[f])
    BY <1>10, <2>7, <2>8, HomeOf
  <2>9. ASSUME NEW f \in SettingNames \ spoilt PROVE Kept(r, wanted, dbVersion, f)
    <3>1. Kept(s, wanted, dbVersion, f)
      BY <1>5, <2>9 DEF SettingsInv, SettingsOK, AllKept
    <3>2. CASE Home[f] = t
      <4>1. Cell(row, f) = ValueOf(s, t, f)
        <5>1. row.content = c /\ f \in DOMAIN c /\ c[f] = ValueIn(t, f)
          BY <1>3, <1>4, <1>13, <3>2
        <5> QED
          BY <1>5, <5>1, RowsAsSeen DEF Cell
      <4>2. wanted[f] = ValueOf(s, t, f)
        BY <1>12, <3>1, <3>2 DEF Kept
      <4> QED
        BY <2>5, <3>2, <4>1, <4>2, KeptAtHome
    <3>3. CASE Home[f] # t /\ FormerHome[f] = t
      <4>1. HasIn(r, Home[f]) /\ HasIn(s, Home[f])
        BY <2>6, <2>8, <3>3
      <4>2. wanted[f] = ValueOf(r, Home[f], f)
        BY <2>6, <3>1, <3>3, <4>1 DEF Kept
      <4> QED
        BY <4>1, <4>2, KeptAtHome
    <3>4. CASE Home[f] # t /\ FormerHome[f] # t
      <4>1. Place(dbVersion, f) # t
        BY <1>10, <3>4, PlaceIs
      <4> QED
        BY <2>3, <3>1, <3>4, <4>1, KeptFrame
    <3> QED
      BY <3>2, <3>3, <3>4
  <2>10. ASSUME NEW f \in Moved \ spoilt PROVE Empty(r, f)
    <3>1. f \in SettingNames /\ Home[f] # t
      BY <1>10, HomeOf DEF Moved, NewHomes
    <3>2. CASE FormerHome[f] = t
      BY <2>8, <3>1, <3>2 DEF Empty
    <3>3. CASE FormerHome[f] # t
      <4>1. Empty(s, f)
        BY <1>15, <2>10
      <4>2. HasIn(r, Home[f]) <=> HasIn(s, Home[f])
        BY <2>6, <3>1
      <4>3. ValueOf(r, FormerHome[f], f) = ValueOf(s, FormerHome[f], f)
        BY <2>6, <3>3
      <4> QED
        BY <4>1, <4>2, <4>3 DEF Empty
    <3> QED
      BY <3>2, <3>3
  <2> QED
    BY <1>16, <2>4, <2>7, <2>9, <2>10
<1> QED
  BY <1>17, <1>18

-----------------------------------------------------------------------------
(* The administrator saves a page. *)
LEMMA SaveSettingKept ==
  ASSUME SettingsInv, NEW t \in Savable, SaveSetting(t)
  PROVE  StepKept
<1>1. PICK v : v = saves + 2
  OBVIOUS
<1>2. PICK row : row = SiteRow(StoredAs(t), SettingsAt(t), v)
  OBVIOUS
<1>3. PICK s : s = siteInfo
  OBVIOUS
<1>4. PICK r : r = siteInfo'
  OBVIOUS
<1>5. PICK w : w = wanted'
  OBVIOUS
<1>6. PICK sp : sp = spoilt'
  OBVIOUS
<1>7. UNCHANGED <<dbVersion, process>> /\ process.pc = "server"
  BY DEF SaveSetting
<1>8. v \in SettingValues
  BY <1>1, ValuesAre DEF SaveSetting, SettingsInv, SiteShape, Running
<1>9. t \in NewHomes \cup SameHomes /\ StoredAs(t) \in NewHomes \cup SameHomes
  BY TypesAre DEF StoredAs, NewHomes
<1>10. SiteRows(s) /\ wanted \in [SettingNames -> SettingValues] /\ spoilt \subseteq SettingNames
  BY <1>3 DEF SettingsInv, SiteShape, Settled
<1>11. PICK fs \in SUBSET SettingNames : fs = SettingsAt(t) /\ \A f \in SettingNames : f \in fs <=> Home[f] = t
  BY HomesAt
<1>12. /\ row.type = StoredAs(t) /\ row \in Rows
       /\ \A f \in fs : Cell(row, f) = v
  <2>1. PICK c : c = [f \in fs |-> v]
    OBVIOUS
  <2>2. c \in [fs -> SettingValues]
    BY <1>8, <2>1
  <2>3. row = [type |-> StoredAs(t), content |-> c] /\ StoredAs(t) \in RowTypes
    BY <1>2, <1>9, <1>11, <2>1, TypesAre DEF SiteRow
  <2>4. row \in Rows /\ row.type = StoredAs(t) /\ row.content = c
    BY <2>2, <2>3, RowIs
  <2> QED
    BY <2>1, <2>4 DEF Cell
<1>13. Stores(s, r, t, row)
  <2>1. SaveByType(t, row)
    BY <1>1, <1>2 DEF SaveSetting
  <2>2. t \in RowTypes
    BY <1>9, TypesAre
  <2> QED
    BY <1>3, <1>4, <1>10, <1>12, <2>1, <2>2, SaveStores
<1>14. row.type = t \/ (t = "users_settings" /\ row.type = "interface_settings")
  BY <1>12 DEF StoredAs
<1>15. SiteRows(r)
  BY <1>10, <1>13, <1>14, StoredRows
<1>16. /\ w \in [SettingNames -> SettingValues]
       /\ \A f \in SettingNames : w[f] = IF Home[f] = t THEN v ELSE wanted[f]
  BY <1>1, <1>5, <1>8, <1>10 DEF SaveSetting
<1>17. /\ sp \subseteq SettingNames
       /\ \A f \in SettingNames \ sp :
            /\ Home[f] # t => f \notin spoilt
            /\ Home[f] # t /\ FormerHome[f] = t => HasIn(s, Home[f])
            /\ row.type # t => Home[f] # t /\ Home[f] # row.type
  BY <1>3, <1>6, <1>10, <1>12, RowsAsSeen DEF SaveSetting, SettingsAt, FormerAt
<1>18. ASSUME NEW f \in SettingNames \ sp PROVE Kept(r, w, dbVersion, f)
  <2>1. CASE Home[f] = t
    <3>1. row.type = t /\ f \in fs
      BY <1>11, <1>17, <1>18, <2>1
    <3>2. HasIn(r, t) /\ ValueOf(r, t, f) = v
      BY <1>12, <1>13, <3>1 DEF Stores
    <3> QED
      BY <1>16, <1>18, <2>1, <3>2, KeptAtHome
  <2>2. CASE Home[f] # t
    <3>1. f \notin spoilt /\ Kept(s, wanted, dbVersion, f) /\ w[f] = wanted[f]
      BY <1>3, <1>16, <1>17, <1>18, <2>2 DEF SettingsInv, SettingsOK, AllKept
    <3>2. Home[f] \notin {t, row.type}
      BY <1>17, <1>18, <2>2
    <3>3. CASE FormerHome[f] = t
      <4>1. HasIn(s, Home[f]) /\ wanted[f] = ValueOf(s, Home[f], f)
        BY <1>17, <1>18, <2>2, <3>1, <3>3 DEF Kept
      <4>2. HasIn(r, Home[f]) /\ ValueOf(r, Home[f], f) = ValueOf(s, Home[f], f)
        BY <1>13, <3>2, <4>1 DEF Stores
      <4> QED
        BY <3>1, <4>1, <4>2, KeptAtHome
    <3>4. CASE FormerHome[f] # t
      <4>1. FormerHome[f] # row.type /\ Place(dbVersion, f) \notin {t, row.type}
        <5>1. "users" \notin {t, row.type}
          BY <1>9, <1>12 DEF NewHomes, SameHomes
        <5>2. FormerHome[f] # row.type
          BY <1>14, <3>4, PlaceIs DEF OldHomes, SameHomes
        <5> QED
          BY <3>4, <5>1, <5>2, PlaceIs
      <4> QED
        BY <1>13, <3>1, <3>2, <3>4, <4>1, KeptFrame
    <3> QED
      BY <3>3, <3>4
  <2> QED
    BY <2>1, <2>2
<1>19. SettingsOK(r, w, dbVersion, sp, process)
  BY <1>7, <1>18 DEF SettingsInv, SettingsOK, AllKept, InStep, SplitOK, Splitting
<1> QED
  BY <1>4, <1>5, <1>6, <1>7, <1>15, <1>16, <1>17, <1>19 DEF StepKept, Settled

-----------------------------------------------------------------------------
(* The rows of a new installation and of an older site. *)
LEMMA SiteRowIs ==
  ASSUME NEW t \in RowTypes, NEW fs \in SUBSET SettingNames
  PROVE  SiteRow(t, fs, 1) \in Rows /\ SiteRow(t, fs, 1).type = t
<1>1. PICK c : c = [f \in fs |-> 1]
  OBVIOUS
<1>2. c \in [fs -> SettingValues]
  BY <1>1, ValuesAre
<1>3. SiteRow(t, fs, 1) = [type |-> t, content |-> c]
  BY <1>1 DEF SiteRow
<1>4. [type |-> t, content |-> c] \in Rows /\ [type |-> t, content |-> c].type = t
  BY <1>2, RowIs
<1> QED
  BY <1>3, <1>4

LEMMA NewRowsAre ==
  /\ SiteRows(NewRows)
  /\ \A f \in SettingNames : HasIn(NewRows, Home[f]) \/ ValueOf(NewRows, FormerHome[f], f) = 0
<1>1. PICK s : s = NewRows
  OBVIOUS
<1>2. /\ s \in Seq(Rows) /\ DOMAIN s = 1..11
      /\ s[1].type = "interface_settings" /\ s[2].type = "users_settings"
      /\ s[3].type = "general" /\ s[4].type = "login" /\ s[5].type = "users"
      /\ s[6].type = "privileges" /\ s[7].type = "advanced" /\ s[8].type = "questions"
      /\ s[9].type = "tags" /\ s[10].type = "security" /\ s[11].type = "ai"
  <2>1. /\ {"language"} \subseteq SettingNames /\ {"avatar"} \subseteq SettingNames
        /\ {"name"} \subseteq SettingNames /\ {"signup"} \subseteq SettingNames
        /\ {"ranks"} \subseteq SettingNames /\ {"images"} \subseteq SettingNames
        /\ {"answers"} \subseteq SettingNames /\ {"slugs"} \subseteq SettingNames
        /\ {"prompt"} \subseteq SettingNames /\ SettingsAt("security") \subseteq SettingNames
    BY HomeIs DEF SettingsAt
  <2>2. {"interface_settings", "users_settings", "general", "login", "users", "privileges",
         "advanced", "questions", "tags", "security", "ai"} \subseteq RowTypes
    BY TypesAre DEF NewHomes, SameHomes
  <2> QED
    BY <1>1, <2>1, <2>2, SiteRowIs DEF NewRows
<1>3. \A t \in {"interface_settings", "users_settings", "general", "login", "privileges", "advanced",
               "questions", "tags", "security", "ai"} : HasIn(s, t)
  BY <1>2 DEF HasIn
<1>4. ~HasIn(s, "legal")
  BY <1>2 DEF HasIn
<1>5. ASSUME NEW f \in SettingNames PROVE HasIn(s, Home[f]) \/ ValueOf(s, FormerHome[f], f) = 0
  <2>1. CASE Home[f] = "policies"
    BY <1>4, <2>1, HomeOf DEF ValueOf
  <2>2. CASE Home[f] # "policies"
    BY <1>3, <2>2, HomeOf DEF NewHomes, SameHomes
  <2> QED
    BY <2>1, <2>2
<1> QED
  BY <1>1, <1>2, <1>3, <1>5 DEF SiteRows

LEMMA OldRowsAre ==
  ASSUME NEW o \in {<<>>, <<"write">>, <<"legal">>, <<"write", "legal">>}
  PROVE  SiteRows(OldRows(o))
<1>1. /\ FormerAt("general") \subseteq SettingNames /\ FormerAt("login") \subseteq SettingNames
      /\ \A t : FormerAt(t) \subseteq SettingNames
      /\ {"language"} \subseteq SettingNames /\ {"language", "avatar"} \subseteq SettingNames
      /\ {"avatar"} \subseteq SettingNames /\ {"ranks"} \subseteq SettingNames
  BY HomeIs DEF FormerAt
<1>2. {"interface", "general", "login", "users", "privileges", "write", "legal"} \subseteq RowTypes
  BY TypesAre DEF OldHomes, SameHomes
<1>3. PICK site : site =
        <<SiteRow("interface", IF dbVersion = 0 THEN {"language"} ELSE {"language", "avatar"}, 1),
          SiteRow("general", FormerAt("general"), 1), SiteRow("login", FormerAt("login"), 1),
          SiteRow("users", {"avatar"}, 1), SiteRow("privileges", {"ranks"}, 1)>>
  OBVIOUS
<1>4. /\ site \in Seq(Rows) /\ Len(site) = 5
      /\ site[2].type = "general" /\ site[3].type = "login" /\ site[5].type = "privileges"
  BY <1>1, <1>2, <1>3, SiteRowIs
<1>5. PICK more : more = [i \in DOMAIN o |-> SiteRow(o[i], FormerAt(o[i]), 1)]
  OBVIOUS
<1>6. more \in Seq(Rows)
  <2>1. PICK n \in Nat : DOMAIN o = 1..n /\ \A i \in 1..n : o[i] \in {"write", "legal"}
    <3>1. CASE o = <<>>
      BY <3>1
    <3>2. CASE o = <<"write">>
      BY <3>2
    <3>3. CASE o = <<"legal">>
      BY <3>3
    <3>4. CASE o = <<"write", "legal">>
      BY <3>4
    <3> QED
      BY <3>1, <3>2, <3>3, <3>4
  <2>2. more \in [1..n -> Rows]
    BY <1>1, <1>2, <1>5, <2>1, SiteRowIs
  <2> QED
    BY <2>2, SeqDef
<1>7. PICK s : s = site \o more
  OBVIOUS
<1>8. s \in Seq(Rows) /\ {2, 3, 5} \subseteq DOMAIN s /\ \A i \in {2, 3, 5} : s[i] = site[i]
  <2>1. /\ s \in Seq(Rows) /\ Len(s) = 5 + Len(more) /\ Len(more) \in Nat
        /\ \A i \in 1..(5 + Len(more)) : s[i] = IF i <= 5 THEN site[i] ELSE more[i - 5]
    <3>1. site \in Seq(Rows) /\ more \in Seq(Rows) /\ Len(site) = 5
      BY <1>4, <1>6
    <3>2. /\ site \o more \in Seq(Rows)
          /\ Len(site \o more) = Len(site) + Len(more)
          /\ \A i \in 1..(Len(site) + Len(more)) :
               (site \o more)[i] = IF i <= Len(site) THEN site[i] ELSE more[i - Len(site)]
      BY <3>1, ConcatProperties, Zenon
    <3>3. Len(more) \in Nat
      BY <3>1
    <3> QED
      BY <1>7, <3>1, <3>2, <3>3, Zenon
  <2>2. DOMAIN s = 1..(5 + Len(more))
    BY <2>1
  <2> QED
    BY <2>1, <2>2
<1>9. HasIn(s, "general") /\ HasIn(s, "login") /\ HasIn(s, "privileges")
  BY <1>4, <1>8 DEF HasIn
<1>10. OldRows(o) = s
  BY <1>3, <1>5, <1>7 DEF OldRows
<1> QED
  BY <1>8, <1>9, <1>10 DEF SiteRows

LEMMA SettingsInit == SInit => SettingsInv
<1> SUFFICES ASSUME SInit PROVE SettingsInv
  OBVIOUS
<1>1. PICK s : s = siteInfo
  OBVIOUS
<1>2. dbVersion \in {0, 1, 8}
  BY LastVersion DEF SInit
<1>3. SiteRows(s) /\ s \in Seq(Rows)
  BY <1>1, NewRowsAre, OldRowsAre DEF SInit, SiteRows
<1>4. /\ spoilt = {} /\ process = Off /\ memory = {} /\ cacheFile \subseteq {dbVersion}
      /\ flushLost = FALSE /\ saves = 0 /\ upgrades = 0 /\ stops = 0
  BY DEF SInit
<1>5. ASSUME NEW f \in SettingNames
      PROVE  wanted[f] = IF HasIn(s, Home[f]) THEN ValueOf(s, Home[f], f)
                         ELSE ValueOf(s, Place(dbVersion, f), f)
  <2>1. KeptAt(f) = Place(dbVersion, f)
    BY DEF KeptAt, Place
  <2> QED
    BY <1>1, <2>1, RowsAsSeen DEF SInit
<1>6. wanted \in [SettingNames -> SettingValues]
  <2>1. \A f \in SettingNames : wanted[f] \in SettingValues
    BY <1>3, <1>5, ValueType
  <2>2. wanted = [f \in SettingNames |-> wanted[f]]
    BY DEF SInit
  <2> QED
    BY <2>1, <2>2
<1>7. ASSUME NEW f \in SettingNames, dbVersion >= 4, ~HasIn(s, Home[f])
      PROVE  ValueOf(s, FormerHome[f], f) = 0
  <2>1. s = NewRows
    BY <1>1, <1>2, <1>7, LastVersion DEF SInit
  <2> QED
    BY <1>7, <2>1, NewRowsAre
<1>8. Running
  <2>1. Off \in [pc : {"down"}, at : Versions, step : 1..Len(SplitSteps), seen : [SettingNames -> SettingValues]]
    BY ValuesAre, LastVersion DEF Off, Unseen, SplitSteps
  <2>2. dbVersion \in Versions
    BY <1>2, LastVersion
  <2>3. process \in [pc : {"down", "server", "next", "work", "flush", "version"},
                    at : Versions, step : 1..Len(SplitSteps), seen : [SettingNames -> SettingValues]]
    BY <1>4, <2>1
  <2>4. memory \subseteq Versions /\ cacheFile \subseteq Versions /\ flushLost \in BOOLEAN
    BY <1>4, <2>2
  <2>5. saves \in 0..MaxSaves /\ upgrades \in 0..MaxUpgrades /\ stops \in 0..MaxStops
    BY <1>4
  <2> QED
    BY <2>2, <2>3, <2>4, <2>5 DEF Running
<1>9. SettingsOK(s, wanted, dbVersion, spoilt, process)
  BY <1>4, <1>5, <1>7, OffIs DEF SettingsOK, AllKept, Kept, InStep, SplitOK, Splitting
<1> QED
  BY <1>1, <1>3, <1>4, <1>6, <1>8, <1>9, SiteInvInit DEF SettingsInv, SiteShape, Settled

LEMMA SettingsStep ==
  ASSUME SettingsInv, SNext
  PROVE  SettingsInv'
<1>1. StepKept
  <2>1. CASE NextMigration
    BY <2>1, NextMigrationKept
  <2>2. CASE MoveUserConfigToInterface \/ AddAPIKey \/ ZeroOrdinaryUserCustomPrivileges
    BY <2>2, MoveUserConfigToInterfaceKept, AddAPIKeyKept, ZeroPrivilegesKept
  <2>3. CASE InsertSplit \/ StripRow
    BY <2>3, InsertSplitKept, StripRowKept
  <2>4. CASE FlushCache \/ WriteVersion
    BY <2>4, FlushCacheKept, WriteVersionKept
  <2>5. CASE \/ \E from \in 0..dbVersion : StartUpgrade(from)
             \/ UpgradeDone \/ UpgradeEnds \/ StartServer \/ ServerStops
    BY <2>5, OtherStepsKept
  <2>6. CASE GetByType \/ SaveCacheFile \/ \E v \in memory : EntriesExpire(v)
    <3>1. RowsKept /\ UNCHANGED <<dbVersion, process>>
      BY <2>6 DEF GetByType, SaveCacheFile, EntriesExpire
    <3> QED
      BY <3>1, CacheStepsKept
  <2>7. ASSUME NEW t \in Savable, SaveSetting(t) PROVE StepKept
    BY <2>7, SaveSettingKept
  <2> QED
    BY <2>1, <2>2, <2>3, <2>4, <2>5, <2>6, <2>7 DEF SNext, SUpgrade, SServer
<1>2. Running'
  BY RunningStep DEF SettingsInv
<1>3. SiteInv'
  BY SiteInvUpgrade, SiteInvServer DEF SettingsInv, SNext
<1>4. SettingsOK(siteInfo, wanted, dbVersion, spoilt, process)'
  BY <1>1 DEF StepKept
<1> QED
  BY <1>1, <1>2, <1>3, <1>4 DEF SettingsInv, StepKept, SiteShape

LEMMA SettingsInductive == SSpec => []SettingsInv
<1>1. SettingsInv /\ UNCHANGED sVars => SettingsInv'
  BY DEF sVars, SettingsInv, SiteInv, ProcessOK, CacheOK, SiteShape, Running
<1> QED
  BY <1>1, SettingsInit, SettingsStep, PTL DEF SSpec

(* Every variable of the settings, the upgrades and the caches keeps its type. *)
THEOREM SettingsTyped == SSpec => []STypeOK
<1>1. SettingsInv => STypeOK
  BY ShapeTypes DEF SettingsInv
<1> QED
  BY <1>1, SettingsInductive, PTL

(* Whatever upgrades begin, break off and begin again, from any version the site
   has reached, and whatever pages are saved between them: each setting tells
   what was asked for last, in the row where the server of this version looks. *)
THEOREM SettingsKeptTheorem == SSpec => []SettingsKept
<1>1. SettingsInv => SettingsKept
  <2> SUFFICES ASSUME SettingsInv, NEW f \in SettingNames \ spoilt
               PROVE  wanted[f] = IF Has(Home[f]) \/ dbVersion >= 4 THEN Told(f) ELSE ValueIn(KeptAt(f), f)
    BY DEF SettingsKept
  <2>1. Kept(siteInfo, wanted, dbVersion, f) /\ dbVersion \in Nat
    BY DEF SettingsInv, SettingsOK, AllKept, SiteShape, Running, Versions
  <2>2. KeptAt(f) = Place(dbVersion, f)
    BY DEF KeptAt, Place
  <2>3. dbVersion >= 4 => Place(dbVersion, f) = FormerHome[f]
    BY <2>1, PlaceIs
  <2>4. ~HasIn(siteInfo, Home[f]) => ValueOf(siteInfo, Home[f], f) = 0
    BY DEF ValueOf
  <2> QED
    BY <2>1, <2>2, <2>3, <2>4, RowsAsSeen DEF Kept, Told
<1> QED
  BY <1>1, SettingsInductive, PTL

-----------------------------------------------------------------------------
(* KVStore *)
USE KVAssumption DEF KVAssumption

(* Which call a caller may be at which access for.  The keys of a whole group are
   excused, and only a transaction keeps rows to itself. *)
KVShape ==
  \A c \in KVCallers :
    /\ kvpc[c] = "idle" <=> kvreq[c].op = "none"
    /\ kvpc[c] \in {"cache", "read", "fill"} => kvreq[c].op = "get"
    /\ kvpc[c] \in {"update", "insert"} => kvreq[c].op = "set"
    /\ kvpc[c] = "delete" => kvreq[c].op \in {"del", "delgroup"}
    /\ kvpc[c] = "clean" => kvreq[c].op \in {"set", "del", "delgroup"}
    /\ kvreq[c].op = "delgroup" => kvreq[c].on \subseteq excused
    /\ c \notin session => touched[c] = {}

(* Who writes a key is alone with it. *)
OneWriter ==
  \A c, d \in KVCallers : c # d => KVWriting(c) \cap KVBusy(d) \subseteq excused

(* An entry has the value of the row as the transaction that has written it sees
   it, or as everyone sees it. *)
EntryCurrent ==
  \A k \in KVKeys \ excused : entry[k] # NoRow =>
    /\ \A c \in KVCallers : k \in touched[c] => entry[k] = written[c][k]
    /\ (\A c \in KVCallers : k \notin touched[c]) => entry[k] = stored[k]

(* No entry has come back since the writer deleted it, *)
Cleaned ==
  \A c \in KVCallers : kvpc[c] \in {"update", "insert", "delete"} =>
    \A k \in kvreq[c].on \ excused : entry[k] = NoRow

(* and what Get is about to put there is not out of date. *)
FillCurrent ==
  \A c \in KVCallers : kvpc[c] = "fill" =>
    \A k \in kvreq[c].on \ excused : readValue[c] = IF k \in touched[c] THEN written[c][k] ELSE stored[k]

KVInv ==
  KVTypeOK /\ KVShape /\ OneWriter /\ EntryCurrent /\ Cleaned /\ FillCurrent

(* A request is about keys, and but for Del of a group about one. *)
LEMMA RequestShape ==
  ASSUME NEW r \in KVRequests
  PROVE  /\ r.op \in {"get", "set", "del", "delgroup"}
         /\ r.on \subseteq KVKeys
         /\ r.val \in KVCell
         /\ r.op = "set" => r.val \in KVValues
         /\ r.op # "delgroup" => \E k \in KVKeys : r.on = {k}
BY DEF KVRequests, KVKeys, KVCell

LEMMA KeyOfCall ==
  ASSUME KVInv, NEW c \in KVCallers, kvpc[c] # "idle", kvreq[c].op # "delgroup"
  PROVE  KeyOf(c) \in KVKeys /\ kvreq[c].on = {KeyOf(c)}
<1>1. kvreq[c] \in KVRequests
  BY DEF KVInv, KVTypeOK, KVShape, NoRequest
<1>2. \E k \in KVKeys : kvreq[c].on = {k}
  BY <1>1, RequestShape
<1> QED
  BY <1>2 DEF KeyOf

LEMMA KVInitInv == KVInit => KVInv
BY DEF KVInit, KVInv, KVTypeOK, KVShape, OneWriter, EntryCurrent, Cleaned, FillCurrent,
  KVBusy, KVWriting, NoRequest, KVPCs, KVCell

(* The accesses, one after the other. *)
LEMMA KVCallInv ==
  ASSUME KVInv, NEW c \in KVCallers, KVCall(c)
  PROVE  KVInv'
<1>1. KVTypeOK'
  <2>1. PICK r \in KVRequests :
          /\ kvreq' = [kvreq EXCEPT ![c] = r]
          /\ kvpc' = [kvpc EXCEPT ![c] = IF r.op = "get" THEN "cache" ELSE "clean"]
          /\ excused' = excused \cup KVOverlap(c, r)
    BY DEF KVCall
  <2>2. r.on \subseteq KVKeys
    BY RequestShape
  <2>3. excused' \subseteq KVKeys
    BY <2>1, <2>2 DEF KVOverlap, KVInv, KVTypeOK
  <2>4. kvreq' \in [KVCallers -> KVRequests \cup {NoRequest}]
    BY <2>1 DEF KVInv, KVTypeOK
  <2>5. kvCalls' \in 0..MaxKVCalls
    BY DEF KVCall, KVInv, KVTypeOK
  <2> QED
    BY <2>1, <2>3, <2>4, <2>5 DEF KVCall, kvRows, KVInv, KVTypeOK, KVPCs
<1>2. KVShape'
  <2>1. PICK r \in KVRequests :
          /\ kvreq' = [kvreq EXCEPT ![c] = r]
          /\ kvpc' = [kvpc EXCEPT ![c] = IF r.op = "get" THEN "cache" ELSE "clean"]
          /\ excused' = excused \cup KVOverlap(c, r)
    BY DEF KVCall
  <2>2. r.op \in {"get", "set", "del", "delgroup"}
    BY RequestShape
  <2>3. r.op = "delgroup" => r.on \subseteq excused'
    BY <2>1 DEF KVOverlap
  <2>4. excused \subseteq excused'
    BY <2>1
  <2> QED
    BY <2>1, <2>2, <2>3, <2>4 DEF KVCall, kvRows, KVInv, KVTypeOK, KVShape
<1>3. OneWriter'
    BY DEF KVCall, KVOverlap, kvRows, KVInv, KVTypeOK, KVShape, OneWriter, KVBusy, KVWriting
<1>4. EntryCurrent'
    BY DEF KVCall, KVOverlap, kvRows, KVInv, KVTypeOK, EntryCurrent
<1>5. Cleaned'
    BY DEF KVCall, KVOverlap, kvRows, KVInv, KVTypeOK, KVShape, Cleaned
<1>6. FillCurrent'
    BY DEF KVCall, KVOverlap, kvRows, KVInv, KVTypeOK, KVShape, FillCurrent
<1> QED
  BY <1>1, <1>2, <1>3, <1>4, <1>5, <1>6 DEF KVInv

LEMMA GetHitInv ==
  ASSUME KVInv, NEW c \in KVCallers, GetHit(c)
  PROVE  KVInv'
<1>1. KVTypeOK'
    BY DEF GetHit, KVReturn, KVGoto, kvRows, KVInv, KVTypeOK, KVPCs, KVCell
<1>2. KVShape'
    BY DEF GetHit, KVReturn, KVGoto, kvRows, KVInv, KVTypeOK, KVShape, NoRequest
<1>3. OneWriter'
    BY DEF GetHit, KVReturn, KVGoto, kvRows, KVInv, KVTypeOK, KVShape, OneWriter, KVBusy,
         KVWriting
<1>4. EntryCurrent'
    BY DEF GetHit, KVReturn, KVGoto, kvRows, KVInv, KVTypeOK, EntryCurrent
<1>5. Cleaned'
    BY DEF GetHit, KVReturn, KVGoto, kvRows, KVInv, KVTypeOK, KVShape, Cleaned
<1>6. FillCurrent'
    BY DEF GetHit, KVReturn, KVGoto, kvRows, KVInv, KVTypeOK, KVShape, FillCurrent
<1> QED
  BY <1>1, <1>2, <1>3, <1>4, <1>5, <1>6 DEF KVInv

LEMMA GetNotFoundInv ==
  ASSUME KVInv, NEW c \in KVCallers, GetNotFound(c)
  PROVE  KVInv'
<1>1. KVTypeOK'
    BY DEF GetNotFound, KVReturn, KVGoto, kvRows, KVInv, KVTypeOK, KVPCs, KVCell
<1>2. KVShape'
    BY DEF GetNotFound, KVReturn, KVGoto, kvRows, KVInv, KVTypeOK, KVShape, NoRequest
<1>3. OneWriter'
    BY DEF GetNotFound, KVReturn, KVGoto, kvRows, KVInv, KVTypeOK, KVShape, OneWriter, KVBusy,
         KVWriting
<1>4. EntryCurrent'
    BY DEF GetNotFound, KVReturn, KVGoto, kvRows, KVInv, KVTypeOK, EntryCurrent
<1>5. Cleaned'
    BY DEF GetNotFound, KVReturn, KVGoto, kvRows, KVInv, KVTypeOK, KVShape, Cleaned
<1>6. FillCurrent'
    BY DEF GetNotFound, KVReturn, KVGoto, kvRows, KVInv, KVTypeOK, KVShape, FillCurrent
<1> QED
  BY <1>1, <1>2, <1>3, <1>4, <1>5, <1>6 DEF KVInv

LEMMA GetMissInv ==
  ASSUME KVInv, NEW c \in KVCallers, GetMiss(c)
  PROVE  KVInv'
<1>1. KVTypeOK'
    BY DEF GetMiss, KVGoto, kvRows, kvCaller, KVInv, KVTypeOK, KVPCs, KVCell
<1>2. KVShape'
    BY DEF GetMiss, KVGoto, kvRows, kvCaller, KVInv, KVTypeOK, KVShape, NoRequest
<1>3. OneWriter'
    BY DEF GetMiss, KVGoto, kvRows, kvCaller, KVInv, KVTypeOK, KVShape, OneWriter, KVBusy,
         KVWriting
<1>4. EntryCurrent'
    BY DEF GetMiss, KVGoto, kvRows, kvCaller, KVInv, KVTypeOK, EntryCurrent
<1>5. Cleaned'
    BY DEF GetMiss, KVGoto, kvRows, kvCaller, KVInv, KVTypeOK, KVShape, Cleaned
<1>6. FillCurrent'
    BY DEF GetMiss, KVGoto, kvRows, kvCaller, KVInv, KVTypeOK, KVShape, FillCurrent
<1> QED
  BY <1>1, <1>2, <1>3, <1>4, <1>5, <1>6 DEF KVInv

LEMMA GetCacheErrorInv ==
  ASSUME KVInv, NEW c \in KVCallers, GetCacheError(c)
  PROVE  KVInv'
<1>1. KVTypeOK'
    BY DEF GetCacheError, KVGoto, kvRows, kvCaller, KVInv, KVTypeOK, KVPCs, KVCell
<1>2. KVShape'
    BY DEF GetCacheError, KVGoto, kvRows, kvCaller, KVInv, KVTypeOK, KVShape, NoRequest
<1>3. OneWriter'
    BY DEF GetCacheError, KVGoto, kvRows, kvCaller, KVInv, KVTypeOK, KVShape, OneWriter,
         KVBusy, KVWriting
<1>4. EntryCurrent'
    BY DEF GetCacheError, KVGoto, kvRows, kvCaller, KVInv, KVTypeOK, EntryCurrent
<1>5. Cleaned'
    BY DEF GetCacheError, KVGoto, kvRows, kvCaller, KVInv, KVTypeOK, KVShape, Cleaned
<1>6. FillCurrent'
    BY DEF GetCacheError, KVGoto, kvRows, kvCaller, KVInv, KVTypeOK, KVShape, FillCurrent
<1> QED
  BY <1>1, <1>2, <1>3, <1>4, <1>5, <1>6 DEF KVInv

LEMMA GetRowInv ==
  ASSUME KVInv, NEW c \in KVCallers, GetRow(c)
  PROVE  KVInv'
<1>1. KVTypeOK'
  <2>1. KeyOf(c) \in KVKeys /\ kvreq[c].on = {KeyOf(c)}
    BY KeyOfCall DEF GetRow, KVReturn, KVGoto, KVInv, KVShape
  <2>2. KVView(c)[KeyOf(c)] \in KVCell
    BY <2>1 DEF KVView, KVInv, KVTypeOK
  <2> QED
    BY <2>2 DEF GetRow, KVGoto, kvRows, KVInv, KVTypeOK, KVPCs
<1>2. KVShape'
    BY DEF GetRow, KVGoto, kvRows, KVInv, KVTypeOK, KVShape, NoRequest
<1>3. OneWriter'
    BY DEF GetRow, KVGoto, kvRows, KVInv, KVTypeOK, KVShape, OneWriter, KVBusy, KVWriting
<1>4. EntryCurrent'
    BY DEF GetRow, KVGoto, kvRows, KVInv, KVTypeOK, EntryCurrent
<1>5. Cleaned'
    BY DEF GetRow, KVGoto, kvRows, KVInv, KVTypeOK, KVShape, Cleaned
<1>6. FillCurrent'
  <2>1. KeyOf(c) \in KVKeys /\ kvreq[c].on = {KeyOf(c)}
    BY KeyOfCall DEF GetRow, KVReturn, KVGoto, KVInv, KVShape
  <2>2. readValue'[c] = IF KeyOf(c) \in touched[c] THEN written[c][KeyOf(c)] ELSE stored[KeyOf(c)]
    BY <2>1 DEF GetRow, KVView, KVInv, KVTypeOK
  <2> QED
    BY <2>1, <2>2 DEF GetRow, KVGoto, kvRows, KVInv, KVTypeOK, FillCurrent
<1> QED
  BY <1>1, <1>2, <1>3, <1>4, <1>5, <1>6 DEF KVInv

LEMMA GetFillInv ==
  ASSUME KVInv, NEW c \in KVCallers, GetFill(c)
  PROVE  KVInv'
<1>1. KVTypeOK'
  <2>1. KeyOf(c) \in KVKeys /\ kvreq[c].on = {KeyOf(c)}
    BY KeyOfCall DEF GetFill, KVReturn, KVGoto, KVInv, KVShape
  <2> QED
    BY <2>1 DEF GetFill, KVReturn, KVGoto, kvRows, KVInv, KVTypeOK, KVPCs, KVCell
<1>2. KVShape'
    BY KeyOfCall DEF GetFill, KVReturn, KVGoto, kvRows, KVInv, KVTypeOK, KVShape, NoRequest
<1>3. OneWriter'
    BY KeyOfCall DEF GetFill, KVReturn, KVGoto, kvRows, KVInv, KVTypeOK, KVShape, OneWriter,
         KVBusy, KVWriting
<1>4. EntryCurrent'
  <2>1. KeyOf(c) \in KVKeys /\ kvreq[c].on = {KeyOf(c)}
    BY KeyOfCall DEF GetFill, KVReturn, KVGoto, KVInv, KVShape
  <2>2. /\ kvpc[c] = "fill" /\ kvreq[c].op = "get"
        /\ entry' = [entry EXCEPT ![KeyOf(c)] = readValue[c]]
        /\ UNCHANGED <<stored, touched, written, excused>>
    BY DEF GetFill, KVReturn, KVGoto, kvRows, KVInv, KVShape
  <2> SUFFICES ASSUME NEW k \in KVKeys \ excused, entry'[k] # NoRow
               PROVE  /\ \A d \in KVCallers : k \in touched[d] => entry'[k] = written[d][k]
                      /\ (\A d \in KVCallers : k \notin touched[d]) => entry'[k] = stored[k]
    BY <2>2 DEF EntryCurrent
  <2>3. CASE k # KeyOf(c)
    BY <2>2, <2>3 DEF KVInv, KVTypeOK, EntryCurrent
  <2>4. CASE k = KeyOf(c)
    <3>1. entry'[k] = IF k \in touched[c] THEN written[c][k] ELSE stored[k]
      BY <2>1, <2>2, <2>4 DEF KVInv, KVTypeOK, FillCurrent
    <3>2. \A d \in KVCallers \ {c} : k \notin touched[d]
      BY <2>1, <2>2, <2>4 DEF KVInv, OneWriter, KVWriting, KVBusy
    <3> QED
      BY <3>1, <3>2
  <2> QED
    BY <2>3, <2>4
<1>5. Cleaned'
  <2>1. KeyOf(c) \in KVKeys /\ kvreq[c].on = {KeyOf(c)}
    BY KeyOfCall DEF GetFill, KVReturn, KVGoto, KVInv, KVShape
  <2>2. /\ kvpc[c] = "fill" /\ kvpc' = [kvpc EXCEPT ![c] = "idle"]
        /\ kvreq' = [kvreq EXCEPT ![c] = NoRequest] /\ UNCHANGED excused
        /\ entry' = [entry EXCEPT ![KeyOf(c)] = readValue[c]]
    BY DEF GetFill, KVReturn, KVGoto
  <2> SUFFICES ASSUME NEW d \in KVCallers, kvpc'[d] \in {"update", "insert", "delete"},
                      NEW k \in kvreq'[d].on \ excused
               PROVE  entry'[k] = NoRow
    BY <2>2 DEF Cleaned
  <2>3. d # c /\ kvpc[d] \in {"update", "insert", "delete"} /\ k \in kvreq[d].on
    BY <2>2 DEF KVInv, KVTypeOK
  <2>4. k \in KVWriting(d) /\ entry[k] = NoRow
    BY <2>3 DEF KVInv, KVShape, KVWriting, Cleaned
  <2>5. k # KeyOf(c)
    BY <2>1, <2>2, <2>3, <2>4 DEF KVInv, OneWriter, KVBusy
  <2> QED
    BY <2>2, <2>4, <2>5 DEF KVInv, KVTypeOK
<1>6. FillCurrent'
    BY KeyOfCall DEF GetFill, KVReturn, KVGoto, kvRows, KVInv, KVTypeOK, KVShape, FillCurrent
<1> QED
  BY <1>1, <1>2, <1>3, <1>4, <1>5, <1>6 DEF KVInv

LEMMA GetFillLostInv ==
  ASSUME KVInv, NEW c \in KVCallers, GetFillLost(c)
  PROVE  KVInv'
<1>1. KVTypeOK'
    BY DEF GetFillLost, KVReturn, KVGoto, kvRows, KVInv, KVTypeOK, KVPCs, KVCell
<1>2. KVShape'
    BY DEF GetFillLost, KVReturn, KVGoto, kvRows, KVInv, KVTypeOK, KVShape, NoRequest
<1>3. OneWriter'
    BY DEF GetFillLost, KVReturn, KVGoto, kvRows, KVInv, KVTypeOK, KVShape, OneWriter, KVBusy,
         KVWriting
<1>4. EntryCurrent'
    BY DEF GetFillLost, KVReturn, KVGoto, kvRows, KVInv, KVTypeOK, EntryCurrent
<1>5. Cleaned'
    BY DEF GetFillLost, KVReturn, KVGoto, kvRows, KVInv, KVTypeOK, KVShape, Cleaned
<1>6. FillCurrent'
    BY DEF GetFillLost, KVReturn, KVGoto, kvRows, KVInv, KVTypeOK, KVShape, FillCurrent
<1> QED
  BY <1>1, <1>2, <1>3, <1>4, <1>5, <1>6 DEF KVInv

LEMMA CleanCacheInv ==
  ASSUME KVInv, NEW c \in KVCallers, CleanCache(c)
  PROVE  KVInv'
<1>1. KVTypeOK'
    BY KeyOfCall DEF CleanCache, KVGoto, AfterClean, OneKey, kvRows, kvCaller, KVInv,
         KVTypeOK, KVPCs, KVCell
<1>2. KVShape'
    BY KeyOfCall DEF CleanCache, KVGoto, AfterClean, OneKey, kvRows, kvCaller, KVInv,
         KVTypeOK, KVShape, NoRequest
<1>3. OneWriter'
    BY KeyOfCall DEF CleanCache, KVGoto, AfterClean, OneKey, kvRows, kvCaller, KVInv,
         KVTypeOK, KVShape, OneWriter, KVBusy, KVWriting
<1>4. EntryCurrent'
    BY KeyOfCall DEF CleanCache, KVGoto, AfterClean, OneKey, kvRows, kvCaller, KVInv,
         KVTypeOK, EntryCurrent
<1>5. Cleaned'
    BY KeyOfCall DEF CleanCache, KVGoto, AfterClean, OneKey, kvRows, kvCaller, KVInv,
         KVTypeOK, KVShape, Cleaned
<1>6. FillCurrent'
    BY KeyOfCall DEF CleanCache, KVGoto, AfterClean, OneKey, kvRows, kvCaller, KVInv,
         KVTypeOK, KVShape, FillCurrent
<1> QED
  BY <1>1, <1>2, <1>3, <1>4, <1>5, <1>6 DEF KVInv

LEMMA CleanGroupInv ==
  ASSUME KVInv, NEW c \in KVCallers, CleanGroup(c)
  PROVE  KVInv'
<1>1. KVTypeOK'
    BY DEF CleanGroup, KVGoto, AfterClean, OneKey, kvRows, kvCaller, KVInv, KVTypeOK, KVPCs,
         KVCell
<1>2. KVShape'
    BY DEF CleanGroup, KVGoto, AfterClean, OneKey, kvRows, kvCaller, KVInv, KVTypeOK, KVShape,
         NoRequest
<1>3. OneWriter'
    BY DEF CleanGroup, KVGoto, AfterClean, OneKey, kvRows, kvCaller, KVInv, KVTypeOK, KVShape,
         OneWriter, KVBusy, KVWriting
<1>4. EntryCurrent'
    BY DEF CleanGroup, KVGoto, AfterClean, OneKey, kvRows, kvCaller, KVInv, KVTypeOK,
         EntryCurrent
<1>5. Cleaned'
    BY DEF CleanGroup, KVGoto, AfterClean, OneKey, kvRows, kvCaller, KVInv, KVTypeOK, KVShape,
         Cleaned
<1>6. FillCurrent'
    BY DEF CleanGroup, KVGoto, AfterClean, OneKey, kvRows, kvCaller, KVInv, KVTypeOK, KVShape,
         FillCurrent
<1> QED
  BY <1>1, <1>2, <1>3, <1>4, <1>5, <1>6 DEF KVInv

LEMMA CleanCacheErrorInv ==
  ASSUME KVInv, NEW c \in KVCallers, CleanCacheError(c)
  PROVE  KVInv'
<1>1. KVTypeOK'
  <2>1. kvreq[c] \in KVRequests
    BY DEF CleanCacheError, KVGoto, KVInv, KVTypeOK, KVShape, NoRequest
  <2>2. excused' \subseteq KVKeys
    BY <2>1, RequestShape DEF CleanCacheError, KVInv, KVTypeOK
  <2> QED
    BY <2>2 DEF CleanCacheError, KVGoto, AfterClean, kvRows, kvCaller, KVInv, KVTypeOK, KVPCs
<1>2. KVShape'
    BY DEF CleanCacheError, KVGoto, AfterClean, kvRows, kvCaller, KVInv, KVTypeOK, KVShape,
         NoRequest
<1>3. OneWriter'
    BY DEF CleanCacheError, KVGoto, AfterClean, kvRows, kvCaller, KVInv, KVTypeOK, KVShape,
         OneWriter, KVBusy, KVWriting
<1>4. EntryCurrent'
    BY DEF CleanCacheError, KVGoto, AfterClean, kvRows, kvCaller, KVInv, KVTypeOK,
         EntryCurrent
<1>5. Cleaned'
    BY DEF CleanCacheError, KVGoto, AfterClean, kvRows, kvCaller, KVInv, KVTypeOK, KVShape,
         Cleaned
<1>6. FillCurrent'
    BY DEF CleanCacheError, KVGoto, AfterClean, kvRows, kvCaller, KVInv, KVTypeOK, KVShape,
         FillCurrent
<1> QED
  BY <1>1, <1>2, <1>3, <1>4, <1>5, <1>6 DEF KVInv

LEMMA SetAffectsNoneInv ==
  ASSUME KVInv, NEW c \in KVCallers, SetAffectsNone(c)
  PROVE  KVInv'
<1>1. KVTypeOK'
    BY DEF SetAffectsNone, KVGoto, kvRows, kvCaller, KVInv, KVTypeOK, KVPCs, KVCell
<1>2. KVShape'
    BY DEF SetAffectsNone, KVGoto, kvRows, kvCaller, KVInv, KVTypeOK, KVShape, NoRequest
<1>3. OneWriter'
    BY DEF SetAffectsNone, KVGoto, kvRows, kvCaller, KVInv, KVTypeOK, KVShape, OneWriter,
         KVBusy, KVWriting
<1>4. EntryCurrent'
    BY DEF SetAffectsNone, KVGoto, kvRows, kvCaller, KVInv, KVTypeOK, EntryCurrent
<1>5. Cleaned'
    BY DEF SetAffectsNone, KVGoto, kvRows, kvCaller, KVInv, KVTypeOK, KVShape, Cleaned
<1>6. FillCurrent'
    BY DEF SetAffectsNone, KVGoto, kvRows, kvCaller, KVInv, KVTypeOK, KVShape, FillCurrent
<1> QED
  BY <1>1, <1>2, <1>3, <1>4, <1>5, <1>6 DEF KVInv

LEMMA SetDuplicateInv ==
  ASSUME KVInv, NEW c \in KVCallers, SetDuplicate(c)
  PROVE  KVInv'
<1>1. KVTypeOK'
    BY DEF SetDuplicate, KVReturn, KVGoto, kvRows, KVInv, KVTypeOK, KVPCs, KVCell
<1>2. KVShape'
    BY DEF SetDuplicate, KVReturn, KVGoto, kvRows, KVInv, KVTypeOK, KVShape, NoRequest
<1>3. OneWriter'
    BY DEF SetDuplicate, KVReturn, KVGoto, kvRows, KVInv, KVTypeOK, KVShape, OneWriter,
         KVBusy, KVWriting
<1>4. EntryCurrent'
    BY DEF SetDuplicate, KVReturn, KVGoto, kvRows, KVInv, KVTypeOK, EntryCurrent
<1>5. Cleaned'
    BY DEF SetDuplicate, KVReturn, KVGoto, kvRows, KVInv, KVTypeOK, KVShape, Cleaned
<1>6. FillCurrent'
    BY DEF SetDuplicate, KVReturn, KVGoto, kvRows, KVInv, KVTypeOK, KVShape, FillCurrent
<1> QED
  BY <1>1, <1>2, <1>3, <1>4, <1>5, <1>6 DEF KVInv

LEMMA TxBeginInv ==
  ASSUME KVInv, NEW c \in KVCallers, TxBegin(c)
  PROVE  KVInv'
<1>1. KVTypeOK'
    BY DEF TxBegin, kvRows, KVInv, KVTypeOK, KVPCs, KVCell
<1>2. KVShape'
    BY DEF TxBegin, kvRows, KVInv, KVTypeOK, KVShape, NoRequest
<1>3. OneWriter'
    BY DEF TxBegin, kvRows, KVInv, KVTypeOK, KVShape, OneWriter, KVBusy, KVWriting
<1>4. EntryCurrent'
    BY DEF TxBegin, kvRows, KVInv, KVTypeOK, EntryCurrent
<1>5. Cleaned'
    BY DEF TxBegin, kvRows, KVInv, KVTypeOK, KVShape, Cleaned
<1>6. FillCurrent'
    BY DEF TxBegin, kvRows, KVInv, KVTypeOK, KVShape, FillCurrent
<1> QED
  BY <1>1, <1>2, <1>3, <1>4, <1>5, <1>6 DEF KVInv

LEMMA TxCommitInv ==
  ASSUME KVInv, NEW c \in KVCallers, TxCommit(c)
  PROVE  KVInv'
<1>1. KVTypeOK'
  <2>1. stored' \in [KVKeys -> KVCell]
    BY DEF TxCommit, KVView, KVInv, KVTypeOK
  <2> QED
    BY <2>1 DEF TxCommit, TxEnd, KVInv, KVTypeOK, KVCell
<1>2. KVShape'
    BY DEF TxCommit, TxEnd, KVInv, KVTypeOK, KVShape, NoRequest
<1>3. OneWriter'
    BY DEF TxCommit, TxEnd, KVInv, KVTypeOK, KVShape, OneWriter, KVBusy, KVWriting
<1>4. EntryCurrent'
  <2>1. /\ stored' = [k \in KVKeys |-> IF k \in touched[c] THEN written[c][k] ELSE stored[k]]
        /\ touched' = [touched EXCEPT ![c] = {}]
        /\ \A d \in KVCallers \ {c} : written'[d] = written[d]
        /\ UNCHANGED <<entry, excused>>
    BY DEF TxCommit, TxEnd, KVView, KVInv, KVTypeOK
  <2> SUFFICES ASSUME NEW k \in KVKeys \ excused, entry[k] # NoRow
               PROVE  /\ \A d \in KVCallers : k \in touched'[d] => entry[k] = written'[d][k]
                      /\ (\A d \in KVCallers : k \notin touched'[d]) => entry[k] = stored'[k]
    BY <2>1 DEF EntryCurrent
  <2>2. /\ \A d \in KVCallers : k \in touched[d] => entry[k] = written[d][k]
        /\ (\A d \in KVCallers : k \notin touched[d]) => entry[k] = stored[k]
    BY DEF KVInv, EntryCurrent
  <2>3. \A d \in KVCallers : touched'[d] = IF d = c THEN {} ELSE touched[d]
    BY <2>1 DEF KVInv, KVTypeOK
  <2> QED
    BY <2>1, <2>2, <2>3
<1>5. Cleaned'
    BY DEF TxCommit, TxEnd, KVInv, KVTypeOK, KVShape, Cleaned
<1>6. FillCurrent'
  <2>1. /\ kvpc[c] = "idle" /\ UNCHANGED <<kvpc, kvreq, readValue, excused>>
        /\ \A k \in KVKeys : stored'[k] = IF k \in touched[c] THEN written[c][k] ELSE stored[k]
        /\ \A d \in KVCallers \ {c} : written'[d] = written[d] /\ touched'[d] = touched[d]
    BY DEF TxCommit, TxEnd, KVView, KVInv, KVTypeOK
  <2> SUFFICES ASSUME NEW d \in KVCallers, kvpc[d] = "fill", NEW k \in kvreq[d].on \ excused
               PROVE  readValue[d] = IF k \in touched'[d] THEN written'[d][k] ELSE stored'[k]
    BY <2>1 DEF FillCurrent
  <2>2. d # c /\ k \in KVBusy(d)
    BY <2>1 DEF KVBusy
  <2>3. k \notin touched[c]
    BY <2>2 DEF KVInv, OneWriter, KVWriting
  <2>4. kvreq[d] \in KVRequests
    BY DEF KVInv, KVTypeOK, KVShape, NoRequest
  <2>5. k \in KVKeys
    BY <2>4, RequestShape
  <2> QED
    BY <2>1, <2>2, <2>3, <2>5 DEF KVInv, FillCurrent
<1> QED
  BY <1>1, <1>2, <1>3, <1>4, <1>5, <1>6 DEF KVInv

LEMMA TxRollbackInv ==
  ASSUME KVInv, NEW c \in KVCallers, TxRollback(c)
  PROVE  KVInv'
<1>1. KVTypeOK'
    BY DEF TxRollback, TxEnd, KVInv, KVTypeOK, KVPCs, KVCell
<1>2. KVShape'
    BY DEF TxRollback, TxEnd, KVInv, KVTypeOK, KVShape, NoRequest
<1>3. OneWriter'
    BY DEF TxRollback, TxEnd, KVInv, KVTypeOK, KVShape, OneWriter, KVBusy, KVWriting
<1>4. EntryCurrent'
    BY DEF TxRollback, TxEnd, KVInv, KVTypeOK, EntryCurrent
<1>5. Cleaned'
    BY DEF TxRollback, TxEnd, KVInv, KVTypeOK, KVShape, Cleaned
<1>6. FillCurrent'
    BY DEF TxRollback, TxEnd, KVInv, KVTypeOK, KVShape, FillCurrent
<1> QED
  BY <1>1, <1>2, <1>3, <1>4, <1>5, <1>6 DEF KVInv

LEMMA KVExpireInv ==
  ASSUME KVInv, NEW k \in KVKeys, KVExpire(k)
  PROVE  KVInv'
<1>1. KVTypeOK'
    BY DEF KVExpire, kvRows, kvCaller, KVInv, KVTypeOK, KVPCs, KVCell
<1>2. KVShape'
  <2>1. \A c \in KVCallers : kvreq[c].op = "delgroup" => kvreq[c].on \subseteq excused'
    BY DEF KVExpire, KVInv, KVShape, KVBusy
  <2> QED
    BY <2>1 DEF KVExpire, kvRows, kvCaller, KVInv, KVShape
<1>3. OneWriter'
    BY DEF KVExpire, kvRows, kvCaller, KVInv, KVTypeOK, KVShape, OneWriter, KVBusy, KVWriting
<1>4. EntryCurrent'
    BY DEF KVExpire, kvRows, kvCaller, KVInv, KVTypeOK, EntryCurrent
<1>5. Cleaned'
    BY DEF KVExpire, kvRows, kvCaller, KVInv, KVTypeOK, KVShape, Cleaned
<1>6. FillCurrent'
  <2> SUFFICES ASSUME NEW c \in KVCallers, kvpc[c] = "fill", NEW j \in kvreq[c].on \ excused'
               PROVE  readValue[c] = IF j \in touched[c] THEN written[c][j] ELSE stored[j]
    BY DEF KVExpire, kvRows, kvCaller, FillCurrent
  <2>1. j \notin excused
    BY DEF KVExpire, KVBusy
  <2> QED
    BY <2>1 DEF KVInv, FillCurrent
<1> QED
  BY <1>1, <1>2, <1>3, <1>4, <1>5, <1>6 DEF KVInv

(* A statement that writes some of the keys of its call. *)
LEMMA KVWriteInv ==
  ASSUME KVInv, NEW c \in KVCallers, kvpc[c] \in {"update", "insert", "delete"},
         NEW ks \in SUBSET kvreq[c].on, NEW v \in KVCell, KVWrite(c, ks, v),
         KVReturn(c, kvpc[c]), UNCHANGED <<entry, session, kvCalls, kvFaults, excused>>
  PROVE  KVInv'
<1> DEFINE r == kvreq[c]
<1>1. r \in KVRequests /\ r.op # "get" /\ r.on \subseteq KVKeys /\ kvpc[c] # "idle"
  <2>1. kvreq[c].op # "none" /\ kvreq[c].op # "get" /\ kvpc[c] # "idle"
    BY DEF KVInv, KVShape
  <2>2. kvreq[c] \in KVRequests
    BY <2>1 DEF KVInv, KVTypeOK, NoRequest
  <2> QED
    BY <2>1, <2>2, RequestShape
<1>2. \A d \in KVCallers \ {c} : touched[d] \cap ks = {}
  BY DEF KVWrite, KVUnlocked
<1>3. \A k \in ks \ excused : entry[k] = NoRow
  BY DEF KVInv, Cleaned
<1>4. \A d \in KVCallers \ {c}, k \in ks \ excused : k \notin KVBusy(d)
  BY <1>1 DEF KVInv, OneWriter, KVWriting
<1>5. /\ kvpc' = [kvpc EXCEPT ![c] = "idle"]
      /\ kvreq' = [kvreq EXCEPT ![c] = NoRequest]
      /\ readValue' = [readValue EXCEPT ![c] = NoRow]
  BY DEF KVReturn, KVGoto
<1>6. /\ \A d \in KVCallers \ {c} : touched'[d] = touched[d] /\ written'[d] = written[d]
      /\ touched' \in [KVCallers -> SUBSET KVKeys]
      /\ written' \in [KVCallers -> [KVKeys -> KVCell]]
      /\ stored' \in [KVKeys -> KVCell]
      /\ touched[c] \subseteq touched'[c] /\ touched'[c] \subseteq touched[c] \cup ks
      /\ c \notin session => touched'[c] = {}
      /\ \A k \in KVKeys \ ks : stored'[k] = stored[k] /\ written'[c][k] = written[c][k]
      /\ \A k \in ks : k \in touched'[c] \/ \A d \in KVCallers : k \notin touched'[d]
  <2>1. CASE c \in session
    <3>1. touched' = [touched EXCEPT ![c] = touched[c] \cup ks]
      BY <2>1 DEF KVWrite
    <3>2. written' = [written EXCEPT ![c] = [k \in KVKeys |-> IF k \in ks THEN v ELSE written[c][k]]]
      BY <2>1 DEF KVWrite
    <3>3. stored' = stored
      BY <2>1 DEF KVWrite
    <3> QED
      BY <1>1, <2>1, <3>1, <3>2, <3>3 DEF KVInv, KVTypeOK
  <2>2. CASE c \notin session
    <3>1. touched' = touched /\ written' = written /\ touched[c] = {}
      BY <2>2 DEF KVWrite, KVInv, KVShape
    <3>2. stored' = [k \in KVKeys |-> IF k \in ks THEN v ELSE stored[k]]
      BY <2>2 DEF KVWrite
    <3> QED
      BY <1>1, <1>2, <2>2, <3>1, <3>2 DEF KVInv, KVTypeOK
  <2> QED
    BY <2>1, <2>2
<1>7. KVTypeOK'
  BY <1>5, <1>6 DEF KVInv, KVTypeOK, KVPCs, KVCell
<1>8. KVShape'
  BY <1>1, <1>5, <1>6 DEF KVInv, KVTypeOK, KVShape, NoRequest
<1>9. OneWriter'
  <2>1. \A d \in KVCallers : KVBusy(d)' \subseteq KVBusy(d) /\ KVWriting(d)' \subseteq KVWriting(d)
    BY <1>1, <1>5, <1>6 DEF KVInv, KVTypeOK, KVBusy, KVWriting
  <2> QED
    BY <2>1 DEF KVInv, OneWriter
<1>10. EntryCurrent'
  <2> SUFFICES ASSUME NEW k \in KVKeys \ excused, entry[k] # NoRow
               PROVE  /\ \A d \in KVCallers : k \in touched'[d] => entry[k] = written'[d][k]
                      /\ (\A d \in KVCallers : k \notin touched'[d]) => entry[k] = stored'[k]
    BY DEF EntryCurrent
  <2>1. k \notin ks
    BY <1>3
  <2>2. /\ \A d \in KVCallers : k \in touched[d] => entry[k] = written[d][k]
        /\ (\A d \in KVCallers : k \notin touched[d]) => entry[k] = stored[k]
    BY DEF KVInv, EntryCurrent
  <2>3. \A d \in KVCallers : k \in touched'[d] <=> k \in touched[d]
    BY <1>6, <2>1
  <2> QED
    BY <1>6, <2>1, <2>2, <2>3
<1>11. Cleaned'
  BY <1>5 DEF KVInv, KVTypeOK, Cleaned
<1>12. FillCurrent'
  <2> SUFFICES ASSUME NEW d \in KVCallers, kvpc'[d] = "fill", NEW k \in kvreq'[d].on \ excused
               PROVE  readValue'[d] = IF k \in touched'[d] THEN written'[d][k] ELSE stored'[k]
    BY DEF FillCurrent
  <2>1. d # c /\ kvpc[d] = "fill" /\ k \in kvreq[d].on /\ readValue'[d] = readValue[d]
    BY <1>5 DEF KVInv, KVTypeOK
  <2>2. k \notin ks
    BY <1>4, <2>1 DEF KVBusy
  <2>3. k \in KVKeys
    <3>1. kvreq[d] \in KVRequests
      BY <2>1 DEF KVInv, KVTypeOK, KVShape, NoRequest
    <3> QED
      BY <2>1, <3>1, RequestShape
  <2> QED
    BY <1>6, <2>1, <2>2, <2>3 DEF KVInv, FillCurrent
<1> QED
  BY <1>7, <1>8, <1>9, <1>10, <1>11, <1>12 DEF KVInv

LEMMA SetUpdateInv ==
  ASSUME KVInv, NEW c \in KVCallers, SetUpdate(c)
  PROVE  KVInv'
<1>1. kvpc[c] = "update" /\ kvreq[c].val \in KVCell
  <2>1. kvpc[c] = "update" /\ kvreq[c].op = "set"
    BY DEF SetUpdate, KVReturn, KVGoto, KVInv, KVShape
  <2>2. kvreq[c] \in KVRequests
    BY <2>1 DEF KVInv, KVTypeOK, NoRequest
  <2> QED
    BY <2>1, <2>2, RequestShape
<1> QED
  BY <1>1, KVWriteInv DEF SetUpdate

LEMMA SetInsertInv ==
  ASSUME KVInv, NEW c \in KVCallers, SetInsert(c)
  PROVE  KVInv'
<1>1. kvpc[c] = "insert" /\ kvreq[c].val \in KVCell
  <2>1. kvpc[c] = "insert" /\ kvreq[c].op = "set"
    BY DEF SetInsert, KVReturn, KVGoto, KVInv, KVShape
  <2>2. kvreq[c] \in KVRequests
    BY <2>1 DEF KVInv, KVTypeOK, NoRequest
  <2> QED
    BY <2>1, <2>2, RequestShape
<1> QED
  BY <1>1, KVWriteInv DEF SetInsert

LEMMA DelRowsInv ==
  ASSUME KVInv, NEW c \in KVCallers, DelRows(c)
  PROVE  KVInv'
<1> DEFINE ks == {k \in kvreq[c].on : KVView(c)[k] # NoRow}
<1>1. kvpc[c] = "delete" /\ NoRow \in KVCell /\ ks \subseteq kvreq[c].on
  BY DEF DelRows, KVReturn, KVGoto, KVCell
<1>2. KVWrite(c, ks, NoRow) /\ KVReturn(c, "delete")
  BY DEF DelRows
<1> HIDE DEF ks
<1>3. kvpc[c] \in {"update", "insert", "delete"} /\ KVReturn(c, kvpc[c]) /\ ks \in SUBSET kvreq[c].on
  BY <1>1, <1>2
<1> QED
  BY <1>1, <1>2, <1>3, KVWriteInv DEF DelRows

LEMMA KVNextInv ==
  ASSUME KVInv, [KVNext]_kvVars
  PROVE  KVInv'
<1>1. CASE \E c \in KVCallers : KVStep(c)
  BY <1>1, KVCallInv, GetHitInv, GetMissInv, GetCacheErrorInv, GetRowInv, GetNotFoundInv,
     GetFillInv, GetFillLostInv, CleanCacheInv, CleanGroupInv, CleanCacheErrorInv,
     SetUpdateInv, SetAffectsNoneInv, SetInsertInv, SetDuplicateInv, DelRowsInv,
     TxBeginInv, TxCommitInv, TxRollbackInv DEF KVStep
<1>2. CASE \E k \in KVKeys : KVExpire(k)
  BY <1>2, KVExpireInv
<1>3. CASE UNCHANGED kvVars
  <2>1. KVTypeOK' /\ KVShape'
    BY <1>3 DEF kvVars, KVInv, KVTypeOK, KVShape
  <2>2. OneWriter' /\ EntryCurrent'
    BY <1>3 DEF kvVars, KVInv, OneWriter, KVBusy, KVWriting, EntryCurrent
  <2>3. Cleaned' /\ FillCurrent'
    BY <1>3 DEF kvVars, KVInv, Cleaned, FillCurrent
  <2> QED
    BY <2>1, <2>2, <2>3 DEF KVInv
<1> QED
  BY <1>1, <1>2, <1>3 DEF KVNext

LEMMA KVInductive == KVSpec => []KVInv
BY KVInitInv, KVNextInv, PTL DEF KVSpec

(* Whatever the callers do, every variable of the storage keeps its type. *)
THEOREM KVTyped == KVSpec => []KVTypeOK
<1>1. KVInv => KVTypeOK
  BY DEF KVInv
<1> QED
  BY KVInductive, <1>1, PTL

(* For any number of callers, keys, values and calls: a cache entry that is read
   while nobody is at work on its key has the value of the row, unless one of
   the four events that excused records has come between: one after the other,
   Get, Set, Del and committed transactions never show a plugin an old value. *)
THEOREM CacheCoherentTheorem == KVSpec => []CacheCoherent
<1>1. KVInv => CacheCoherent
  BY DEF KVInv, EntryCurrent, CacheCoherent, KVBusy
<1> QED
  BY KVInductive, <1>1, PTL
=============================================================================
