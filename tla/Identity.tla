------------------------------ MODULE Identity ------------------------------
(***************************************************************************)
(* The identity of one WeCom member: the login callback and the member     *)
(* events of internal/service/wecom, the vault that maps members to        *)
(* anonymous subjects (internal/vaultapp/server.go), the registration of   *)
(* the subject as a user (user_center_login_service.go), the deletion of   *)
(* that user by an administrator and the reply notice.                     *)
(*                                                                         *)
(* The vault and the server each have a database and talk by HTTP; no      *)
(* statement below shares a transaction with another, so that each is one  *)
(* action.  What the subject's rows need not tell apart is left out: names, *)
(* avatars, the encrypted blob, the audit log.                             *)
(***************************************************************************)
EXTENDS Naturals, FiniteSets

CONSTANTS Requests,       (* requests and events, numbered in the order they
                             arrive; the user that login r registers is r     *)
          Absent,         (* no row                                           *)
          Impatient,      (* the member may log in while another login of
                             theirs is in progress                            *)
          Kinds,          (* bound: what is asked for                         *)
          MaxConcurrent,  (* bound: requests in progress at a time            *)
          MaxFailures     (* bound: failing calls                             *)

(* "sync" is a create_user or update_user event, "dismiss" a delete_user
   event, "remove" the deletion of a user, "notify" NotifyReplyAuthor. *)
AllKinds == {"login", "sync", "dismiss", "remove", "notify"}

Statuses == {"active", "inactive"}

Profiles == [user : Requests, status : Statuses]

ASSUME IdentityAssumption ==
  /\ Requests \subseteq Nat
  /\ Absent \notin Requests /\ Absent \notin Statuses /\ Absent \notin Profiles
  /\ Impatient \in BOOLEAN
  /\ Kinds \subseteq AllKinds
  /\ MaxConcurrent \in Nat \ {0}
  /\ MaxFailures \in Nat

VARIABLES employed,   (* WeCom knows the member                                *)
          left,       (* the member has left at least once: WeCom delivers a
                         delete_user event, perhaps late and more than once    *)
          status,     (* status of the IdentityMapping row, or Absent          *)
          users,      (* status of each user registered for the subject        *)
          links,      (* UserExternalLogin: users linked to the subject        *)
          profile,    (* AnonymousProfile of the subject: user and status      *)
          pc,         (* the next statement of each request                    *)
          kind,       (* what it was asked for                                 *)
          got,        (* the status it has read or was answered                *)
          account,    (* the user it is about                                  *)
          owner,      (* the user whose profile it ensures                     *)
          suffixed,   (* it registers under a username with a suffix           *)
          failures,   (* how many calls have failed                            *)
          handed,     (* history: users a token was handed to                  *)
          handled,    (* history: a delete_user event was answered since the
                         member left                                           *)
          settled,    (* history: the identity was deactivated while no resolve
                         was about to write another status                     *)
          late,       (* history: requests that began after that               *)
          told        (* history: requests that sent the member a message      *)

rows == <<status, users, links, profile>>
local == <<got, account, owner, suffixed>>
history == <<handed, handled, settled, late, told>>
vars == <<employed, left, rows, pc, kind, local, failures, history>>

PCs == {"new", "fetch", "resolve_read", "resolve_insert", "resolve_write",
        "find_link", "read_user", "make_name", "add_user", "add_link",
        "profile_link", "profile_get", "profile_update", "profile_insert",
        "status_read", "status_write", "rm_row", "rm_link",
        "author", "lookup", "send", "done"}

TypeOK ==
  /\ employed \in BOOLEAN
  /\ left \in BOOLEAN
  /\ status \in Statuses \cup {Absent}
  /\ users \in [Requests -> {"none", "available", "deleted"}]
  /\ links \subseteq Requests
  /\ profile \in Profiles \cup {Absent}
  /\ pc \in [Requests -> PCs]
  /\ kind \in [Requests -> AllKinds]
  /\ got \in [Requests -> Statuses \cup {Absent}]
  /\ account \in [Requests -> Requests \cup {Absent}]
  /\ owner \in [Requests -> Requests \cup {Absent}]
  /\ suffixed \in [Requests -> BOOLEAN]
  /\ failures \in 0..MaxFailures
  /\ handed \subseteq Requests
  /\ handled \in BOOLEAN
  /\ settled \in BOOLEAN
  /\ late \subseteq Requests
  /\ told \subseteq Requests

Init ==
  /\ employed = TRUE
  /\ left = FALSE
  /\ status = Absent
  /\ users = [u \in Requests |-> "none"]
  /\ links = {}
  /\ profile = Absent
  /\ pc = [r \in Requests |-> "new"]
  /\ kind = [r \in Requests |-> "login"]
  /\ got = [r \in Requests |-> Absent]
  /\ account = [r \in Requests |-> Absent]
  /\ owner = [r \in Requests |-> Absent]
  /\ suffixed = [r \in Requests |-> FALSE]
  /\ failures = 0
  /\ handed = {} /\ handled = FALSE /\ settled = FALSE /\ late = {} /\ told = {}

-----------------------------------------------------------------------------
InProgress == {r \in Requests : pc[r] \notin {"new", "done"}}

Registered == {u \in Requests : users[u] # "none"}

HasProfile(u) == profile # Absent /\ profile.user = u

Goto(r, from, to) ==
  /\ pc[r] = from
  /\ pc' = [pc EXCEPT ![r] = to]

(* A request that is done forgets what it knew. *)
Finish(r, from) ==
  /\ Goto(r, from, "done")
  /\ got' = [got EXCEPT ![r] = Absent]
  /\ account' = [account EXCEPT ![r] = Absent]
  /\ owner' = [owner EXCEPT ![r] = Absent]
  /\ suffixed' = [suffixed EXCEPT ![r] = FALSE]

(* Goto, with the local variables unchanged. *)
Pass(r, from, to) == Goto(r, from, to) /\ UNCHANGED local

Begin(r, k, first) ==
  /\ \A q \in Requests : q < r => pc[q] # "new"
  /\ Cardinality(InProgress) < MaxConcurrent
  /\ Goto(r, "new", first)
  /\ kind' = [kind EXCEPT ![r] = k]
  /\ late' = IF settled THEN late \cup {r} ELSE late
  /\ UNCHANGED <<employed, left, rows, got, owner, suffixed, failures, handed, handled,
                 settled, told>>

-----------------------------------------------------------------------------
(* WeCom *)

Leave ==
  /\ employed
  /\ employed' = FALSE
  /\ left' = TRUE
  /\ UNCHANGED <<rows, pc, kind, local, failures, history>>

Rejoin ==
  /\ ~employed
  /\ employed' = TRUE
  /\ handled' = FALSE
  /\ UNCHANGED <<left, rows, pc, kind, local, failures, handed, settled, late, told>>

-----------------------------------------------------------------------------
(* HandleAuthCallback and the create_user and update_user events *)

BeginLogin(r) ==
  /\ "login" \in Kinds
  /\ Impatient \/ \A q \in InProgress : kind[q] # "login"
  /\ Begin(r, "login", "fetch")
  /\ UNCHANGED account

BeginSync(r) ==
  /\ "sync" \in Kinds
  /\ Begin(r, "sync", "fetch")
  /\ UNCHANGED account

(* fetchUserProfile, fetchEventUserProfile: an error for who is not employed. *)
FetchUserProfile(r) ==
  /\ \/ employed /\ Pass(r, "fetch", "resolve_read")
     \/ ~employed /\ Finish(r, "fetch")
  /\ UNCHANGED <<employed, left, rows, kind, failures, history>>

(* The vault's resolve: Get, then Insert or Update of one row. *)
ResolveRead(r) ==
  /\ Goto(r, "resolve_read", IF status = Absent THEN "resolve_insert" ELSE "resolve_write")
  /\ got' = [got EXCEPT ![r] = status]
  /\ UNCHANGED <<employed, left, rows, kind, account, owner, suffixed, failures, history>>

(* The answer reaches ExternalLogin; an event has no more to do. *)
Resolved(r, from, answer) ==
  \/ /\ kind[r] = "login"
     /\ Goto(r, from, "find_link")
     /\ got' = [got EXCEPT ![r] = answer]
     /\ UNCHANGED <<account, owner, suffixed>>
  \/ /\ kind[r] # "login"
     /\ Finish(r, from)

(* anon_subject_id is unique: the second of two inserts is answered with an
   error, which the caller takes for an answer without AnonSubjectID and
   ExternalLogin refuses. *)
ResolveInsert(r) ==
  /\ \/ /\ status = Absent
        /\ status' = "active"
        /\ Resolved(r, "resolve_insert", "active")
     \/ /\ status # Absent
        /\ Finish(r, "resolve_insert")
        /\ UNCHANGED status
  /\ UNCHANGED <<employed, left, users, links, profile, kind, failures, history>>

(* Mutant: mergeIdentityBlob's caller makes every member active. *)
ResolveWriteActive(r) ==
  /\ status' = "active"
  /\ Resolved(r, "resolve_write", "active")
  /\ UNCHANGED <<employed, left, users, links, profile, kind, failures, history>>

(* The status that was read is written back with the blob. *)
ResolveWrite(r) ==
  /\ status' = got[r]
  /\ Resolved(r, "resolve_write", got[r])
  /\ UNCHANGED <<employed, left, users, links, profile, kind, failures, history>>

-----------------------------------------------------------------------------
(* ExternalLogin *)

(* Mutant: the link is looked up under another provider. *)
FindNoLink(r) ==
  /\ Pass(r, "find_link", "make_name")
  /\ UNCHANGED <<employed, left, rows, kind, failures, history>>

(* GetByExternalID: any of the rows, should there be several. *)
FindLink(r) ==
  /\ \/ links = {} /\ Pass(r, "find_link", "make_name")
     \/ \E u \in links :
          /\ Goto(r, "find_link", "read_user")
          /\ account' = [account EXCEPT ![r] = u]
          /\ UNCHANGED <<got, owner, suffixed>>
  /\ UNCHANGED <<employed, left, rows, kind, failures, history>>

(* GetByUserID: a deleted user is refused; CacheLoginUserInfo otherwise. *)
ReadUser(r) ==
  /\ \/ /\ Pass(r, "read_user", "profile_link")
        /\ users[account[r]] # "deleted"
     \/ /\ Finish(r, "read_user")
        /\ users[account[r]] = "deleted"
  /\ UNCHANGED <<employed, left, rows, kind, failures, history>>

(* The plain username is that of the first user of the subject. *)
MakeUsername(r) ==
  /\ Goto(r, "make_name", "add_user")
  /\ suffixed' = [suffixed EXCEPT ![r] = Registered # {}]
  /\ UNCHANGED <<employed, left, rows, kind, got, account, owner, failures, history>>

(* AddUser refuses a username that is taken. *)
AddUser(r) ==
  /\ \/ /\ suffixed[r] \/ Registered = {}
        /\ Goto(r, "add_user", "add_link")
        /\ users' = [users EXCEPT ![r] = "available"]
        /\ account' = [account EXCEPT ![r] = r]
        /\ UNCHANGED <<got, owner, suffixed>>
     \/ /\ ~suffixed[r] /\ Registered # {}
        /\ Finish(r, "add_user")
        /\ UNCHANGED users
  /\ UNCHANGED <<employed, left, status, links, profile, kind, failures, history>>

(* AddUserExternalLogin; then UserActive and CacheLoginUserInfo. *)
AddLink(r) ==
  /\ Pass(r, "add_link", "profile_link")
  /\ links' = links \cup {account[r]}
  /\ UNCHANGED <<employed, left, status, users, profile, kind, failures, history>>

-----------------------------------------------------------------------------
(* ensureAnonymousProfile; the token is handed out when it has no error *)

HandOut(r, from) ==
  /\ Finish(r, from)
  /\ handed' = handed \cup {account[r]}
  /\ UNCHANGED <<employed, left, status, users, links, kind, failures, handled, settled, late,
                 told>>

ProfileLink(r) ==
  \/ /\ links = {}
     /\ HandOut(r, "profile_link")
     /\ UNCHANGED profile
  \/ \E u \in links :
       /\ Goto(r, "profile_link", "profile_get")
       /\ owner' = [owner EXCEPT ![r] = u]
       /\ UNCHANGED <<employed, left, rows, kind, got, account, suffixed, failures, history>>

ProfileGet(r) ==
  /\ \/ HasProfile(owner[r]) /\ Pass(r, "profile_get", "profile_update")
     \/ ~HasProfile(owner[r]) /\ Pass(r, "profile_get", "profile_insert")
  /\ UNCHANGED <<employed, left, rows, kind, failures, history>>

ProfileUpdate(r) ==
  /\ HandOut(r, "profile_update")
  /\ profile' = [profile EXCEPT !.status = got[r]]

(* Mutant: the error of the insert is not returned. *)
ProfileInsertIgnored(r) ==
  /\ profile' = IF profile = Absent THEN [user |-> owner[r], status |-> got[r]] ELSE profile
  /\ HandOut(r, "profile_insert")

(* anon_subject_id is unique here too. *)
ProfileInsert(r) ==
  \/ /\ profile = Absent
     /\ profile' = [user |-> owner[r], status |-> got[r]]
     /\ HandOut(r, "profile_insert")
  \/ /\ profile # Absent
     /\ Finish(r, "profile_insert")
     /\ UNCHANGED <<employed, left, rows, kind, failures, history>>

-----------------------------------------------------------------------------
(* The delete_user event: deactivateUserIdentity and the vault's updateStatus.
   The event is answered with success whatever became of it. *)

BeginDismiss(r) ==
  /\ "dismiss" \in Kinds /\ left
  /\ Begin(r, "dismiss", "status_read")
  /\ UNCHANGED account

(* Without a row there is nothing to deactivate. *)
StatusRead(r) ==
  /\ \/ /\ status = Absent
        /\ Finish(r, "status_read")
        /\ handled' = (handled \/ ~employed)
     \/ /\ status # Absent
        /\ Pass(r, "status_read", "status_write")
        /\ UNCHANGED handled
  /\ UNCHANGED <<employed, left, rows, kind, failures, handed, settled, late, told>>

StatusWrite(r) ==
  /\ Finish(r, "status_write")
  /\ status' = "inactive"
  /\ settled' = (settled \/ ~\E q \in Requests : pc[q] = "resolve_write" /\ got[q] = "active")
  /\ handled' = (handled \/ ~employed)
  /\ UNCHANGED <<employed, left, users, links, profile, kind, failures, handed, late, told>>

-----------------------------------------------------------------------------
(* UpdateUserStatus with "deleted": the row, then removeAllUserConfiguration. *)

BeginRemove(r, u) ==
  /\ "remove" \in Kinds /\ users[u] = "available"
  /\ Begin(r, "remove", "rm_row")
  /\ account' = [account EXCEPT ![r] = u]

RemoveRow(r) ==
  /\ Pass(r, "rm_row", "rm_link")
  /\ users' = [users EXCEPT ![account[r]] = "deleted"]
  /\ UNCHANGED <<employed, left, status, links, profile, kind, failures, history>>

RemoveLink(r) ==
  /\ Finish(r, "rm_link")
  /\ links' = links \ {account[r]}
  /\ UNCHANGED <<employed, left, status, users, profile, kind, failures, history>>

-----------------------------------------------------------------------------
(* notifyReplyAuthor and NotifyReplyAuthor, for a reply to a user's post. *)

BeginNotify(r, u) ==
  /\ "notify" \in Kinds /\ users[u] # "none"
  /\ Begin(r, "notify", "author")
  /\ account' = [account EXCEPT ![r] = u]

(* An author without a profile is not notified. *)
ReadAuthor(r) ==
  /\ \/ HasProfile(account[r]) /\ Pass(r, "author", "lookup")
     \/ ~HasProfile(account[r]) /\ Finish(r, "author")
  /\ UNCHANGED <<employed, left, rows, kind, failures, history>>

(* Mutant: the status that the vault answers is not looked at. *)
LookupAny(r) ==
  /\ Pass(r, "lookup", "send")
  /\ UNCHANGED <<employed, left, rows, kind, failures, history>>

Lookup(r) ==
  /\ \/ status = "active" /\ Pass(r, "lookup", "send")
     \/ status # "active" /\ Finish(r, "lookup")
  /\ UNCHANGED <<employed, left, rows, kind, failures, history>>

SendMessage(r) ==
  /\ Finish(r, "send")
  /\ told' = told \cup {r}
  /\ UNCHANGED <<employed, left, rows, kind, failures, handed, handled, settled, late>>

-----------------------------------------------------------------------------
(* A call to WeCom, the vault or a database fails and ends the request.  (An
   answer that is lost after its effect is a failure of the next call.) *)
Fail(r) ==
  /\ failures < MaxFailures
  /\ failures' = failures + 1
  /\ pc[r] \notin {"new", "done", "make_name"}
  /\ Finish(r, pc[r])
  /\ handled' = (handled \/ (kind[r] = "dismiss" /\ ~employed))
  /\ UNCHANGED <<employed, left, rows, kind, handed, settled, late, told>>

(* registerNewUser falls back to a random username. *)
FailUsername(r) ==
  /\ failures < MaxFailures
  /\ failures' = failures + 1
  /\ Goto(r, "make_name", "add_user")
  /\ suffixed' = [suffixed EXCEPT ![r] = TRUE]
  /\ UNCHANGED <<employed, left, rows, kind, got, account, owner, history>>

Arrive(r) ==
  \/ BeginLogin(r) \/ BeginSync(r) \/ BeginDismiss(r)
  \/ \E u \in Requests : BeginRemove(r, u) \/ BeginNotify(r, u)

Step(r) ==
  \/ FetchUserProfile(r) \/ ResolveRead(r) \/ ResolveInsert(r) \/ ResolveWrite(r)
  \/ FindLink(r) \/ ReadUser(r) \/ MakeUsername(r) \/ AddUser(r) \/ AddLink(r)
  \/ ProfileLink(r) \/ ProfileGet(r) \/ ProfileUpdate(r) \/ ProfileInsert(r)
  \/ StatusRead(r) \/ StatusWrite(r) \/ RemoveRow(r) \/ RemoveLink(r)
  \/ ReadAuthor(r) \/ Lookup(r) \/ SendMessage(r)

Next ==
  \/ Leave \/ Rejoin
  \/ \E r \in Requests : Arrive(r) \/ Step(r) \/ Fail(r) \/ FailUsername(r)

Spec == Init /\ [][Next]_vars

-----------------------------------------------------------------------------
(* Properties *)

(* An identity that was deactivated stays so, whatever logins, events and
   failures follow: resolve gives back the status that it finds.  Only a resolve
   that had read the status before can undo it. *)
DeactivationHolds == settled => status = "inactive"

(* The progress notes of the deployment: a delete_user event switches the
   identity off.  Once the event was answered the identity of a member who has
   left is not active. *)
DeactivationSticks == handled => status # "active"

(* A user who holds a token, and was not deleted since, has the anonymous
   profile under which their posts are shown, whatever was deleted, failed or
   was left half done by an earlier login.  (For members that log in one at a
   time.) *)
TokenHasProfile ==
  ~Impatient =>
    \A u \in handed : users[u] = "available" => HasProfile(u)

(* ExternalLogin: "if user is already a member, login directly".  No member has
   two accounts to log in to.  (For members that log in one at a time.) *)
OneAccount == ~Impatient => \A u, v \in links : u = v

(* A member whose identity was deactivated before a reply was posted gets no
   message about it. *)
DismissedNotTold == told \cap late = {}

-----------------------------------------------------------------------------
(* The inductive invariant *)

LoginPCs == {"find_link", "read_user", "make_name", "add_user", "add_link",
             "profile_link", "profile_get", "profile_update", "profile_insert"}

(* Where a request of each kind can be. *)
ProgramCounters ==
  \A r \in InProgress :
    \/ kind[r] = "login" /\ pc[r] \in LoginPCs
    \/ kind[r] \in {"login", "sync"}
       /\ pc[r] \in {"fetch", "resolve_read", "resolve_insert", "resolve_write"}
    \/ kind[r] = "dismiss" /\ pc[r] \in {"status_read", "status_write"}
    \/ kind[r] = "remove" /\ pc[r] \in {"rm_row", "rm_link"}
    \/ kind[r] = "notify" /\ pc[r] \in {"author", "lookup", "send"}

(* What a request has read is a row's status, and rows of the vault stay. *)
StatusKnown ==
  \A r \in Requests :
    /\ pc[r] \in LoginPCs \cup {"resolve_write"} => got[r] # Absent
    /\ pc[r] \in {"resolve_write", "status_write"} => status # Absent

(* After the deactivation nobody is left to undo it. *)
NobodyRevives ==
  settled => \A r \in Requests : pc[r] = "resolve_write" => got[r] = "inactive"

LateAfterSettled ==
  /\ late # {} => settled
  /\ \A r \in late : kind[r] = "notify" => pc[r] # "send"
  /\ \A r \in late \cup told : pc[r] # "new"

BeforeAdding == {"new", "fetch", "resolve_read", "resolve_insert", "resolve_write", "find_link",
                 "make_name", "add_user"}

(* The user a login or a removal is about, and whose profile it ensures. *)
Accounts ==
  /\ \A u \in links \cup handed : users[u] # "none"
  /\ \A r \in Requests :
       /\ pc[r] \in BeforeAdding => users[r] = "none"
       /\ pc[r] \in {"read_user", "add_link", "profile_link", "profile_get", "profile_update",
                     "profile_insert", "rm_row", "rm_link", "author", "lookup", "send"} =>
            account[r] \in Registered
       /\ pc[r] = "rm_link" => users[account[r]] = "deleted"
       /\ pc[r] \in {"profile_get", "profile_update", "profile_insert"} => owner[r] \in Registered
       /\ pc[r] = "profile_update" => HasProfile(owner[r])

(* A member that logs in has the account that is linked, or is about to get the
   only one. *)
OneLogin ==
  ~Impatient =>
    /\ \A r, q \in InProgress : kind[r] = "login" /\ kind[q] = "login" => r = q
    /\ \A r \in Requests :
         /\ pc[r] \in {"make_name", "add_user", "add_link"} => links = {}
         /\ pc[r] \in {"read_user", "profile_link", "profile_get", "profile_update",
                       "profile_insert"} /\ users[account[r]] = "available" =>
              account[r] \in links
         /\ pc[r] \in {"profile_get", "profile_update", "profile_insert"}
              /\ users[account[r]] = "available" => owner[r] = account[r]

Inv ==
  /\ TypeOK
  /\ ProgramCounters
  /\ StatusKnown
  /\ DeactivationHolds
  /\ NobodyRevives
  /\ LateAfterSettled
  /\ DismissedNotTold
  /\ Accounts
  /\ OneAccount
  /\ OneLogin
  /\ TokenHasProfile
=============================================================================
