------------------------------ MODULE Sessions ------------------------------
(***************************************************************************)
(* The sessions of one user: internal/service/auth/auth.go and             *)
(* internal/repo/auth/auth.go, the requests that log the user in, let the  *)
(* user in (internal/base/middleware/auth.go) or log the user out, and     *)
(* those that change the account (internal/service/content/user_service.go *)
(* and internal/service/user_admin/user_backyard.go).                      *)
(*                                                                         *)
(* The account is a row of the database.  Everything about sessions lives  *)
(* in the cache: an entry per access token with a copy of the account, the *)
(* admin and the visit entry of the token, the status entry that overrides *)
(* the copies when the account was changed, and the mapping from the user  *)
(* to the user's tokens.  The cache knows get, set and delete of one key;  *)
(* each of them is one action, and every request runs several.             *)
(***************************************************************************)
EXTENDS Naturals, FiniteSets

CONSTANTS Requests,       (* the HTTP requests, numbered in the order they arrive;
                             the access token that request r makes is r too     *)
          Absent,         (* no entry                                           *)
          Kinds,          (* bound: what is asked for                           *)
          FirstKinds,     (* bound: what the first request asks for             *)
          MaxConcurrent   (* bound: requests in progress at a time              *)

LoginKinds == {"login", "wecom", "verify", "newmail"}
StatusKinds == {"suspend", "restore", "deactivate", "delete"}
RemovingKinds == {"role", "password", "change"}
TokenKinds == {"auth", "change", "logout"}

(* Requests that change the row of the user. *)
AccountKinds == StatusKinds \cup {"verify", "newmail", "role"}

(* entity.User: status and mail_status. *)
UserStatusAvailable == 1
UserStatusSuspended == 9
UserStatusDeleted == 10
EmailStatusAvailable == 1
EmailStatusToBeVerified == 2

Roles == {"user", "admin"}

(* UserCacheInfo; "none" is the zero RoleID.  Status and mail range over the
   values of both, since CacheLoginUserInfo is called with them exchanged. *)
Codes == {1, 2, 9, 10}
Infos == [status : Codes, mail : Codes, role : Roles \cup {"none"}]

ASSUME SessionsAssumption ==
  /\ Requests \subseteq Nat
  /\ Absent \notin Requests \cup Infos
  /\ Kinds \subseteq LoginKinds \cup StatusKinds \cup RemovingKinds \cup TokenKinds
  /\ FirstKinds \subseteq Kinds
  /\ MaxConcurrent \in Nat \ {0}

VARIABLES user,       (* the row: status, mail, role                          *)
          bound,      (* the user registered with WeCom                       *)
          token,      (* UserTokenCacheKey: the info of each access token     *)
          admin,      (* AdminTokenCacheKey: tokens that have an entry        *)
          visit,      (* UserVisitTokenCacheKey: tokens that have an entry    *)
          changed,    (* UserStatusChangedCacheKey                            *)
          mapping,    (* UserTokenMappingCacheKey: tokens of the user         *)
          pc,         (* the next operation of each request                   *)
          op,         (* what it was asked for: kind, and token or new role   *)
          info,       (* its userInfo or userCacheInfo                        *)
          known,      (* the mapping that it read                             *)
          before,     (* history: tokens it is to end, alive when it began    *)
          ended,      (* history: tokens that were ended                      *)
          tainted     (* history: a token was dropped from the mapping alive,
                         or two requests met that Clash                       *)

cache == <<token, admin, visit, changed, mapping>>
local == <<op, info, known, before>>
vars == <<user, bound, cache, pc, local, ended, tainted>>

PCs == {"new", "get_status", "mail", "role", "set_token", "get_map", "set_map", "set_visit",
        "set_admin", "update", "set_status", "save", "rm_read", "rm_token", "rm_status",
        "rm_map", "del_admin", "del_visit", "done"}

Zero == [status |-> 1, mail |-> 1, role |-> "none"]

TypeOK ==
  /\ user \in Infos
  /\ bound \in BOOLEAN
  /\ token \in [Requests -> Infos \cup {Absent}]
  /\ admin \subseteq Requests
  /\ visit \subseteq Requests
  /\ changed \in Infos \cup {Absent}
  /\ mapping \subseteq Requests
  /\ pc \in [Requests -> PCs]
  /\ op \in [Requests -> [kind : Kinds \cup {"none"}, token : Requests \cup {Absent}, role : Roles]]
  /\ info \in [Requests -> Infos]
  /\ known \in [Requests -> SUBSET Requests]
  /\ before \in [Requests -> SUBSET Requests]
  /\ ended \subseteq Requests
  /\ tainted \in BOOLEAN

(* The user has registered, with a verified address when with WeCom, and is
   not logged in.  (A user with a verified address and no WeCom login can do
   less than one who has both.) *)
Init ==
  /\ \E m \in {EmailStatusAvailable, EmailStatusToBeVerified}, role \in Roles :
       /\ bound = (m = EmailStatusAvailable)
       /\ user = [status |-> UserStatusAvailable, mail |-> m, role |-> role]
  /\ token = [t \in Requests |-> Absent]
  /\ admin = {}
  /\ visit = {}
  /\ changed = Absent
  /\ mapping = {}
  /\ pc = [r \in Requests |-> "new"]
  /\ op = [r \in Requests |-> [kind |-> "none", token |-> Absent, role |-> "user"]]
  /\ info = [r \in Requests |-> Zero]
  /\ known = [r \in Requests |-> {}]
  /\ before = [r \in Requests |-> {}]
  /\ ended = {}
  /\ tainted = FALSE

-----------------------------------------------------------------------------
Kind(r) == op[r].kind

InProgress == {r \in Requests : pc[r] \notin {"new", "done"}}

Alive == {t \in Requests : token[t] # Absent}

(* The token whose entry r sets: its own, or that of the session it serves. *)
Access(r) == IF Kind(r) \in LoginKinds THEN r ELSE op[r].token

(* MustAuthAndAccountAvailable. *)
Available(i) ==
  /\ i.mail = EmailStatusAvailable
  /\ i.status \notin {UserStatusSuspended, UserStatusDeleted}

Goto(r, from, to) ==
  /\ pc[r] = from
  /\ pc' = [pc EXCEPT ![r] = to]

(* A request that is done forgets what it has read. *)
Forget(r) ==
  /\ info' = [info EXCEPT ![r] = Zero]
  /\ known' = [known EXCEPT ![r] = {}]
  /\ before' = [before EXCEPT ![r] = {}]

Finish(r, from) ==
  /\ Goto(r, from, "done")
  /\ op' = [op EXCEPT ![r] = [kind |-> "none", token |-> Absent, role |-> "user"]]
  /\ Forget(r)

-----------------------------------------------------------------------------
(* Request a ends sessions, and b may write an entry that a removes or needs
   the status entry that a removes: the code does not keep them apart. *)
Clash(a, b) ==
  \/ a.kind \in RemovingKinds /\ b.kind \in LoginKinds \cup {"auth", "change"}
  \/ a.kind = "change" /\ b.kind \in StatusKinds
  \/ a.kind = "logout" /\ b.kind \in {"auth", "change"} /\ a.token = b.token

(* A request arrives.  Accounts are changed by one request at a time. *)
Arrive(r, k, t, role) ==
  LET asked == [kind |-> k, token |-> t, role |-> role] IN
  /\ \A q \in Requests : q < r => pc[q] # "new"
  /\ Cardinality(InProgress) < MaxConcurrent
  /\ (\A q \in Requests : pc[q] = "new") => k \in FirstKinds
  /\ k \in AccountKinds => \A q \in InProgress : Kind(q) \notin AccountKinds
  /\ op' = [op EXCEPT ![r] = asked]
  /\ tainted' = (tainted \/ \E q \in InProgress : Clash(asked, op[q]) \/ Clash(op[q], asked))

(* UserAdminService.UpdateUserStatus: the row it wants. *)
NewRow(k) ==
  CASE k = "suspend" -> [user EXCEPT !.status = UserStatusSuspended]
    [] k = "restore" -> [user EXCEPT !.status = UserStatusAvailable, !.mail = EmailStatusAvailable]
    [] k = "deactivate" -> [user EXCEPT !.mail = EmailStatusToBeVerified]
    [] k = "delete" -> [user EXCEPT !.status = UserStatusDeleted]

(* EmailLogin, ExternalLogin, UserVerifyEmail and UserChangeEmailVerify read
   the row; a deleted user is refused by all but the last. *)
BeginLogin(r, k) ==
  /\ k \in LoginKinds
  /\ Arrive(r, k, Absent, "user")
  /\ k = "wecom" => bound
  /\ user.status = UserStatusDeleted => k = "newmail"
  /\ Goto(r, "new", IF k \in {"verify", "newmail"} THEN "mail" ELSE "role")
  /\ info' = [info EXCEPT ![r] = user]
  /\ UNCHANGED <<user, bound, cache, known, before, ended>>

(* A deleted user stays deleted. *)
BeginStatus(r, k) ==
  /\ k \in StatusKinds
  /\ user.status # UserStatusDeleted
  /\ Arrive(r, k, Absent, "user")
  /\ Goto(r, "new", "update")
  /\ info' = [info EXCEPT ![r] = [NewRow(k) EXCEPT !.role = "none"]]
  /\ UNCHANGED <<user, bound, cache, known, before, ended>>

(* UpdateUserRole; UpdateUserPassword and UpdatePasswordWhenForgot. *)
BeginRemoval(r, k, role) ==
  /\ k \in {"role", "password"}
  /\ k = "password" => role = "user"
  /\ Arrive(r, k, Absent, role)
  /\ Goto(r, "new", "save")
  /\ before' = [before EXCEPT ![r] = Alive]
  /\ UNCHANGED <<user, bound, cache, info, known, ended>>

(* GetUserCacheInfo for a request that carries token t: it may be one that is
   served, or UserModifyPassword. *)
BeginAuthorised(r, k, t) ==
  /\ k \in {"auth", "change"}
  /\ t \in Alive
  /\ Arrive(r, k, t, "user")
  /\ Goto(r, "new", "get_status")
  /\ info' = [info EXCEPT ![r] = token[t]]
  /\ before' = [before EXCEPT ![r] = IF k = "change" THEN Alive \ {t} ELSE {}]
  /\ UNCHANGED <<user, bound, cache, known, ended>>

(* UserLogout deletes the token's entry first. *)
BeginLogout(r, t) ==
  /\ "logout" \in Kinds
  /\ t \in Alive
  /\ Arrive(r, "logout", t, "user")
  /\ Goto(r, "new", "del_admin")
  /\ token' = [token EXCEPT ![t] = Absent]
  /\ UNCHANGED <<user, bound, admin, visit, changed, mapping, info, known, before, ended>>

-----------------------------------------------------------------------------
(* UpdateEmailStatus, when the address was not verified (UserChangeEmailVerify:
   always). *)
UpdateEmailStatus(r) ==
  /\ Goto(r, "mail", "role")
  /\ user' = IF Kind(r) = "newmail" \/ info[r].mail = EmailStatusToBeVerified
               THEN [user EXCEPT !.mail = EmailStatusAvailable]
               ELSE user
  /\ info' = [info EXCEPT ![r].mail = EmailStatusAvailable]
  /\ UNCHANGED <<bound, cache, op, known, before, ended, tainted>>

(* CacheLoginUserInfo(userID, userStatus, emailStatus) is called with mail_status
   and status, in that order. *)
Exchanged(i) == [i EXCEPT !.status = i.mail, !.mail = i.status]

GetUserRole(r) ==
  /\ Goto(r, "role", "set_token")
  /\ LET i == [info[r] EXCEPT !.role = user.role] IN
     info' = [info EXCEPT ![r] = IF Kind(r) \in {"wecom", "verify"} THEN Exchanged(i) ELSE i]
  /\ UNCHANGED <<user, bound, cache, op, known, before, ended, tainted>>

(* Without a status entry the copy in the token's entry is what counts. *)
GetUserStatus(r) ==
  /\ \/ /\ changed = Absent
        /\ Kind(r) = "auth" \/ ~Available(info[r])
        /\ Finish(r, "get_status")
     \/ /\ changed = Absent
        /\ Kind(r) = "change" /\ Available(info[r])
        /\ Goto(r, "get_status", "save")
        /\ UNCHANGED local
     \/ /\ changed # Absent
        /\ Goto(r, "get_status", "set_token")
        /\ info' = [info EXCEPT ![r] = changed]
        /\ UNCHANGED <<op, known, before>>
  /\ UNCHANGED <<user, bound, cache, ended, tainted>>

(* SetUserCacheInfo, with AddUserTokenMapping inside. *)
SetToken(r) ==
  /\ Goto(r, "set_token", "get_map")
  /\ token' = [token EXCEPT ![Access(r)] = info[r]]
  /\ UNCHANGED <<user, bound, admin, visit, changed, mapping, local, ended, tainted>>

GetMapping(r) ==
  /\ Goto(r, "get_map", "set_map")
  /\ known' = [known EXCEPT ![r] = mapping]
  /\ UNCHANGED <<user, bound, cache, op, info, before, ended, tainted>>

(* tainted: the mapping has grown since it was read, and is written back without
   what was added. *)
SetMapping(r) ==
  /\ Goto(r, "set_map", "set_visit")
  /\ mapping' = known[r] \cup {Access(r)}
  /\ tainted' = (tainted \/ ~(mapping \subseteq known[r]))
  /\ known' = [known EXCEPT ![r] = {}]
  /\ UNCHANGED <<user, bound, token, admin, visit, changed, op, info, before, ended>>

SetVisit(r) ==
  /\ visit' = visit \cup {Access(r)}
  /\ \/ /\ Kind(r) = "auth" \/ (Kind(r) = "change" /\ ~Available(info[r]))
        /\ Finish(r, "set_visit")
     \/ /\ Kind(r) # "auth" /\ (Kind(r) = "change" => Available(info[r]))
        /\ Goto(r, "set_visit", CASE Kind(r) = "change" -> "save"
                                  [] Kind(r) = "newmail" -> "set_status"
                                  [] OTHER -> "set_admin")
        /\ UNCHANGED local
  /\ UNCHANGED <<user, bound, token, admin, changed, mapping, ended, tainted>>

(* SetAdminUserCacheInfo, for an administrator. *)
SetAdmin(r) ==
  /\ admin' = IF info[r].role = "admin" THEN admin \cup {r} ELSE admin
  /\ \/ /\ Kind(r) # "verify"
        /\ Finish(r, "set_admin")
     \/ /\ Kind(r) = "verify"
        /\ Goto(r, "set_admin", "set_status")
        /\ UNCHANGED local
  /\ UNCHANGED <<user, bound, token, visit, changed, mapping, ended, tainted>>

(* UserAdminRepo.UpdateUserStatus writes all columns that were read. *)
UpdateRow(r) ==
  /\ Goto(r, "update", "set_status")
  /\ user' = [user EXCEPT !.status = info[r].status, !.mail = info[r].mail]
  /\ UNCHANGED <<bound, cache, local, ended, tainted>>

(* Mutant: an entry that is there is not replaced. *)
SetUserStatusOnce(r) ==
  /\ changed' = IF changed = Absent THEN info[r] ELSE changed
  /\ \/ /\ Kind(r) # "newmail"
        /\ Finish(r, "set_status")
     \/ /\ Kind(r) = "newmail"
        /\ Goto(r, "set_status", "set_admin")
        /\ UNCHANGED local
  /\ UNCHANGED <<user, bound, token, admin, visit, mapping, ended, tainted>>

SetUserStatus(r) ==
  /\ changed' = info[r]
  /\ \/ /\ Kind(r) # "newmail"
        /\ Finish(r, "set_status")
     \/ /\ Kind(r) = "newmail"
        /\ Goto(r, "set_status", "set_admin")
        /\ UNCHANGED local
  /\ UNCHANGED <<user, bound, token, admin, visit, mapping, ended, tainted>>

(* SaveUserRole or UpdatePass. *)
Save(r) ==
  /\ Goto(r, "save", "rm_read")
  /\ user' = IF Kind(r) = "role" THEN [user EXCEPT !.role = op[r].role] ELSE user
  /\ UNCHANGED <<bound, cache, local, ended, tainted>>

-----------------------------------------------------------------------------
(* RemoveUserTokens *)

ReadMapping(r) ==
  /\ Goto(r, "rm_read", "rm_token")
  /\ known' = [known EXCEPT ![r] = mapping \ {op[r].token}]
  /\ UNCHANGED <<user, bound, cache, op, info, before, ended, tainted>>

(* The tokens come in no particular order. *)
RemoveToken(r, t) ==
  /\ t \in known[r]
  /\ Goto(r, "rm_token", "rm_token")
  /\ token' = [token EXCEPT ![t] = Absent]
  /\ known' = [known EXCEPT ![r] = @ \ {t}]
  /\ UNCHANGED <<user, bound, admin, visit, changed, mapping, op, info, before, ended, tainted>>

(* Mutant: the loop over the tokens is left when one cannot be removed. *)
RemoveStatusEarly(r) ==
  /\ \/ Goto(r, "rm_token", "rm_status")
     \/ Goto(r, "rm_status", "rm_map")
  /\ changed' = IF pc[r] = "rm_status" THEN Absent ELSE changed
  /\ UNCHANGED <<user, bound, token, admin, visit, mapping, local, ended, tainted>>

RemoveStatus(r) ==
  /\ \/ known[r] = {} /\ Goto(r, "rm_token", "rm_status")
     \/ Goto(r, "rm_status", "rm_map")
  /\ changed' = IF pc[r] = "rm_status" THEN Absent ELSE changed
  /\ UNCHANGED <<user, bound, token, admin, visit, mapping, local, ended, tainted>>

(* tainted: the session that is to remain has lost its place in the mapping. *)
RemoveMapping(r) ==
  /\ mapping' = {}
  /\ tainted' = (tainted \/ op[r].token \in Alive)
  /\ ended' = ended \cup before[r]
  /\ Finish(r, "rm_map")
  /\ UNCHANGED <<user, bound, token, admin, visit, changed>>

(* The rest of UserLogout. *)
LogoutAdmin(r) ==
  /\ Goto(r, "del_admin", "del_visit")
  /\ admin' = admin \ {op[r].token}
  /\ UNCHANGED <<user, bound, token, visit, changed, mapping, local, ended, tainted>>

LogoutVisit(r) ==
  /\ visit' = visit \ {op[r].token}
  /\ ended' = ended \cup {op[r].token}
  /\ Finish(r, "del_visit")
  /\ UNCHANGED <<user, bound, token, admin, changed, mapping, tainted>>

-----------------------------------------------------------------------------
Step(r) ==
  \/ UpdateEmailStatus(r) \/ GetUserRole(r) \/ GetUserStatus(r)
  \/ SetToken(r) \/ GetMapping(r) \/ SetMapping(r) \/ SetVisit(r) \/ SetAdmin(r)
  \/ UpdateRow(r) \/ SetUserStatus(r) \/ Save(r)
  \/ ReadMapping(r) \/ (\E t \in known[r] : RemoveToken(r, t)) \/ RemoveStatus(r)
  \/ RemoveMapping(r) \/ LogoutAdmin(r) \/ LogoutVisit(r)

Begin(r) ==
  \/ \E k \in Kinds : BeginLogin(r, k) \/ BeginStatus(r, k)
  \/ \E k \in Kinds, role \in Roles : BeginRemoval(r, k, role)
  \/ \E k \in Kinds, t \in Alive : BeginAuthorised(r, k, t)
  \/ \E t \in Alive : BeginLogout(r, t)

(* Every request has been answered. *)
AllAnswered == InProgress = {} /\ UNCHANGED vars

Next ==
  \/ \E r \in Requests : Begin(r) \/ Step(r)
  \/ AllAnswered

Spec == Init /\ [][Next]_vars

-----------------------------------------------------------------------------
(* Properties *)

(* What GetUserCacheInfo returns for a token that is alive. *)
Effective(t) == IF changed # Absent THEN changed ELSE token[t]

Admitted(t) == token[t] # Absent /\ Available(Effective(t))

AccountSettled == \A r \in InProgress : Kind(r) \notin AccountKinds

(* Whatever logins, requests and changes of the account came before, and
   however they overlapped: no session of a suspended or deleted user is
   admitted, every session of an available user is, and no session has a role
   the user does not have.  The copies in the token entries may be stale, but
   then the status entry is there to override them. *)
SessionsFollowAccount ==
  ~tainted /\ AccountSettled =>
    \A t \in Alive :
      /\ Admitted(t) => user.status = UserStatusAvailable
      /\ user.status = UserStatusAvailable /\ user.mail = EmailStatusAvailable => Admitted(t)
      /\ Effective(t).role \in {user.role, "none"}

(* A token that was ended stays ended: the mapping knew it, and nobody writes
   its entry again. *)
SessionsEnd == ~tainted => ended \cap Alive = {}

(* RemoveUserAllTokens: "Log out all users under this user id".  Neither the
   user's nor the administrator's middleware accepts a token that was ended. *)
LoggedOutEverywhere == ended \cap (Alive \cup admin) = {}

(* MustAuthAndAccountAvailable: "only allow active user access". *)
OnlyActiveAdmitted ==
  ~tainted /\ AccountSettled =>
    \A t \in Alive :
      Admitted(t) => user.status = UserStatusAvailable /\ user.mail = EmailStatusAvailable

-----------------------------------------------------------------------------
(* The inductive invariant behind SessionsEnd. *)

(* Requests that met did not clash. *)
Apart ==
  ~tainted =>
    \A r, q \in InProgress : r # q => ~Clash(op[r], op[q])

(* A request that has yet to write the entry of a session. *)
Writing(r) == pc[r] \in {"mail", "role", "get_status", "set_token"}

(* Between the write of a token's entry and the write of the mapping. *)
Recording(r) == pc[r] \in {"get_map", "set_map"}

(* Where a request of kind k can be. *)
OnRoute(k, p) ==
  /\ k \in LoginKinds => p \in {"mail", "role", "set_token", "get_map", "set_map", "set_visit",
                               "set_admin", "set_status"}
  /\ k \in StatusKinds => p \in {"update", "set_status"}
  /\ k \in {"role", "password"} => p \in {"save", "rm_read", "rm_token", "rm_status", "rm_map"}
  /\ k = "auth" => p \in {"get_status", "set_token", "get_map", "set_map", "set_visit"}
  /\ k = "change" => p \in {"get_status", "set_token", "get_map", "set_map", "set_visit",
                            "save", "rm_read", "rm_token", "rm_status", "rm_map"}
  /\ k = "logout" => p \in {"del_admin", "del_visit"}
  /\ k = "none" <=> p \in {"new", "done"}

(* A request that carries a token has one, and no other has. *)
Carries(o) == o.kind \in {"auth", "change", "logout"} <=> o.token # Absent

ProgramCounters == \A r \in Requests : OnRoute(Kind(r), pc[r]) /\ Carries(op[r])

(* A token is one that a login has made. *)
TokensMade ==
  /\ \A r \in Requests :
       pc[r] = "new" \/ (Kind(r) \in LoginKinds /\ Writing(r)) =>
         /\ r \notin Alive \cup ended
         /\ \A q \in Requests : r \notin before[q] /\ r # op[q].token

(* The mapping knows every session, or is about to. *)
MappingCovers ==
  ~tainted =>
    \A t \in Alive : t \in mapping \/ \E r \in InProgress : Recording(r) /\ Access(r) = t

(* Every session but the one that is to remain is gone, or is about to be
   removed. *)
Covered(r) ==
  LET ending == Alive \ {op[r].token} IN
  /\ op[r].token \notin before[r]
  /\ pc[r] \in {"rm_status", "rm_map"} => ending = {}
  /\ pc[r] = "rm_token" => ending \subseteq known[r]
  /\ pc[r] \notin {"rm_token", "rm_status", "rm_map"} => ending \subseteq mapping

RemovalCovers ==
  ~tainted => \A r \in InProgress : Kind(r) \in RemovingKinds => Covered(r)

(* The session a request serves is alive until the request is through. *)
Served ==
  ~tainted =>
    \A r \in InProgress :
      /\ Kind(r) \in {"auth", "change"} => op[r].token \notin ended
      /\ Kind(r) = "logout" => op[r].token \notin Alive

Inv ==
  /\ TypeOK
  /\ ProgramCounters
  /\ Apart
  /\ TokensMade
  /\ MappingCovers
  /\ RemovalCovers
  /\ Served
  /\ SessionsEnd
=============================================================================
