--------------------------- MODULE IdentityProofs ---------------------------
(***************************************************************************)
(* What Identity promises, proved for any number of requests and failures, *)
(* and for members that wait and members that do not.                      *)
(***************************************************************************)
EXTENDS Identity, TLAPS

(* The two halves of Inv, of which neither needs the other. *)
Vault ==
  /\ StatusKnown
  /\ DeactivationHolds
  /\ NobodyRevives
  /\ LateAfterSettled
  /\ DismissedNotTold

Account ==
  /\ Accounts
  /\ OneAccount
  /\ OneLogin
  /\ TokenHasProfile

USE IdentityAssumption DEF IdentityAssumption, Statuses, Profiles

-----------------------------------------------------------------------------

(* Types.  Accounts says whom a request that writes is about. *)
LEMMA TypeStep ==
  TypeOK /\ Accounts /\ StatusKnown /\ [Next]_vars => TypeOK'
<1> SUFFICES ASSUME TypeOK /\ Accounts /\ StatusKnown, [Next]_vars PROVE TypeOK'
  OBVIOUS
<1> USE DEF TypeOK, PCs, AllKinds, Accounts, Registered, StatusKnown, LoginPCs, rows, history
<1> DEFINE Local == /\ pc \in [Requests -> PCs]
                    /\ got \in [Requests -> Statuses \cup {Absent}]
                    /\ account \in [Requests -> Requests \cup {Absent}]
                    /\ owner \in [Requests -> Requests \cup {Absent}]
                    /\ suffixed \in [Requests -> BOOLEAN]
<1>f. ASSUME NEW r \in Requests, NEW from, Finish(r, from) PROVE Local'
  BY <1>f DEF Finish, Goto
<1>p. ASSUME NEW r \in Requests, NEW from, NEW to \in PCs, Pass(r, from, to) PROVE Local'
  BY <1>p DEF Pass, Goto, local
<1>1. CASE UNCHANGED vars
  BY <1>1 DEF vars, local
<1>2. CASE Leave
  BY <1>2 DEF Leave, local
<1>3. CASE Rejoin
  BY <1>3 DEF Rejoin, local
<1>4. ASSUME NEW r \in Requests, BeginLogin(r) PROVE TypeOK'
  BY <1>4 DEF BeginLogin, Begin, Goto
<1>5. ASSUME NEW r \in Requests, BeginSync(r) PROVE TypeOK'
  BY <1>5 DEF BeginSync, Begin, Goto
<1>6. ASSUME NEW r \in Requests, BeginDismiss(r) PROVE TypeOK'
  BY <1>6 DEF BeginDismiss, Begin, Goto
<1>7. ASSUME NEW r \in Requests, FetchUserProfile(r) PROVE TypeOK'
  BY <1>7, <1>f, <1>p DEF FetchUserProfile
<1>8. ASSUME NEW r \in Requests, ResolveRead(r) PROVE TypeOK'
  BY <1>8 DEF ResolveRead, Goto
<1>9. ASSUME NEW r \in Requests, ResolveInsert(r) PROVE TypeOK'
  <2>1. CASE status = Absent
    BY <1>9, <2>1, <1>f DEF ResolveInsert, Resolved, Goto
  <2>2. CASE status # Absent
    BY <1>9, <2>2, <1>f DEF ResolveInsert
  <2> QED BY <2>1, <2>2
<1>10. ASSUME NEW r \in Requests, ResolveWrite(r) PROVE TypeOK'
  BY <1>10, <1>f DEF ResolveWrite, Resolved, Goto
<1>11. ASSUME NEW r \in Requests, FindLink(r) PROVE TypeOK'
  BY <1>11, <1>p DEF FindLink, Goto
<1>12. ASSUME NEW r \in Requests, ReadUser(r) PROVE TypeOK'
  BY <1>12, <1>f, <1>p DEF ReadUser
<1>13. ASSUME NEW r \in Requests, MakeUsername(r) PROVE TypeOK'
  BY <1>13 DEF MakeUsername, Goto
<1>14. ASSUME NEW r \in Requests, AddUser(r) PROVE TypeOK'
  BY <1>14, <1>f DEF AddUser, Goto
<1>15. ASSUME NEW r \in Requests, AddLink(r) PROVE TypeOK'
  <2>1. pc[r] = "add_link" /\ account[r] \in Requests /\ links' = links \cup {account[r]}
    BY <1>15 DEF AddLink, Pass, Goto
  <2>2. links' \subseteq Requests
    BY ONLY TypeOK, <2>1 DEF TypeOK
  <2>3. Local'
    BY <1>15, <1>p DEF AddLink
  <2> QED BY <1>15, <2>2, <2>3 DEF AddLink
<1>16. ASSUME NEW r \in Requests, ProfileLink(r) PROVE TypeOK'
  <2>1. CASE HandOut(r, "profile_link") /\ UNCHANGED profile
    <3>1. pc[r] = "profile_link" /\ account[r] \in Requests
      BY <2>1 DEF HandOut, Finish, Goto
    <3>2. handed' = handed \cup {account[r]} /\ Local'
      BY <2>1, <1>f DEF HandOut
    <3>3. handed' \subseteq Requests
      BY ONLY TypeOK, <3>1, <3>2 DEF TypeOK
    <3> QED BY <2>1, <3>2, <3>3 DEF HandOut
  <2>2. ASSUME NEW u \in links, Goto(r, "profile_link", "profile_get"),
               owner' = [owner EXCEPT ![r] = u],
               UNCHANGED <<employed, left, rows, kind, got, account, suffixed, failures, history>>
        PROVE TypeOK'
    <3>1. Local'
      BY <2>2 DEF Goto
    <3> QED BY <2>2, <3>1
  <2> QED BY <1>16, <2>1, <2>2 DEF ProfileLink
<1>17. ASSUME NEW r \in Requests, ProfileGet(r) PROVE TypeOK'
  BY <1>17, <1>f, <1>p DEF ProfileGet
<1>18. ASSUME NEW r \in Requests, ProfileUpdate(r) PROVE TypeOK'
  <2>1. pc[r] = "profile_update" /\ account[r] \in Requests /\ got[r] \in Statuses /\ profile \in Profiles
    BY <1>18 DEF ProfileUpdate, HandOut, Finish, Goto, HasProfile
  <2> QED BY <1>18, <2>1, <1>f DEF ProfileUpdate, HandOut
<1>19. ASSUME NEW r \in Requests, ProfileInsert(r) PROVE TypeOK'
  <2>1. pc[r] = "profile_insert"
    BY <1>19 DEF ProfileInsert, HandOut, Finish, Goto
  <2>2. account[r] \in Requests /\ owner[r] \in Requests /\ got[r] \in Statuses
    BY <2>1
  <2>3. Local'
    BY <1>19, <1>f DEF ProfileInsert, HandOut
  <2>4. CASE HandOut(r, "profile_insert") /\ profile' = [user |-> owner[r], status |-> got[r]]
    <3>1. handed' = handed \cup {account[r]}
      BY <2>4 DEF HandOut
    <3>2. handed' \subseteq Requests
      BY ONLY TypeOK, <2>2, <3>1 DEF TypeOK
    <3>3. profile' \in Profiles
      BY <2>2, <2>4
    <3> QED BY <2>3, <2>4, <3>2, <3>3 DEF HandOut
  <2>5. CASE UNCHANGED <<employed, left, rows, kind, failures, history>>
    BY <2>3, <2>5
  <2> QED BY <1>19, <2>4, <2>5 DEF ProfileInsert
<1>20. ASSUME NEW r \in Requests, StatusRead(r) PROVE TypeOK'
  BY <1>20, <1>f, <1>p DEF StatusRead
<1>21. ASSUME NEW r \in Requests, StatusWrite(r) PROVE TypeOK'
  BY <1>21, <1>f, <1>p DEF StatusWrite
<1>22. ASSUME NEW r \in Requests, RemoveRow(r) PROVE TypeOK'
  BY <1>22, <1>f, <1>p DEF RemoveRow
<1>23. ASSUME NEW r \in Requests, RemoveLink(r) PROVE TypeOK'
  BY <1>23, <1>f, <1>p DEF RemoveLink
<1>24. ASSUME NEW r \in Requests, ReadAuthor(r) PROVE TypeOK'
  BY <1>24, <1>f, <1>p DEF ReadAuthor
<1>25. ASSUME NEW r \in Requests, Lookup(r) PROVE TypeOK'
  BY <1>25, <1>f, <1>p DEF Lookup
<1>26. ASSUME NEW r \in Requests, SendMessage(r) PROVE TypeOK'
  BY <1>26, <1>f, <1>p DEF SendMessage
<1>27. ASSUME NEW r \in Requests, Fail(r) PROVE TypeOK'
  BY <1>27, <1>f, <1>p DEF Fail
<1>28. ASSUME NEW r \in Requests, FailUsername(r) PROVE TypeOK'
  BY <1>28 DEF FailUsername, Goto
<1>29. ASSUME NEW r \in Requests, NEW u \in Requests, BeginRemove(r, u) PROVE TypeOK'
  BY <1>29 DEF BeginRemove, Begin, Goto
<1>30. ASSUME NEW r \in Requests, NEW u \in Requests, BeginNotify(r, u) PROVE TypeOK'
  BY <1>30 DEF BeginNotify, Begin, Goto
<1> QED
  BY <1>1, <1>2, <1>3, <1>4, <1>5, <1>6, <1>7, <1>8, <1>9, <1>10, <1>11, <1>12, <1>13,
     <1>14, <1>15, <1>16, <1>17, <1>18, <1>19, <1>20, <1>21, <1>22, <1>23, <1>24, <1>25,
     <1>26, <1>27, <1>28, <1>29, <1>30 DEF Next, Arrive, Step

(* Where the requests of each kind can be. *)
LEMMA CountersStep ==
  TypeOK /\ ProgramCounters /\ [Next]_vars => ProgramCounters'
<1> SUFFICES ASSUME TypeOK /\ ProgramCounters, [Next]_vars PROVE ProgramCounters'
  OBVIOUS
<1> USE DEF TypeOK, ProgramCounters, InProgress, LoginPCs,
          Goto, Pass, Finish, HasProfile, rows, local, history
<1>1. CASE UNCHANGED vars
  BY <1>1 DEF vars
<1>2. CASE Leave
  BY <1>2 DEF Leave
<1>3. CASE Rejoin
  BY <1>3 DEF Rejoin
<1>4. ASSUME NEW r \in Requests, BeginLogin(r) PROVE ProgramCounters'
  BY <1>4 DEF BeginLogin, Begin
<1>5. ASSUME NEW r \in Requests, BeginSync(r) PROVE ProgramCounters'
  BY <1>5 DEF BeginSync, Begin
<1>6. ASSUME NEW r \in Requests, BeginDismiss(r) PROVE ProgramCounters'
  BY <1>6 DEF BeginDismiss, Begin
<1>7. ASSUME NEW r \in Requests, FetchUserProfile(r) PROVE ProgramCounters'
  BY <1>7 DEF FetchUserProfile
<1>8. ASSUME NEW r \in Requests, ResolveRead(r) PROVE ProgramCounters'
  BY <1>8 DEF ResolveRead
<1>9. ASSUME NEW r \in Requests, ResolveInsert(r) PROVE ProgramCounters'
  BY <1>9 DEF ResolveInsert, Resolved
<1>10. ASSUME NEW r \in Requests, ResolveWrite(r) PROVE ProgramCounters'
  BY <1>10 DEF ResolveWrite, Resolved
<1>11. ASSUME NEW r \in Requests, FindLink(r) PROVE ProgramCounters'
  BY <1>11 DEF FindLink
<1>12. ASSUME NEW r \in Requests, ReadUser(r) PROVE ProgramCounters'
  BY <1>12 DEF ReadUser
<1>13. ASSUME NEW r \in Requests, MakeUsername(r) PROVE ProgramCounters'
  BY <1>13 DEF MakeUsername
<1>14. ASSUME NEW r \in Requests, AddUser(r) PROVE ProgramCounters'
  BY <1>14 DEF AddUser
<1>15. ASSUME NEW r \in Requests, AddLink(r) PROVE ProgramCounters'
  BY <1>15 DEF AddLink
<1>16. ASSUME NEW r \in Requests, ProfileLink(r) PROVE ProgramCounters'
  BY <1>16 DEF ProfileLink, HandOut
<1>17. ASSUME NEW r \in Requests, ProfileGet(r) PROVE ProgramCounters'
  BY <1>17 DEF ProfileGet
<1>18. ASSUME NEW r \in Requests, ProfileUpdate(r) PROVE ProgramCounters'
  BY <1>18 DEF ProfileUpdate, HandOut
<1>19. ASSUME NEW r \in Requests, ProfileInsert(r) PROVE ProgramCounters'
  BY <1>19 DEF ProfileInsert, HandOut
<1>20. ASSUME NEW r \in Requests, StatusRead(r) PROVE ProgramCounters'
  BY <1>20 DEF StatusRead
<1>21. ASSUME NEW r \in Requests, StatusWrite(r) PROVE ProgramCounters'
  BY <1>21 DEF StatusWrite
<1>22. ASSUME NEW r \in Requests, RemoveRow(r) PROVE ProgramCounters'
  BY <1>22 DEF RemoveRow
<1>23. ASSUME NEW r \in Requests, RemoveLink(r) PROVE ProgramCounters'
  BY <1>23 DEF RemoveLink
<1>24. ASSUME NEW r \in Requests, ReadAuthor(r) PROVE ProgramCounters'
  BY <1>24 DEF ReadAuthor
<1>25. ASSUME NEW r \in Requests, Lookup(r) PROVE ProgramCounters'
  BY <1>25 DEF Lookup
<1>26. ASSUME NEW r \in Requests, SendMessage(r) PROVE ProgramCounters'
  BY <1>26 DEF SendMessage
<1>27. ASSUME NEW r \in Requests, Fail(r) PROVE ProgramCounters'
  BY <1>27 DEF Fail
<1>28. ASSUME NEW r \in Requests, FailUsername(r) PROVE ProgramCounters'
  BY <1>28 DEF FailUsername
<1>29. ASSUME NEW r \in Requests, NEW u \in Requests, BeginRemove(r, u) PROVE ProgramCounters'
  BY <1>29 DEF BeginRemove, Begin
<1>30. ASSUME NEW r \in Requests, NEW u \in Requests, BeginNotify(r, u) PROVE ProgramCounters'
  BY <1>30 DEF BeginNotify, Begin
<1> QED
  BY <1>1, <1>2, <1>3, <1>4, <1>5, <1>6, <1>7, <1>8, <1>9, <1>10, <1>11, <1>12, <1>13,
     <1>14, <1>15, <1>16, <1>17, <1>18, <1>19, <1>20, <1>21, <1>22, <1>23, <1>24, <1>25,
     <1>26, <1>27, <1>28, <1>29, <1>30 DEF Next, Arrive, Step

(* The vault's half: status, and what was read of it. *)
LEMMA VaultStep ==
  TypeOK /\ ProgramCounters /\ Vault /\ [Next]_vars => Vault'
<1> SUFFICES ASSUME TypeOK /\ ProgramCounters /\ Vault, [Next]_vars PROVE Vault'
  OBVIOUS
<1> USE DEF TypeOK, ProgramCounters, InProgress, LoginPCs, Vault, StatusKnown, DeactivationHolds, NobodyRevives, LateAfterSettled, DismissedNotTold,
          Goto, Pass, Finish, HasProfile, rows, local, history
<1>1. CASE UNCHANGED vars
  BY <1>1 DEF vars
<1>2. CASE Leave
  BY <1>2 DEF Leave
<1>3. CASE Rejoin
  BY <1>3 DEF Rejoin
<1>4. ASSUME NEW r \in Requests, BeginLogin(r) PROVE Vault'
  BY <1>4 DEF BeginLogin, Begin
<1>5. ASSUME NEW r \in Requests, BeginSync(r) PROVE Vault'
  BY <1>5 DEF BeginSync, Begin
<1>6. ASSUME NEW r \in Requests, BeginDismiss(r) PROVE Vault'
  BY <1>6 DEF BeginDismiss, Begin
<1>7. ASSUME NEW r \in Requests, FetchUserProfile(r) PROVE Vault'
  BY <1>7 DEF FetchUserProfile
<1>8. ASSUME NEW r \in Requests, ResolveRead(r) PROVE Vault'
  BY <1>8 DEF ResolveRead
<1>9. ASSUME NEW r \in Requests, ResolveInsert(r) PROVE Vault'
  <2>1. CASE status = Absent /\ kind[r] = "login"
    BY <1>9, <2>1 DEF ResolveInsert, Resolved
  <2>2. CASE status = Absent /\ kind[r] # "login"
    BY <1>9, <2>2 DEF ResolveInsert, Resolved
  <2>3. CASE status # Absent
    BY <1>9, <2>3 DEF ResolveInsert
  <2> QED BY <2>1, <2>2, <2>3
<1>10. ASSUME NEW r \in Requests, ResolveWrite(r) PROVE Vault'
  BY <1>10 DEF ResolveWrite, Resolved
<1>11. ASSUME NEW r \in Requests, FindLink(r) PROVE Vault'
  BY <1>11 DEF FindLink
<1>12. ASSUME NEW r \in Requests, ReadUser(r) PROVE Vault'
  BY <1>12 DEF ReadUser
<1>13. ASSUME NEW r \in Requests, MakeUsername(r) PROVE Vault'
  BY <1>13 DEF MakeUsername
<1>14. ASSUME NEW r \in Requests, AddUser(r) PROVE Vault'
  BY <1>14 DEF AddUser
<1>15. ASSUME NEW r \in Requests, AddLink(r) PROVE Vault'
  BY <1>15 DEF AddLink
<1>16. ASSUME NEW r \in Requests, ProfileLink(r) PROVE Vault'
  <2>1. pc[r] = "profile_link" /\ UNCHANGED <<status, kind, settled, late, told>>
    BY <1>16 DEF ProfileLink, HandOut
  <2>2. Finish(r, "profile_link") \/ (Goto(r, "profile_link", "profile_get") /\ UNCHANGED got)
    BY <1>16 DEF ProfileLink, HandOut
  <2> QED BY <2>1, <2>2
<1>17. ASSUME NEW r \in Requests, ProfileGet(r) PROVE Vault'
  BY <1>17 DEF ProfileGet
<1>18. ASSUME NEW r \in Requests, ProfileUpdate(r) PROVE Vault'
  BY <1>18 DEF ProfileUpdate, HandOut
<1>19. ASSUME NEW r \in Requests, ProfileInsert(r) PROVE Vault'
  <2>1. Finish(r, "profile_insert")
    BY <1>19 DEF ProfileInsert, HandOut
  <2>2. UNCHANGED <<status, kind, settled, late, told>>
    BY <1>19 DEF ProfileInsert, HandOut
  <2> QED BY <2>1, <2>2
<1>20. ASSUME NEW r \in Requests, StatusRead(r) PROVE Vault'
  BY <1>20 DEF StatusRead
<1>21. ASSUME NEW r \in Requests, StatusWrite(r) PROVE Vault'
  <2>1. StatusKnown'
    BY <1>21 DEF StatusWrite
  <2>2. DeactivationHolds'
    BY <1>21 DEF StatusWrite
  <2>3. NobodyRevives'
    BY <1>21 DEF StatusWrite
  <2>4. LateAfterSettled' /\ DismissedNotTold'
    BY <1>21 DEF StatusWrite
  <2> QED BY <2>1, <2>2, <2>3, <2>4
<1>22. ASSUME NEW r \in Requests, RemoveRow(r) PROVE Vault'
  BY <1>22 DEF RemoveRow
<1>23. ASSUME NEW r \in Requests, RemoveLink(r) PROVE Vault'
  BY <1>23 DEF RemoveLink
<1>24. ASSUME NEW r \in Requests, ReadAuthor(r) PROVE Vault'
  <2>1. CASE HasProfile(account[r])
    BY <1>24, <2>1 DEF ReadAuthor
  <2>2. CASE ~HasProfile(account[r])
    BY <1>24, <2>2 DEF ReadAuthor
  <2> QED BY <2>1, <2>2
<1>25. ASSUME NEW r \in Requests, Lookup(r) PROVE Vault'
  BY <1>25 DEF Lookup
<1>26. ASSUME NEW r \in Requests, SendMessage(r) PROVE Vault'
  BY <1>26 DEF SendMessage
<1>27. ASSUME NEW r \in Requests, Fail(r) PROVE Vault'
  BY <1>27 DEF Fail
<1>28. ASSUME NEW r \in Requests, FailUsername(r) PROVE Vault'
  BY <1>28 DEF FailUsername
<1>29. ASSUME NEW r \in Requests, NEW u \in Requests, BeginRemove(r, u) PROVE Vault'
  BY <1>29 DEF BeginRemove, Begin
<1>30. ASSUME NEW r \in Requests, NEW u \in Requests, BeginNotify(r, u) PROVE Vault'
  BY <1>30 DEF BeginNotify, Begin
<1> QED
  BY <1>1, <1>2, <1>3, <1>4, <1>5, <1>6, <1>7, <1>8, <1>9, <1>10, <1>11, <1>12, <1>13,
     <1>14, <1>15, <1>16, <1>17, <1>18, <1>19, <1>20, <1>21, <1>22, <1>23, <1>24, <1>25,
     <1>26, <1>27, <1>28, <1>29, <1>30 DEF Next, Arrive, Step

(* The server's half: users, links and the profile. *)
LEMMA AccountStep ==
  TypeOK /\ ProgramCounters /\ StatusKnown /\ Account /\ [Next]_vars => Account'
<1> SUFFICES ASSUME TypeOK /\ ProgramCounters /\ StatusKnown /\ Account, [Next]_vars PROVE Account'
  OBVIOUS
<1> USE DEF TypeOK, ProgramCounters, InProgress, LoginPCs, Account, Accounts, BeforeAdding, OneAccount, OneLogin, TokenHasProfile, Registered,
          Goto, Pass, Finish, HasProfile, rows, local, history
<1>1. CASE UNCHANGED vars
  BY <1>1 DEF vars
<1>2. CASE Leave
  BY <1>2 DEF Leave
<1>3. CASE Rejoin
  BY <1>3 DEF Rejoin
<1>4. ASSUME NEW r \in Requests, BeginLogin(r) PROVE Account'
  BY <1>4 DEF BeginLogin, Begin
<1>5. ASSUME NEW r \in Requests, BeginSync(r) PROVE Account'
  BY <1>5 DEF BeginSync, Begin
<1>6. ASSUME NEW r \in Requests, BeginDismiss(r) PROVE Account'
  BY <1>6 DEF BeginDismiss, Begin
<1>7. ASSUME NEW r \in Requests, FetchUserProfile(r) PROVE Account'
  BY <1>7 DEF FetchUserProfile
<1>8. ASSUME NEW r \in Requests, ResolveRead(r) PROVE Account'
  BY <1>8 DEF ResolveRead
<1>9. ASSUME NEW r \in Requests, ResolveInsert(r) PROVE Account'
  BY <1>9 DEF ResolveInsert, Resolved
<1>10. ASSUME NEW r \in Requests, ResolveWrite(r) PROVE Account'
  BY <1>10 DEF ResolveWrite, Resolved
<1>11. ASSUME NEW r \in Requests, FindLink(r) PROVE Account'
  BY <1>11 DEF FindLink
<1>12. ASSUME NEW r \in Requests, ReadUser(r) PROVE Account'
  BY <1>12 DEF ReadUser
<1>13. ASSUME NEW r \in Requests, MakeUsername(r) PROVE Account'
  BY <1>13 DEF MakeUsername
<1>14. ASSUME NEW r \in Requests, AddUser(r) PROVE Account'
  <2>1. CASE Registered # {} /\ ~suffixed[r]
    BY <1>14, <2>1 DEF AddUser
  <2>2. CASE suffixed[r] \/ Registered = {}
    <3>1. /\ Goto(r, "add_user", "add_link")
          /\ users' = [users EXCEPT ![r] = "available"]
          /\ account' = [account EXCEPT ![r] = r]
          /\ UNCHANGED <<links, profile, kind, owner, handed>>
      BY <1>14, <2>2 DEF AddUser
    <3>2. users[r] = "none"
      BY <3>1
    <3>3. Accounts'
      BY <3>1, <3>2
    <3>4. OneAccount' /\ OneLogin'
      BY <3>1, <3>2
    <3>5. TokenHasProfile'
      BY <3>1, <3>2
    <3> QED BY <3>3, <3>4, <3>5
  <2> QED BY <2>1, <2>2
<1>15. ASSUME NEW r \in Requests, AddLink(r) PROVE Account'
  <2>1. Accounts'
    BY <1>15 DEF AddLink
  <2>2. OneAccount'
    BY <1>15 DEF AddLink
  <2>3. OneLogin'
    BY <1>15 DEF AddLink
  <2>4. TokenHasProfile'
    BY <1>15 DEF AddLink
  <2> QED BY <2>1, <2>2, <2>3, <2>4
<1>16. ASSUME NEW r \in Requests, ProfileLink(r) PROVE Account'
  <2>1. CASE links = {} /\ HandOut(r, "profile_link") /\ UNCHANGED profile
    <3>1. Finish(r, "profile_link") /\ handed' = handed \cup {account[r]} /\ UNCHANGED <<users, links, profile, kind>>
      BY <2>1 DEF HandOut
    <3>2. users[account[r]] # "none"
      BY <3>1
    <3>3. ~Impatient => users[account[r]] # "available"
      BY <2>1, <3>1
    <3>4. Accounts'
      BY <3>1, <3>2
    <3>5. OneAccount' /\ OneLogin'
      BY <3>1
    <3>6. TokenHasProfile'
      BY <3>1, <3>3
    <3> QED BY <3>4, <3>5, <3>6
  <2>2. ASSUME NEW u \in links, Goto(r, "profile_link", "profile_get"),
               owner' = [owner EXCEPT ![r] = u],
               UNCHANGED <<employed, left, rows, kind, got, account, suffixed, failures, history>>
        PROVE Account'
    <3>a. pc[r] = "profile_link" /\ u \in Requests /\ users[u] # "none"
      BY <2>2
    <3>b. UNCHANGED <<users, links, profile, handed, kind, account>>
      BY <2>2
    <3>1. Accounts'
      BY <2>2, <3>a, <3>b
    <3>2. OneAccount' /\ TokenHasProfile'
      BY <2>2
    <3>c. ~Impatient /\ users[account[r]] = "available" => account[r] \in links
      BY <3>a
    <3>3. ~Impatient /\ users[account[r]] = "available" => u = account[r]
      BY ONLY <3>c, Account, u \in links DEF Account, OneAccount
    <3>4. OneLogin'
      BY <2>2, <3>3
    <3> QED BY <3>1, <3>2, <3>4
  <2> QED BY <1>16, <2>1, <2>2 DEF ProfileLink
<1>17. ASSUME NEW r \in Requests, ProfileGet(r) PROVE Account'
  BY <1>17 DEF ProfileGet
<1>18. ASSUME NEW r \in Requests, ProfileUpdate(r) PROVE Account'
  <2>1. /\ Finish(r, "profile_update") /\ handed' = handed \cup {account[r]}
        /\ profile' = [profile EXCEPT !.status = got[r]]
        /\ UNCHANGED <<users, links, kind>>
    BY <1>18 DEF ProfileUpdate, HandOut
  <2>2. users[account[r]] # "none" /\ HasProfile(owner[r])
    BY <2>1
  <2>a. profile \in Profiles /\ got[r] \in Statuses
    BY <2>1, <2>2 DEF StatusKnown
  <2>b. profile' \in Profiles /\ profile'.user = profile.user
    BY <2>1, <2>a
  <2>3. profile' # Absent /\ profile'.user = profile.user
    BY <2>b
  <2>4. ~Impatient /\ users[account[r]] = "available" => HasProfile(account[r])
    BY <2>1, <2>2
  <2>5. Accounts'
    BY <2>1, <2>2, <2>3
  <2>6. OneAccount' /\ OneLogin'
    BY <2>1
  <2>7. TokenHasProfile'
    BY <2>1, <2>3, <2>4
  <2> QED BY <2>5, <2>6, <2>7
<1>19. ASSUME NEW r \in Requests, ProfileInsert(r) PROVE Account'
  <2>1. CASE UNCHANGED <<employed, left, rows, kind, failures, history>>
    BY <1>19, <2>1 DEF ProfileInsert, HandOut
  <2>2. CASE profile = Absent /\ HandOut(r, "profile_insert") /\ profile' = [user |-> owner[r], status |-> got[r]]
    <3>1. /\ Finish(r, "profile_insert") /\ handed' = handed \cup {account[r]}
          /\ UNCHANGED <<users, links, kind>>
      BY <2>2 DEF HandOut
    <3>2. users[account[r]] # "none"
      BY <3>1
    <3>3. owner[r] \in Requests /\ got[r] \in Statuses /\ profile' \in Profiles
      BY <2>2, <3>1 DEF StatusKnown
    <3>4. ~Impatient /\ users[account[r]] = "available" => owner[r] = account[r]
      BY <3>1
    <3>5. Accounts'
      BY <2>2, <3>1, <3>2
    <3>6. OneAccount' /\ OneLogin'
      BY <3>1
    <3>7. TokenHasProfile'
      BY <2>2, <3>1, <3>3, <3>4
    <3> QED BY <3>5, <3>6, <3>7
  <2> QED BY <1>19, <2>1, <2>2 DEF ProfileInsert
<1>20. ASSUME NEW r \in Requests, StatusRead(r) PROVE Account'
  BY <1>20 DEF StatusRead
<1>21. ASSUME NEW r \in Requests, StatusWrite(r) PROVE Account'
  <2>1. Finish(r, "status_write") /\ UNCHANGED <<users, links, profile, kind, handed>>
    BY <1>21 DEF StatusWrite
  <2> QED BY <2>1
<1>22. ASSUME NEW r \in Requests, RemoveRow(r) PROVE Account'
  BY <1>22 DEF RemoveRow
<1>23. ASSUME NEW r \in Requests, RemoveLink(r) PROVE Account'
  <2>1. /\ Finish(r, "rm_link") /\ links' = links \ {account[r]}
        /\ UNCHANGED <<users, profile, kind, handed>>
    BY <1>23 DEF RemoveLink
  <2>2. users[account[r]] = "deleted"
    BY <2>1
  <2>3. Accounts' /\ OneAccount'
    BY <2>1
  <2>a. \A u \in links : users[u] = "available" => u \in links'
    BY <2>1, <2>2
  <2>c. \A q \in Requests \ {r} : pc'[q] = pc[q] /\ account'[q] = account[q] /\ owner'[q] = owner[q]
    BY <2>1
  <2>b. pc'[r] = "done"
    BY <2>1
  <2>d. links = {} => links' = {}
    BY ONLY <2>1
  <2>4. OneLogin'
    BY <2>1, <2>a, <2>b, <2>c, <2>d
  <2>5. TokenHasProfile'
    BY <2>1
  <2> QED BY <2>3, <2>4, <2>5
<1>24. ASSUME NEW r \in Requests, ReadAuthor(r) PROVE Account'
  BY <1>24 DEF ReadAuthor
<1>25. ASSUME NEW r \in Requests, Lookup(r) PROVE Account'
  BY <1>25 DEF Lookup
<1>26. ASSUME NEW r \in Requests, SendMessage(r) PROVE Account'
  BY <1>26 DEF SendMessage
<1>27. ASSUME NEW r \in Requests, Fail(r) PROVE Account'
  BY <1>27 DEF Fail
<1>28. ASSUME NEW r \in Requests, FailUsername(r) PROVE Account'
  BY <1>28 DEF FailUsername
<1>29. ASSUME NEW r \in Requests, NEW u \in Requests, BeginRemove(r, u) PROVE Account'
  BY <1>29 DEF BeginRemove, Begin
<1>30. ASSUME NEW r \in Requests, NEW u \in Requests, BeginNotify(r, u) PROVE Account'
  BY <1>30 DEF BeginNotify, Begin
<1> QED
  BY <1>1, <1>2, <1>3, <1>4, <1>5, <1>6, <1>7, <1>8, <1>9, <1>10, <1>11, <1>12, <1>13,
     <1>14, <1>15, <1>16, <1>17, <1>18, <1>19, <1>20, <1>21, <1>22, <1>23, <1>24, <1>25,
     <1>26, <1>27, <1>28, <1>29, <1>30 DEF Next, Arrive, Step

-----------------------------------------------------------------------------
(* Every request and failure, of any number of them, keeps what the vault and
   the server know of the member consistent. *)
THEOREM InvHolds == Spec => []Inv
<1> USE DEF Inv, Vault, Account
<1>1. Init => Inv
  <2> SUFFICES ASSUME Init PROVE Inv
    OBVIOUS
  <2>1. TypeOK
    <3>1. /\ pc \in [Requests -> PCs] /\ kind \in [Requests -> AllKinds]
          /\ users \in [Requests -> {"none", "available", "deleted"}]
          /\ got \in [Requests -> Statuses \cup {Absent}]
          /\ suffixed \in [Requests -> BOOLEAN]
      BY DEF Init, PCs, AllKinds
    <3>2. /\ account \in [Requests -> Requests \cup {Absent}]
          /\ owner \in [Requests -> Requests \cup {Absent}]
      BY DEF Init
    <3>3. failures \in 0..MaxFailures
      BY IdentityAssumption DEF Init
    <3>4. /\ status \in Statuses \cup {Absent} /\ profile \in Profiles \cup {Absent}
          /\ links \subseteq Requests /\ handed \subseteq Requests
          /\ late \subseteq Requests /\ told \subseteq Requests
      BY DEF Init
    <3>5. /\ employed \in BOOLEAN /\ left \in BOOLEAN /\ handled \in BOOLEAN
          /\ settled \in BOOLEAN
      BY DEF Init
    <3> QED BY <3>1, <3>2, <3>3, <3>4, <3>5 DEF TypeOK
  <2>2. ProgramCounters
    BY DEF Init, ProgramCounters, InProgress
  <2>3. StatusKnown /\ DeactivationHolds /\ NobodyRevives /\ LateAfterSettled /\ DismissedNotTold
    BY DEF Init, StatusKnown, LoginPCs, DeactivationHolds, NobodyRevives, LateAfterSettled,
           DismissedNotTold
  <2>4. Accounts
    BY DEF Init, Accounts
  <2>5. OneAccount /\ OneLogin /\ TokenHasProfile
    BY DEF Init, OneAccount, OneLogin, InProgress, TokenHasProfile
  <2> QED BY <2>1, <2>2, <2>3, <2>4, <2>5
<1>2. Inv /\ [Next]_vars => Inv'
  BY TypeStep, CountersStep, VaultStep, AccountStep
<1> QED
  BY <1>1, <1>2, PTL DEF Spec

(* An identity that was deactivated while no resolve was about to write it back
   stays inactive for ever (vault, resolve and updateStatus). *)
THEOREM DeactivationIsFinal == Spec => []DeactivationHolds
<1>1. Inv => DeactivationHolds
  BY DEF Inv
<1> QED
  BY InvHolds, <1>1, PTL

(* The holder of a token that was not deleted has the subject's profile
   (HandleAuthCallback with ensureAnonymousProfile). *)
THEOREM TokensHaveProfiles == Spec => []TokenHasProfile
<1>1. Inv => TokenHasProfile
  BY DEF Inv
<1> QED
  BY InvHolds, <1>1, PTL

(* A member who logs in one at a time never gets a second account
   (ExternalLogin and registerNewUser). *)
THEOREM AccountsAreUnique == Spec => []OneAccount
<1>1. Inv => OneAccount
  BY DEF Inv
<1> QED
  BY InvHolds, <1>1, PTL

(* Whoever was deactivated for good before a reply is not told of it
   (NotifyReplyAuthor). *)
THEOREM DismissedAreNotTold == Spec => []DismissedNotTold
<1>1. Inv => DismissedNotTold
  BY DEF Inv
<1> QED
  BY InvHolds, <1>1, PTL
=============================================================================
