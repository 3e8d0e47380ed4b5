--------------------------- MODULE SessionsProofs ---------------------------
(***************************************************************************)
(* Theorems about Sessions, for every number of requests and every mix of  *)
(* them.                                                                   *)
(***************************************************************************)
EXTENDS Sessions, TLAPS

USE SessionsAssumption DEF SessionsAssumption

KindSet == LoginKinds \cup StatusKinds \cup RemovingKinds \cup TokenKinds

(* A request that goes on keeps the type of pc. *)
LEMMA GotoType ==
  ASSUME TypeOK, NEW r \in Requests, NEW from, NEW to \in PCs, Goto(r, from, to)
  PROVE  pc' \in [Requests -> PCs]
BY DEF TypeOK, Goto

(* A request that is done forgets what it has read. *)
LEMMA FinishType ==
  ASSUME TypeOK, NEW r \in Requests, NEW from, Finish(r, from)
  PROVE  /\ pc' \in [Requests -> PCs]
         /\ op' \in [Requests -> [kind : Kinds \cup {"none"}, token : Requests \cup {Absent}, role : Roles]]
         /\ info' \in [Requests -> Infos]
         /\ known' \in [Requests -> SUBSET Requests]
         /\ before' \in [Requests -> SUBSET Requests]
<1>1. "done" \in PCs
  BY DEF PCs
<1>2. Zero \in Infos
  BY DEF Zero, Infos, Codes, Roles
<1>3. [kind |-> "none", token |-> Absent, role |-> "user"]
        \in [kind : Kinds \cup {"none"}, token : Requests \cup {Absent}, role : Roles]
  BY DEF Roles
<1> QED
  BY <1>1, <1>2, <1>3 DEF TypeOK, Finish, Goto, Forget

(* What a request that arrives is asked for. *)
LEMMA ArriveType ==
  ASSUME TypeOK, NEW r \in Requests, NEW k \in Kinds, NEW t \in Requests \cup {Absent},
         NEW role \in Roles, Arrive(r, k, t, role)
  PROVE  /\ op' \in [Requests -> [kind : Kinds \cup {"none"}, token : Requests \cup {Absent}, role : Roles]]
         /\ tainted' \in BOOLEAN
BY DEF TypeOK, Arrive

(* The row that a change of status asks for. *)
LEMMA NewRowType ==
  ASSUME TypeOK, NEW k \in StatusKinds
  PROVE  NewRow(k) \in Infos
BY DEF TypeOK, NewRow, StatusKinds, Infos, Codes, UserStatusSuspended, UserStatusAvailable,
       UserStatusDeleted, EmailStatusAvailable, EmailStatusToBeVerified

(* The token that a request writes is one. *)
LEMMA AccessType ==
  ASSUME TypeOK, ProgramCounters, NEW r \in Requests,
         pc[r] \in {"set_token", "get_map", "set_map", "set_visit", "del_admin", "del_visit"}
  PROVE  /\ Access(r) \in Requests
         /\ Kind(r) = "logout" => op[r].token \in Requests
         /\ pc[r] \in {"del_admin", "del_visit"} => Kind(r) = "logout"
<1>1. Kind(r) \in KindSet \cup {"none"}
  BY DEF TypeOK, Kind, KindSet
<1>2. op[r].token \in Requests \cup {Absent}
  BY DEF TypeOK
<1>3. Kind(r) \in LoginKinds \cup {"auth", "change", "logout"}
  BY <1>1 DEF ProgramCounters, OnRoute, KindSet, LoginKinds, StatusKinds, RemovingKinds, TokenKinds
<1>4. Kind(r) \notin LoginKinds => op[r].token # Absent
  BY <1>3 DEF ProgramCounters, Carries, Kind
<1> QED
  BY <1>2, <1>3, <1>4 DEF Access, ProgramCounters, OnRoute, LoginKinds

(* Every step of a request keeps the types. *)
LEMMA StepType ==
  ASSUME TypeOK, ProgramCounters, NEW r \in Requests, Step(r)
  PROVE  TypeOK'
<1>1. CASE UpdateEmailStatus(r)
  BY <1>1, FinishType DEF UpdateEmailStatus, Goto, TypeOK, cache, local, PCs, Infos, Codes, EmailStatusAvailable
<1>2. CASE GetUserRole(r)
  <2>1. [info[r] EXCEPT !.role = user.role] \in Infos
    BY DEF TypeOK, Infos
  <2>2. \A i \in Infos : Exchanged(i) \in Infos
    BY DEF Exchanged, Infos
  <2>3. pc' \in [Requests -> PCs]
    BY <1>2, GotoType DEF GetUserRole, PCs
  <2> QED
    BY <1>2, <2>1, <2>2, <2>3 DEF GetUserRole, TypeOK, cache
<1>3. CASE GetUserStatus(r)
  BY <1>3, FinishType DEF GetUserStatus, Goto, TypeOK, cache, local, PCs
<1>4. CASE SetToken(r)
  BY <1>4, FinishType DEF SetToken, Goto, TypeOK, cache, local, PCs, Access
<1>5. CASE GetMapping(r)
  BY <1>5, FinishType DEF GetMapping, Goto, TypeOK, cache, local, PCs
<1>6. CASE SetMapping(r)
  BY <1>6, FinishType, AccessType DEF SetMapping, Goto, TypeOK, cache, local, PCs, Access
<1>7. CASE SetVisit(r)
  <2>1. pc[r] = "set_visit"
    BY <1>7 DEF SetVisit, Finish, Goto
  <2>2. visit' \subseteq Requests
    BY <1>7, <2>1, AccessType DEF SetVisit, TypeOK
  <2>3. CASE Finish(r, "set_visit")
    BY <1>7, <2>2, <2>3, FinishType DEF SetVisit, TypeOK
  <2>4. CASE ~Finish(r, "set_visit")
    <3>1. PICK to \in PCs : Goto(r, "set_visit", to)
      BY <1>7, <2>4 DEF SetVisit, PCs
    <3>2. pc' \in [Requests -> PCs]
      BY <3>1, GotoType
    <3> QED
      BY <1>7, <2>2, <2>4, <3>2 DEF SetVisit, TypeOK, local
  <2> QED
    BY <2>3, <2>4
<1>8. CASE SetAdmin(r)
  BY <1>8, FinishType DEF SetAdmin, Goto, TypeOK, cache, local, PCs
<1>9. CASE UpdateRow(r)
  BY <1>9, FinishType DEF UpdateRow, Goto, TypeOK, cache, local, PCs, Infos
<1>10. CASE SetUserStatus(r)
  BY <1>10, FinishType DEF SetUserStatus, Goto, TypeOK, cache, local, PCs
<1>11. CASE Save(r)
  BY <1>11, FinishType DEF Save, Goto, TypeOK, cache, local, PCs, Infos
<1>12. CASE ReadMapping(r)
  BY <1>12, FinishType DEF ReadMapping, Goto, TypeOK, cache, local, PCs
<1>13. CASE RemoveStatus(r)
  BY <1>13, FinishType DEF RemoveStatus, Goto, TypeOK, cache, local, PCs
<1>14. CASE RemoveMapping(r)
  BY <1>14, FinishType DEF RemoveMapping, Goto, TypeOK, cache, local, PCs
<1>15. CASE LogoutAdmin(r)
  BY <1>15, FinishType DEF LogoutAdmin, Goto, TypeOK, cache, local, PCs
<1>16. CASE LogoutVisit(r)
  <2>1. pc[r] = "del_visit"
    BY <1>16 DEF LogoutVisit, Finish, Goto
  <2>2. op[r].token \in Requests
    BY <2>1, AccessType
  <2> QED
    BY <1>16, <2>2, FinishType DEF LogoutVisit, TypeOK
<1>17. ASSUME NEW t \in known[r], RemoveToken(r, t)
      PROVE  TypeOK'
  BY <1>17 DEF RemoveToken, Goto, TypeOK, cache, local, PCs
<1> QED
  BY <1>1, <1>2, <1>3, <1>4, <1>5, <1>6, <1>7, <1>8, <1>9, <1>10, <1>11, <1>12, <1>13, <1>14, <1>15, <1>16, <1>17 DEF Step

(* A request that arrives keeps the types. *)
LEMMA BeginType ==
  ASSUME TypeOK, NEW r \in Requests, Begin(r)
  PROVE  TypeOK'
<1>1. ASSUME NEW k \in Kinds, BeginLogin(r, k)
      PROVE  TypeOK'
  <2>1. /\ pc' \in [Requests -> PCs]
        /\ info' \in [Requests -> Infos]
    BY <1>1, GotoType DEF BeginLogin, PCs, TypeOK
  <2> QED
    BY <1>1, <2>1, ArriveType DEF BeginLogin, TypeOK, cache, Roles
<1>2. ASSUME NEW k \in Kinds, BeginStatus(r, k)
      PROVE  TypeOK'
  <2>1. [NewRow(k) EXCEPT !.role = "none"] \in Infos
    <3>1. NewRow(k) \in Infos
      BY <1>2, NewRowType DEF BeginStatus
    <3> QED
      BY <3>1 DEF Infos
  <2>2. /\ pc' \in [Requests -> PCs]
        /\ info' \in [Requests -> Infos]
    BY <1>2, <2>1, GotoType DEF BeginStatus, PCs, TypeOK
  <2> QED
    BY <1>2, <2>2, ArriveType DEF BeginStatus, TypeOK, cache, Roles
<1>3. ASSUME NEW k \in Kinds, NEW role \in Roles, BeginRemoval(r, k, role)
      PROVE  TypeOK'
  <2>1. /\ pc' \in [Requests -> PCs]
        /\ before' \in [Requests -> SUBSET Requests]
    BY <1>3, GotoType DEF BeginRemoval, PCs, TypeOK, Alive
  <2> QED
    BY <1>3, <2>1, ArriveType DEF BeginRemoval, TypeOK, cache
<1>4. ASSUME NEW k \in Kinds, NEW t \in Alive, BeginAuthorised(r, k, t)
      PROVE  TypeOK'
  <2>1. t \in Requests /\ token[t] \in Infos
    BY DEF Alive, TypeOK
  <2>2. /\ pc' \in [Requests -> PCs]
        /\ info' \in [Requests -> Infos]
        /\ before' \in [Requests -> SUBSET Requests]
    BY <1>4, <2>1, GotoType DEF BeginAuthorised, PCs, TypeOK, Alive
  <2> QED
    BY <1>4, <2>1, <2>2, ArriveType DEF BeginAuthorised, TypeOK, cache, Roles
<1>5. ASSUME NEW t \in Alive, BeginLogout(r, t)
      PROVE  TypeOK'
  <2>1. t \in Requests /\ "logout" \in Kinds
    BY <1>5 DEF Alive, BeginLogout
  <2>2. /\ pc' \in [Requests -> PCs]
        /\ token' \in [Requests -> Infos \cup {Absent}]
    BY <1>5, <2>1, GotoType DEF BeginLogout, PCs, TypeOK
  <2> QED
    BY <1>5, <2>1, <2>2, ArriveType DEF BeginLogout, TypeOK, Roles
<1> QED
  BY <1>1, <1>2, <1>3, <1>4, <1>5 DEF Begin

-----------------------------------------------------------------------------
(* What a step of request r does to the control of the requests and to the
   history, whichever step it is. *)
Frame(r) ==
  /\ \A q \in Requests \ {r} :
       pc'[q] = pc[q] /\ op'[q] = op[q] /\ before'[q] = before[q] /\ known'[q] = known[q]
  /\ pc[r] \notin {"new", "done"}
  /\ pc'[r] # "new"
  /\ \/ pc'[r] # "done" /\ op'[r] = op[r] /\ before'[r] = before[r]
     \/ pc'[r] = "done" /\ op'[r] = [kind |-> "none", token |-> Absent, role |-> "user"]
                         /\ before'[r] = {}
  /\ tainted => tainted'

(* Every step of a request obeys the frame. *)
LEMMA StepFrame ==
  ASSUME TypeOK, NEW r \in Requests, Step(r)
  PROVE  Frame(r)
<1>1. CASE UpdateEmailStatus(r)
  BY <1>1 DEF UpdateEmailStatus, Goto, Finish, Forget, TypeOK, Frame, local
<1>2. CASE GetUserRole(r)
  BY <1>2 DEF GetUserRole, Goto, Finish, Forget, TypeOK, Frame, local
<1>3. CASE GetUserStatus(r)
  BY <1>3 DEF GetUserStatus, Goto, Finish, Forget, TypeOK, Frame, local
<1>4. CASE SetToken(r)
  BY <1>4 DEF SetToken, Goto, Finish, Forget, TypeOK, Frame, local
<1>5. CASE GetMapping(r)
  BY <1>5 DEF GetMapping, Goto, Finish, Forget, TypeOK, Frame, local
<1>6. CASE SetMapping(r)
  BY <1>6 DEF SetMapping, Goto, Finish, Forget, TypeOK, Frame, local
<1>7. CASE SetVisit(r)
  BY <1>7 DEF SetVisit, Goto, Finish, Forget, TypeOK, Frame, local
<1>8. CASE SetAdmin(r)
  BY <1>8 DEF SetAdmin, Goto, Finish, Forget, TypeOK, Frame, local
<1>9. CASE UpdateRow(r)
  BY <1>9 DEF UpdateRow, Goto, Finish, Forget, TypeOK, Frame, local
<1>10. CASE SetUserStatus(r)
  BY <1>10 DEF SetUserStatus, Goto, Finish, Forget, TypeOK, Frame, local
<1>11. CASE Save(r)
  BY <1>11 DEF Save, Goto, Finish, Forget, TypeOK, Frame, local
<1>12. CASE ReadMapping(r)
  BY <1>12 DEF ReadMapping, Goto, Finish, Forget, TypeOK, Frame, local
<1>13. CASE RemoveStatus(r)
  BY <1>13 DEF RemoveStatus, Goto, Finish, Forget, TypeOK, Frame, local
<1>14. CASE RemoveMapping(r)
  BY <1>14 DEF RemoveMapping, Goto, Finish, Forget, TypeOK, Frame, local
<1>15. CASE LogoutAdmin(r)
  BY <1>15 DEF LogoutAdmin, Goto, Finish, Forget, TypeOK, Frame, local
<1>16. CASE LogoutVisit(r)
  BY <1>16 DEF LogoutVisit, Goto, Finish, Forget, TypeOK, Frame, local
<1>17. ASSUME NEW t \in known[r], RemoveToken(r, t)
      PROVE  Frame(r)
  BY <1>17 DEF RemoveToken, Goto, TypeOK, Frame
<1> QED
  BY <1>1, <1>2, <1>3, <1>4, <1>5, <1>6, <1>7, <1>8, <1>9, <1>10, <1>11, <1>12, <1>13, <1>14, <1>15, <1>16, <1>17 DEF Step

(* A step goes where the kind of the request goes. *)
LEMMA StepControl ==
  ASSUME TypeOK, ProgramCounters, NEW r \in Requests, Step(r)
  PROVE  ProgramCounters'
<1> USE DEF Kind, LoginKinds, StatusKinds, OnRoute
<1>1. Frame(r)
  BY StepFrame
<1>2. \A q \in Requests \ {r} : pc'[q] = pc[q] /\ op'[q] = op[q]
  BY <1>1 DEF Frame
<1>3. SUFFICES ASSUME op'[r] = op[r], pc'[r] # "done"
               PROVE  ProgramCounters'
  BY <1>1, <1>2 DEF Frame, ProgramCounters, Carries
<1>4. pc'[r] \notin {"new", "done"} /\ pc[r] \notin {"new", "done"}
  BY <1>1, <1>3 DEF Frame
<1>5. OnRoute(op[r].kind, pc'[r])
  <2>1. CASE UpdateEmailStatus(r)
    BY <1>3, <2>1 DEF UpdateEmailStatus, Goto, Finish, TypeOK, ProgramCounters
  <2>2. CASE GetUserRole(r)
    BY <1>3, <2>2 DEF GetUserRole, Goto, Finish, TypeOK, ProgramCounters
  <2>3. CASE GetUserStatus(r)
    BY <1>3, <2>3 DEF GetUserStatus, Goto, Finish, TypeOK, ProgramCounters
  <2>4. CASE SetToken(r)
    BY <1>3, <2>4 DEF SetToken, Goto, Finish, TypeOK, ProgramCounters
  <2>5. CASE GetMapping(r)
    BY <1>3, <2>5 DEF GetMapping, Goto, Finish, TypeOK, ProgramCounters
  <2>6. CASE SetMapping(r)
    BY <1>3, <2>6 DEF SetMapping, Goto, Finish, TypeOK, ProgramCounters
  <2>7. CASE SetVisit(r)
    BY <1>3, <2>7 DEF SetVisit, Goto, Finish, TypeOK, ProgramCounters
  <2>8. CASE SetAdmin(r)
    BY <1>3, <2>8 DEF SetAdmin, Goto, Finish, TypeOK, ProgramCounters
  <2>9. CASE UpdateRow(r)
    BY <1>3, <2>9 DEF UpdateRow, Goto, Finish, TypeOK, ProgramCounters
  <2>10. CASE SetUserStatus(r)
    BY <1>3, <2>10 DEF SetUserStatus, Goto, Finish, TypeOK, ProgramCounters
  <2>11. CASE Save(r)
    BY <1>3, <2>11 DEF Save, Goto, Finish, TypeOK, ProgramCounters
  <2>12. CASE ReadMapping(r)
    BY <1>3, <2>12 DEF ReadMapping, Goto, Finish, TypeOK, ProgramCounters
  <2>13. CASE RemoveStatus(r)
    BY <1>3, <2>13 DEF RemoveStatus, Goto, Finish, TypeOK, ProgramCounters
  <2>14. CASE RemoveMapping(r)
    BY <1>3, <2>14 DEF RemoveMapping, Goto, Finish, TypeOK, ProgramCounters
  <2>15. CASE LogoutAdmin(r)
    BY <1>3, <2>15 DEF LogoutAdmin, Goto, Finish, TypeOK, ProgramCounters
  <2>16. CASE LogoutVisit(r)
    BY <1>3, <2>16 DEF LogoutVisit, Goto, Finish, TypeOK, ProgramCounters
  <2>17. ASSUME NEW t \in known[r], RemoveToken(r, t)
        PROVE  OnRoute(op[r].kind, pc'[r])
    BY <2>17 DEF RemoveToken, Goto, TypeOK, ProgramCounters
  <2> QED
    BY <2>1, <2>2, <2>3, <2>4, <2>5, <2>6, <2>7, <2>8, <2>9, <2>10, <2>11, <2>12, <2>13, <2>14, <2>15, <2>16, <2>17 DEF Step
<1> QED
  BY <1>2, <1>3, <1>4, <1>5 DEF ProgramCounters

(* The requests that have met are the same or fewer after a step. *)
LEMMA StepApart ==
  ASSUME TypeOK, Apart, NEW r \in Requests, Step(r)
  PROVE  Apart'
<1>1. Frame(r)
  BY StepFrame
<1>2. InProgress' \subseteq InProgress /\ r \in InProgress
  BY <1>1 DEF Frame, InProgress
<1>3. \A q \in InProgress' : op'[q] = op[q]
  BY <1>1 DEF Frame, InProgress
<1>4. \A q, p \in InProgress' : Clash(op[q], op[p])' = Clash(op[q], op[p])
  BY <1>3 DEF Clash
<1> QED
  BY <1>1, <1>2, <1>4 DEF Apart, Frame

(* What kinds of request get to the steps that change sessions. *)
LEMMA KindAt ==
  ASSUME TypeOK, ProgramCounters, NEW r \in Requests
  PROVE  /\ pc[r] \in {"set_token", "get_map", "set_map"} => Kind(r) \in LoginKinds \cup {"auth", "change"}
         /\ pc[r] \in {"rm_read", "rm_token", "rm_status", "rm_map"} => Kind(r) \in RemovingKinds
         /\ pc[r] \in {"del_admin", "del_visit"} => Kind(r) = "logout"
<1>1. Kind(r) \in KindSet \cup {"none"}
  BY DEF TypeOK, Kind, KindSet
<1> QED
  BY <1>1 DEF ProgramCounters, OnRoute, KindSet, LoginKinds, StatusKinds, RemovingKinds, TokenKinds

(* What a step of request r does to the sessions and to their history. *)
Effect(r) ==
  /\ \/ Alive' \subseteq Alive
     \/ /\ pc[r] = "set_token" /\ pc'[r] = "get_map"
        /\ Alive' \subseteq Alive \cup {Access(r)}
        /\ UNCHANGED <<ended, mapping, op, known, before>>
  /\ \/ ended' = ended
     \/ pc[r] = "rm_map" /\ ended' = ended \cup before[r] /\ UNCHANGED token
     \/ pc[r] = "del_visit" /\ ended' = ended \cup {op[r].token} /\ UNCHANGED token
  /\ \/ mapping' = mapping
     \/ RemoveMapping(r)
     \/ SetMapping(r)
  /\ Writing(r)' => Writing(r)
  /\ Recording(r) => Recording(r)' \/ SetMapping(r)

(* Every step of a request has such an effect. *)
LEMMA StepEffect ==
  ASSUME TypeOK, NEW r \in Requests, Step(r)
  PROVE  Effect(r)
<1>1. CASE UpdateEmailStatus(r)
  BY <1>1 DEF UpdateEmailStatus, Goto, Finish, Forget, TypeOK, cache, local, Effect, Alive, Writing, Recording
<1>2. CASE GetUserRole(r)
  BY <1>2 DEF GetUserRole, Goto, Finish, Forget, TypeOK, cache, local, Effect, Alive, Writing, Recording
<1>3. CASE GetUserStatus(r)
  BY <1>3 DEF GetUserStatus, Goto, Finish, Forget, TypeOK, cache, local, Effect, Alive, Writing, Recording
<1>4. CASE SetToken(r)
  BY <1>4 DEF SetToken, Goto, Finish, Forget, TypeOK, cache, local, Effect, Alive, Writing, Recording
<1>5. CASE GetMapping(r)
  BY <1>5 DEF GetMapping, Goto, Finish, Forget, TypeOK, cache, local, Effect, Alive, Writing, Recording
<1>6. CASE SetMapping(r)
  BY <1>6 DEF SetMapping, Goto, Finish, Forget, TypeOK, cache, local, Effect, Alive, Writing, Recording
<1>7. CASE SetVisit(r)
  BY <1>7 DEF SetVisit, Goto, Finish, Forget, TypeOK, cache, local, Effect, Alive, Writing, Recording
<1>8. CASE SetAdmin(r)
  BY <1>8 DEF SetAdmin, Goto, Finish, Forget, TypeOK, cache, local, Effect, Alive, Writing, Recording
<1>9. CASE UpdateRow(r)
  BY <1>9 DEF UpdateRow, Goto, Finish, Forget, TypeOK, cache, local, Effect, Alive, Writing, Recording
<1>10. CASE SetUserStatus(r)
  BY <1>10 DEF SetUserStatus, Goto, Finish, Forget, TypeOK, cache, local, Effect, Alive, Writing, Recording
<1>11. CASE Save(r)
  BY <1>11 DEF Save, Goto, Finish, Forget, TypeOK, cache, local, Effect, Alive, Writing, Recording
<1>12. CASE ReadMapping(r)
  BY <1>12 DEF ReadMapping, Goto, Finish, Forget, TypeOK, cache, local, Effect, Alive, Writing, Recording
<1>13. CASE RemoveStatus(r)
  BY <1>13 DEF RemoveStatus, Goto, Finish, Forget, TypeOK, cache, local, Effect, Alive, Writing, Recording
<1>14. CASE RemoveMapping(r)
  BY <1>14 DEF RemoveMapping, Goto, Finish, Forget, TypeOK, cache, local, Effect, Alive, Writing, Recording
<1>15. CASE LogoutAdmin(r)
  BY <1>15 DEF LogoutAdmin, Goto, Finish, Forget, TypeOK, cache, local, Effect, Alive, Writing, Recording
<1>16. CASE LogoutVisit(r)
  BY <1>16 DEF LogoutVisit, Goto, Finish, Forget, TypeOK, cache, local, Effect, Alive, Writing, Recording
<1>17. ASSUME NEW t \in known[r], RemoveToken(r, t)
      PROVE  Effect(r)
  BY <1>17 DEF RemoveToken, Goto, TypeOK, Effect, Alive, Writing, Recording
<1> QED
  BY <1>1, <1>2, <1>3, <1>4, <1>5, <1>6, <1>7, <1>8, <1>9, <1>10, <1>11, <1>12, <1>13, <1>14, <1>15, <1>16, <1>17 DEF Step

(* A token that a login has yet to make is nowhere. *)
LEMMA StepMade ==
  ASSUME TypeOK, ProgramCounters, TokensMade, NEW r \in Requests, Step(r)
  PROVE  TokensMade'
<1>1. Frame(r) /\ Effect(r)
  BY StepFrame, StepEffect
<1>2. SUFFICES ASSUME NEW n \in Requests,
                      pc'[n] = "new" \/ (Kind(n)' \in LoginKinds /\ Writing(n)')
               PROVE  /\ n \notin Alive' \cup ended'
                      /\ \A q \in Requests : n \notin before'[q] /\ n # op'[q].token
  BY DEF TokensMade
<1>3. pc[n] = "new" \/ (Kind(n) \in LoginKinds /\ Writing(n))
  BY <1>1, <1>2 DEF Frame, Effect, Kind, Writing, LoginKinds
<1>4. /\ n \notin Alive \cup ended
      /\ \A q \in Requests : n \notin before[q] /\ n # op[q].token
  BY <1>3 DEF TokensMade
<1>5. \A q \in Requests : n \notin before'[q] /\ n # op'[q].token
  BY <1>1, <1>4 DEF Frame
<1>6. n \notin ended'
  BY <1>1, <1>4 DEF Effect
<1>7. CASE Alive' \subseteq Alive
  BY <1>4, <1>5, <1>6, <1>7
<1>8. CASE /\ pc[r] = "set_token" /\ pc'[r] = "get_map"
           /\ Alive' \subseteq Alive \cup {Access(r)}
  <2>1. n # r
    BY <1>2, <1>8 DEF Writing
  <2>2. n # Access(r)
    BY <1>4, <2>1 DEF Access
  <2> QED
    BY <1>4, <1>5, <1>6, <1>8, <2>2
<1> QED
  BY <1>1, <1>7, <1>8 DEF Effect

(* The mapping goes on to cover the sessions. *)
LEMMA StepMapping ==
  ASSUME TypeOK, ProgramCounters, MappingCovers, RemovalCovers, NEW r \in Requests, Step(r)
  PROVE  MappingCovers'
<1>1. Frame(r) /\ Effect(r)
  BY StepFrame, StepEffect
<1>2. SUFFICES ASSUME ~tainted', NEW t \in Alive'
               PROVE  t \in mapping' \/ \E q \in InProgress' : Recording(q)' /\ Access(q)' = t
  BY DEF MappingCovers
<1>3. ~tainted
  BY <1>1, <1>2 DEF Frame
<1>4. \A q \in InProgress : Recording(q) /\ ~(q = r /\ SetMapping(r)) =>
        q \in InProgress' /\ Recording(q)' /\ Access(q)' = Access(q)
  BY <1>1 DEF Frame, Effect, Recording, InProgress, Access, Kind
<1>5. CASE t \notin Alive
  <2>1. pc[r] = "set_token" /\ pc'[r] = "get_map" /\ t = Access(r) /\ op' = op
    BY <1>1, <1>2, <1>5 DEF Effect
  <2>2. r \in InProgress' /\ Recording(r)' /\ Access(r)' = t
    BY <2>1 DEF InProgress, Recording, Access, Kind
  <2> QED
    BY <2>2
<1>6. CASE t \in Alive /\ SetMapping(r)
  <2>1. mapping \subseteq mapping' /\ Access(r) \in mapping'
    BY <1>2, <1>6 DEF SetMapping
  <2> QED
    BY <1>3, <1>4, <1>6, <2>1 DEF MappingCovers
<1>7. CASE t \in Alive /\ ~SetMapping(r) /\ RemoveMapping(r)
  <2>1. pc[r] = "rm_map" /\ Kind(r) \in RemovingKinds /\ r \in InProgress
    BY <1>7, KindAt DEF RemoveMapping, Finish, Goto, InProgress
  <2>2. Alive \ {op[r].token} = {} /\ op[r].token \notin Alive
    BY <1>2, <1>3, <1>7, <2>1 DEF RemovalCovers, Covered, RemoveMapping
  <2> QED
    BY <1>7, <2>2
<1>8. CASE t \in Alive /\ ~SetMapping(r) /\ mapping' = mapping
  BY <1>3, <1>4, <1>8 DEF MappingCovers
<1> QED
  BY <1>1, <1>5, <1>6, <1>7, <1>8 DEF Effect

(* Requests that serve a session do not meet requests that end it. *)
LEMMA StepServed ==
  ASSUME TypeOK, ProgramCounters, Apart, TokensMade, Served, NEW r \in Requests, Step(r)
  PROVE  Served'
<1>1. Frame(r) /\ Effect(r)
  BY StepFrame, StepEffect
<1>2. SUFFICES ASSUME ~tainted', NEW q \in InProgress'
               PROVE  /\ Kind(q)' \in {"auth", "change"} => op'[q].token \notin ended'
                      /\ Kind(q)' = "logout" => op'[q].token \notin Alive'
  BY DEF Served
<1>3. ~tainted /\ q \in InProgress /\ r \in InProgress /\ op'[q] = op[q] /\ q \in Requests
  BY <1>1, <1>2 DEF Frame, InProgress
<1>4. r = q => pc'[r] # "done"
  BY <1>2 DEF InProgress
<1>5. ASSUME Kind(q) \in {"auth", "change"}
      PROVE  op[q].token \notin ended'
  <2>1. op[q].token \notin ended
    BY <1>3, <1>5 DEF Served
  <2>2. CASE pc[r] = "rm_map" /\ ended' = ended \cup before[r]
    <3>1. Kind(r) \in RemovingKinds
      BY <2>2, KindAt
    <3>2. r # q
      <4>1. CASE RemoveMapping(r)
        BY <1>4, <4>1 DEF RemoveMapping, Finish, Goto, TypeOK
      <4>2. CASE ~RemoveMapping(r)
        BY <2>2, <4>2 DEF Step, UpdateEmailStatus, GetUserRole, GetUserStatus, SetToken,
             GetMapping, SetMapping, SetVisit, SetAdmin, UpdateRow, SetUserStatus, Save,
             ReadMapping, RemoveToken, RemoveStatus, LogoutAdmin, LogoutVisit, Goto, Finish
      <4> QED
        BY <4>1, <4>2
    <3>3. Clash(op[r], op[q])
      BY <1>5, <3>1 DEF Clash, Kind
    <3> QED
      BY <1>3, <3>2, <3>3 DEF Apart
  <2>3. CASE pc[r] = "del_visit" /\ ended' = ended \cup {op[r].token}
    <3>1. Kind(r) = "logout"
      BY <2>3, KindAt
    <3>2. op[r].token = op[q].token => Clash(op[r], op[q])
      BY <1>5, <3>1 DEF Clash, Kind
    <3>3. r # q
      BY <1>5, <3>1
    <3> QED
      BY <1>3, <2>1, <2>3, <3>2, <3>3 DEF Apart
  <2> QED
    BY <1>1, <2>1, <2>2, <2>3 DEF Effect
<1>6. ASSUME Kind(q) = "logout"
      PROVE  op[q].token \notin Alive'
  <2>1. op[q].token \notin Alive
    BY <1>3, <1>6 DEF Served
  <2>2. CASE pc[r] = "set_token" /\ Alive' \subseteq Alive \cup {Access(r)}
    <3>1. Kind(r) \in LoginKinds \cup {"auth", "change"}
      BY <2>2, KindAt
    <3>2. CASE Kind(r) \in LoginKinds
      <4>1. op[q].token # r
        BY <1>3, <2>2, <3>2 DEF TokensMade, Writing
      <4> QED
        BY <2>1, <2>2, <3>2, <4>1 DEF Access
    <3>3. CASE Kind(r) \in {"auth", "change"}
      <4>1. op[q].token = op[r].token => Clash(op[q], op[r])
        BY <1>6, <3>3 DEF Clash, Kind
      <4>2. r # q
        BY <1>6, <3>3
      <4>3. op[q].token # op[r].token
        BY <1>3, <4>1, <4>2 DEF Apart
      <4>4. Access(r) = op[r].token
        BY <3>3 DEF Access, LoginKinds
      <4> QED
        BY <2>1, <2>2, <4>3, <4>4
    <3> QED
      BY <3>1, <3>2, <3>3
  <2> QED
    BY <1>1, <2>1, <2>2 DEF Effect
<1> QED
  BY <1>3, <1>5, <1>6 DEF Kind

(* The removal of another request is not disturbed by a step of r. *)
LEMMA OtherRemoval ==
  ASSUME TypeOK, ProgramCounters, Apart, RemovalCovers, NEW r \in Requests, Step(r),
         ~tainted', NEW q \in InProgress', Kind(q)' \in RemovingKinds, q # r
  PROVE  Covered(q)'
<1>1. Frame(r) /\ Effect(r)
  BY StepFrame, StepEffect
<1>2. /\ ~tainted /\ q \in Requests /\ q \in InProgress /\ r \in InProgress
      /\ op'[q] = op[q] /\ pc'[q] = pc[q] /\ known'[q] = known[q] /\ before'[q] = before[q]
      /\ Kind(q) \in RemovingKinds
  BY <1>1 DEF Frame, InProgress, Kind
<1>3. Covered(q)
  BY <1>2 DEF RemovalCovers
<1>4. Alive' \subseteq Alive
  <2>1. SUFFICES ASSUME pc[r] = "set_token"
                 PROVE  FALSE
    BY <1>1 DEF Effect
  <2>2. Kind(r) \in LoginKinds \cup {"auth", "change"}
    BY <2>1, KindAt
  <2>3. Clash(op[q], op[r])
    BY <1>2, <2>2 DEF Clash, Kind
  <2> QED
    BY <1>2, <2>3 DEF Apart
<1>5. mapping \subseteq mapping' \/ Alive' = {}
  <2>1. CASE SetMapping(r)
    BY <2>1 DEF SetMapping
  <2>2. CASE RemoveMapping(r)
    <3>1. pc[r] = "rm_map" /\ Kind(r) \in RemovingKinds
      BY <2>2, KindAt DEF RemoveMapping, Finish, Goto
    <3>2. Kind(r) # "change"
      <4>1. SUFFICES ASSUME Kind(r) = "change"
                     PROVE  Clash(op[q], op[r])
        BY <1>2 DEF Apart
      <4> QED
        BY <1>2, <4>1 DEF Clash, Kind
    <3>3. op[r].token = Absent
      BY <3>1, <3>2 DEF ProgramCounters, Carries, Kind, RemovingKinds
    <3>4. Alive \ {op[r].token} = {}
      BY <1>2, <3>1 DEF RemovalCovers, Covered
    <3> QED
      BY <1>4, <3>3, <3>4 DEF Alive
  <2> QED
    BY <1>1, <2>1, <2>2 DEF Effect
<1> QED
  BY <1>2, <1>3, <1>4, <1>5 DEF Covered

(* The removal of request r itself goes on. *)
LEMMA OwnRemoval ==
  ASSUME TypeOK, ProgramCounters, RemovalCovers, NEW r \in Requests, Step(r),
         ~tainted', r \in InProgress', Kind(r)' \in RemovingKinds
  PROVE  Covered(r)'
<1>1. Frame(r) /\ Effect(r)
  BY StepFrame, StepEffect
<1>2. /\ ~tainted /\ r \in InProgress /\ op'[r] = op[r] /\ before'[r] = before[r]
      /\ Kind(r) \in RemovingKinds
  BY <1>1 DEF Frame, InProgress, Kind
<1>3. Covered(r)
  BY <1>2 DEF RemovalCovers
<1> USE DEF Covered, Goto, Finish, TypeOK
<1>4. CASE UpdateEmailStatus(r)
  BY <1>1, <1>2, <1>3, <1>4 DEF UpdateEmailStatus, cache, local, Alive, InProgress
<1>5. CASE GetUserRole(r)
  BY <1>1, <1>2, <1>3, <1>5 DEF GetUserRole, cache, local, Alive, InProgress
<1>6. CASE GetUserStatus(r)
  BY <1>1, <1>2, <1>3, <1>6 DEF GetUserStatus, cache, local, Alive, InProgress
<1>7. CASE GetMapping(r)
  BY <1>1, <1>2, <1>3, <1>7 DEF GetMapping, cache, local, Alive, InProgress
<1>8. CASE SetVisit(r)
  BY <1>1, <1>2, <1>3, <1>8 DEF SetVisit, cache, local, Alive, InProgress
<1>9. CASE SetAdmin(r)
  BY <1>1, <1>2, <1>3, <1>9 DEF SetAdmin, cache, local, Alive, InProgress
<1>10. CASE UpdateRow(r)
  BY <1>1, <1>2, <1>3, <1>10 DEF UpdateRow, cache, local, Alive, InProgress
<1>11. CASE SetUserStatus(r)
  BY <1>1, <1>2, <1>3, <1>11 DEF SetUserStatus, cache, local, Alive, InProgress
<1>12. CASE Save(r)
  BY <1>1, <1>2, <1>3, <1>12 DEF Save, cache, local, Alive, InProgress
<1>13. CASE LogoutAdmin(r)
  BY <1>1, <1>2, <1>3, <1>13 DEF LogoutAdmin, cache, local, Alive, InProgress
<1>14. CASE LogoutVisit(r)
  BY <1>1, <1>2, <1>3, <1>14 DEF LogoutVisit, cache, local, Alive, InProgress
<1>15. CASE SetToken(r)
  <2>1. Access(r) = op[r].token
    BY <1>2, <1>15, KindAt DEF SetToken, Access, RemovingKinds, LoginKinds
  <2>2. Alive' \subseteq Alive \cup {op[r].token}
    BY <1>15, <2>1 DEF SetToken, Alive
  <2> QED
    BY <1>2, <1>3, <1>15, <2>2 DEF SetToken, local
<1>16. CASE SetMapping(r)
  BY <1>1, <1>2, <1>3, <1>16 DEF SetMapping, Alive
<1>17. CASE ReadMapping(r)
  BY <1>1, <1>2, <1>3, <1>17 DEF ReadMapping, cache, Alive
<1>18. CASE RemoveStatus(r)
  BY <1>1, <1>2, <1>3, <1>18 DEF RemoveStatus, local, Alive
<1>19. CASE RemoveMapping(r)
  BY <1>19 DEF RemoveMapping, InProgress
<1>20. ASSUME NEW t \in known[r], RemoveToken(r, t)
      PROVE  Covered(r)'
  BY <1>1, <1>2, <1>3, <1>20 DEF RemoveToken, Alive
<1> QED
  BY <1>4, <1>5, <1>6, <1>7, <1>8, <1>9, <1>10, <1>11, <1>12, <1>13, <1>14, <1>15, <1>16, <1>17, <1>18, <1>19, <1>20 DEF Step

(* Both together: every step keeps what removals have covered. *)
LEMMA StepRemoval ==
  ASSUME TypeOK, ProgramCounters, Apart, RemovalCovers, NEW r \in Requests, Step(r)
  PROVE  RemovalCovers'
BY OtherRemoval, OwnRemoval DEF RemovalCovers

(* What was ended stays ended, and what is being ended is gone. *)
LEMMA StepEnded ==
  ASSUME TypeOK, ProgramCounters, TokensMade, RemovalCovers, Served, SessionsEnd,
         NEW r \in Requests, Step(r)
  PROVE  SessionsEnd'
<1>1. Frame(r) /\ Effect(r)
  BY StepFrame, StepEffect
<1>2. SUFFICES ASSUME ~tainted'
               PROVE  ended' \cap Alive' = {}
  BY DEF SessionsEnd
<1>3. ~tainted /\ r \in InProgress /\ ended \cap Alive = {}
  BY <1>1, <1>2 DEF Frame, InProgress, SessionsEnd
<1>4. CASE ended' = ended /\ Alive' \subseteq Alive
  BY <1>3, <1>4
<1>5. CASE pc[r] = "rm_map" /\ ended' = ended \cup before[r] /\ UNCHANGED token
  <2>1. Kind(r) \in RemovingKinds
    BY <1>5, KindAt
  <2>2. before[r] \cap Alive = {}
    <3>1. op[r].token \notin before[r] /\ Alive \ {op[r].token} = {}
      BY <1>3, <1>5, <2>1 DEF RemovalCovers, Covered
    <3> QED
      BY <3>1
  <2> QED
    BY <1>3, <1>5, <2>2 DEF Alive
<1>6. CASE pc[r] = "del_visit" /\ ended' = ended \cup {op[r].token} /\ UNCHANGED token
  <2>1. op[r].token \notin Alive
    BY <1>3, <1>6, KindAt DEF Served
  <2> QED
    BY <1>3, <1>6, <2>1 DEF Alive
<1>7. CASE pc[r] = "set_token" /\ Alive' \subseteq Alive \cup {Access(r)} /\ ended' = ended
  <2>1. Kind(r) \in LoginKinds \cup {"auth", "change"}
    BY <1>7, KindAt
  <2>2. Access(r) \notin ended
    BY <1>3, <1>7, <2>1 DEF Access, TokensMade, Writing, Served
  <2> QED
    BY <1>3, <1>7, <2>2
<1> QED
  BY <1>1, <1>4, <1>5, <1>6, <1>7 DEF Effect

-----------------------------------------------------------------------------
(* What the arrival of request r does, whatever it asks for. *)
Arrival(r) ==
  /\ \A q \in Requests \ {r} : pc'[q] = pc[q] /\ op'[q] = op[q] /\ before'[q] = before[q]
  /\ pc[r] = "new"
  /\ pc'[r] \notin {"new", "done"}
  /\ OnRoute(op'[r].kind, pc'[r])
  /\ Carries(op'[r])
  /\ op'[r].token \in Alive \cup {Absent}
  /\ op'[r].kind = "logout" => op'[r].token \notin Alive'
  /\ op'[r].kind \in RemovingKinds => /\ pc'[r] \in {"save", "get_status"}
                                     /\ before'[r] \subseteq Alive \ {op'[r].token}
  /\ before'[r] \subseteq Alive \cup before[r]
  /\ ~Recording(r)'
  /\ tainted' = (tainted \/ \E q \in InProgress : Clash(op'[r], op[q]) \/ Clash(op[q], op'[r]))
  /\ Alive' \subseteq Alive
  /\ UNCHANGED <<mapping, ended, known>>

(* Every arrival is of that form. *)
LEMMA BeginArrival ==
  ASSUME TypeOK, NEW r \in Requests, Begin(r)
  PROVE  Arrival(r)
<1> USE DEF Goto, TypeOK, OnRoute, Carries, Recording, cache, Arrive, Arrival,
            LoginKinds, StatusKinds, RemovingKinds
<1>1. Alive \subseteq Requests /\ (token' = token => Alive' = Alive)
  BY DEF Alive
<1>2. ASSUME NEW k \in Kinds, BeginLogin(r, k)
      PROVE  Arrival(r)
  BY <1>1, <1>2 DEF BeginLogin
<1>3. ASSUME NEW k \in Kinds, BeginStatus(r, k)
      PROVE  Arrival(r)
  BY <1>1, <1>3 DEF BeginStatus
<1>4. ASSUME NEW k \in Kinds, NEW role \in Roles, BeginRemoval(r, k, role)
      PROVE  Arrival(r)
  BY <1>1, <1>4 DEF BeginRemoval
<1>5. ASSUME NEW k \in Kinds, NEW t \in Alive, BeginAuthorised(r, k, t)
      PROVE  Arrival(r)
  BY <1>1, <1>5 DEF BeginAuthorised
<1>6. ASSUME NEW t \in Alive, BeginLogout(r, t)
      PROVE  Arrival(r)
  <2>1. Alive' = Alive \ {t}
    BY <1>6 DEF BeginLogout, Alive
  <2> QED
    BY <1>1, <1>6, <2>1 DEF BeginLogout
<1> QED
  BY <1>2, <1>3, <1>4, <1>5, <1>6 DEF Begin

(* The arrival of a request keeps every part of the invariant. *)
LEMMA BeginInv ==
  ASSUME Inv, NEW r \in Requests, Begin(r)
  PROVE  Inv'
<1>1. TypeOK'
  BY BeginType DEF Inv
<1>2. Arrival(r)
  BY BeginArrival DEF Inv
<1>3. InProgress' = InProgress \cup {r} /\ r \notin InProgress
  BY <1>2 DEF Arrival, InProgress
<1>4. \A q \in InProgress : q \in Requests /\ q # r /\ pc'[q] = pc[q] /\ op'[q] = op[q] /\ before'[q] = before[q]
  BY <1>2, <1>3 DEF Arrival, InProgress
<1>5. ~tainted' => ~tainted /\ \A q \in InProgress : ~Clash(op'[r], op[q]) /\ ~Clash(op[q], op'[r])
  BY <1>2 DEF Arrival
<1>6. ProgramCounters'
  BY <1>2 DEF Arrival, ProgramCounters, Inv, OnRoute, Carries, Kind
<1>7. Apart'
  <2>1. SUFFICES ASSUME ~tainted', NEW p \in InProgress', NEW q \in InProgress', p # q
                 PROVE  ~Clash(op'[p], op'[q])
    BY DEF Apart, Clash
  <2>2. CASE p = r
    BY <1>3, <1>4, <1>5, <2>1, <2>2
  <2>3. CASE q = r
    BY <1>3, <1>4, <1>5, <2>1, <2>3
  <2>4. CASE p # r /\ q # r
    BY <1>3, <1>4, <1>5, <2>1, <2>4 DEF Inv, Apart
  <2> QED
    BY <2>2, <2>3, <2>4
<1>8. TokensMade'
  <2>1. SUFFICES ASSUME NEW n \in Requests,
                        pc'[n] = "new" \/ (Kind(n)' \in LoginKinds /\ Writing(n)')
                 PROVE  /\ n \notin Alive' \cup ended'
                        /\ \A q \in Requests : n \notin before'[q] /\ n # op'[q].token
    BY DEF TokensMade
  <2>2. pc[n] = "new" \/ (Kind(n) \in LoginKinds /\ Writing(n))
    BY <1>2, <2>1 DEF Arrival, Kind, Writing
  <2>3. /\ n \notin Alive \cup ended
        /\ \A q \in Requests : n \notin before[q] /\ n # op[q].token
    BY <2>2 DEF Inv, TokensMade
  <2> QED
    BY <1>2, <2>3 DEF Arrival
<1>9. MappingCovers'
  <2>1. SUFFICES ASSUME ~tainted', NEW t \in Alive'
                 PROVE  t \in mapping' \/ \E q \in InProgress' : Recording(q)' /\ Access(q)' = t
    BY DEF MappingCovers
  <2>2. t \in mapping \/ \E q \in InProgress : Recording(q) /\ Access(q) = t
    BY <1>2, <1>5, <2>1 DEF Arrival, Inv, MappingCovers
  <2>3. \A q \in InProgress : Recording(q) => Recording(q)' /\ Access(q)' = Access(q)
    BY <1>4 DEF Recording, Access, Kind
  <2> QED
    BY <1>2, <1>3, <2>2, <2>3 DEF Arrival
<1>10. RemovalCovers'
  <2>1. SUFFICES ASSUME ~tainted', NEW q \in InProgress', Kind(q)' \in RemovingKinds
                 PROVE  Covered(q)'
    BY DEF RemovalCovers
  <2>2. CASE q # r
    <3>1. Covered(q)
      BY <1>3, <1>4, <1>5, <2>1, <2>2 DEF Inv, RemovalCovers, Kind
    <3> QED
      BY <1>2, <1>3, <1>4, <2>2, <3>1 DEF Covered, Arrival
  <2>3. CASE q = r
    <3>1. op'[r].kind \in RemovingKinds
      BY <2>1, <2>3 DEF Kind
    <3>2. Alive \subseteq mapping
      <4>1. SUFFICES ASSUME NEW p \in InProgress, Recording(p)
                     PROVE  FALSE
        BY <1>5, <2>1 DEF Inv, MappingCovers
      <4>2. Kind(p) \in LoginKinds \cup {"auth", "change"}
        BY <1>4, <4>1, KindAt DEF Inv, Recording
      <4>3. Clash(op'[r], op[p])
        BY <3>1, <4>2 DEF Clash, Kind
      <4> QED
        BY <1>5, <2>1, <4>3
    <3> QED
      BY <1>2, <2>3, <3>1, <3>2 DEF Arrival, Covered
  <2> QED
    BY <2>2, <2>3
<1>11. Served'
  <2>1. SUFFICES ASSUME ~tainted', NEW q \in InProgress'
                 PROVE  /\ Kind(q)' \in {"auth", "change"} => op'[q].token \notin ended'
                        /\ Kind(q)' = "logout" => op'[q].token \notin Alive'
    BY DEF Served
  <2>2. CASE q # r
    BY <1>2, <1>3, <1>4, <1>5, <2>1, <2>2 DEF Inv, Served, Arrival, Kind
  <2>3. CASE q = r
    <3>1. ended \cap Alive = {}
      BY <1>5, <2>1 DEF Inv, SessionsEnd
    <3>2. Kind(q)' \in {"auth", "change"} => op'[q].token \in Alive
      BY <1>2, <2>3 DEF Arrival, Kind, Carries
    <3> QED
      BY <1>2, <2>3, <3>1, <3>2 DEF Arrival, Kind
  <2> QED
    BY <2>2, <2>3
<1>12. SessionsEnd'
  BY <1>2, <1>5 DEF Inv, SessionsEnd, Arrival
<1> QED
  BY <1>1, <1>6, <1>7, <1>8, <1>9, <1>10, <1>11, <1>12 DEF Inv

(* Before the first request there are no sessions. *)
LEMMA InitInv == Init => Inv
<1> SUFFICES ASSUME Init
             PROVE  Inv
  OBVIOUS
<1>1. Alive = {} /\ InProgress = {}
  BY DEF Init, Alive, InProgress
<1>2. TypeOK
  <2>1. user \in Infos /\ bound \in BOOLEAN
    BY DEF Init, Infos, Codes, UserStatusAvailable, EmailStatusAvailable, EmailStatusToBeVerified
  <2>2. info \in [Requests -> Infos]
    BY DEF Init, Zero, Infos, Codes, Roles
  <2>3. op \in [Requests -> [kind : Kinds \cup {"none"}, token : Requests \cup {Absent}, role : Roles]]
    BY DEF Init, Roles
  <2> QED
    BY <2>1, <2>2, <2>3 DEF Init, TypeOK, PCs
<1>3. ProgramCounters
  BY DEF Init, ProgramCounters, OnRoute, Carries, Kind, LoginKinds, StatusKinds
<1>4. TokensMade
  BY <1>1 DEF Init, TokensMade
<1> QED
  BY <1>1, <1>2, <1>3, <1>4 DEF Inv, Apart, MappingCovers, RemovalCovers, Served, SessionsEnd

(* Every step keeps the invariant. *)
LEMMA InvStep == Inv /\ [Next]_vars => Inv'
<1> SUFFICES ASSUME Inv, [Next]_vars
             PROVE  Inv'
  OBVIOUS
<1>1. ASSUME NEW r \in Requests, Begin(r)
      PROVE  Inv'
  BY <1>1, BeginInv
<1>2. ASSUME NEW r \in Requests, Step(r)
      PROVE  Inv'
  BY <1>2, StepType, StepControl, StepApart, StepMade, StepMapping, StepRemoval, StepServed,
     StepEnded DEF Inv
<1>3. CASE UNCHANGED vars
  BY <1>3 DEF vars, cache, local, Inv, TypeOK, ProgramCounters, Apart, TokensMade, MappingCovers,
     RemovalCovers, Covered, Served, SessionsEnd, Alive, InProgress, Recording, Writing, Access,
     Kind
<1> QED
  BY <1>1, <1>2, <1>3 DEF Next, AllAnswered

(* The conjunction of all parts is an invariant: types, what the mapping
   covers, and which requests have met. *)
THEOREM InvHolds == Spec => []Inv
<1>1. Init => Inv
  BY InitInv
<1>2. Inv /\ [Next]_vars => Inv'
  BY InvStep
<1> QED
  BY <1>1, <1>2, PTL DEF Spec

(* A token that a logout, a change of the password or a change of the role has
   ended is never accepted again, unless requests met that the code does not
   keep apart. *)
THEOREM EndedForGood == Spec => []SessionsEnd
<1>1. Inv => SessionsEnd
  BY DEF Inv
<1> QED
  BY <1>1, InvHolds, PTL

-----------------------------------------------------------------------------
(* What the sessions have to do with the account: the inductive invariant
   behind SessionsFollowAccount. *)

(* What an entry says agrees with a row: it admits no user who is suspended or
   deleted, it admits every one who is available and verified, and it gives no
   role that the row does not. *)
Agrees(i, row) ==
  /\ Available(i) => row.status = UserStatusAvailable
  /\ row.status = UserStatusAvailable /\ row.mail = EmailStatusAvailable => Available(i)
  /\ i.role \in {row.role, "none"}

SameStanding(i, row) == i.status = row.status /\ i.mail = row.mail

Standings == [status : {UserStatusAvailable, UserStatusSuspended, UserStatusDeleted},
              mail : {EmailStatusAvailable, EmailStatusToBeVerified},
              role : Roles \cup {"none"}]

UserKnown == user \in Standings /\ user.role \in Roles

(* Accounts are changed by one request at a time. *)
OneChanger ==
  \A r, q \in InProgress : Kind(r) \in AccountKinds /\ Kind(q) \in AccountKinds => r = q

(* What a request that changes the account has read or will write is the row
   that the account has, or is about to have. *)
ChangerKnows(r) ==
  /\ Kind(r) \in StatusKinds =>
       /\ info[r] \in Standings /\ info[r].role = "none"
       /\ pc[r] = "set_status" => SameStanding(info[r], user)
  /\ Kind(r) \in {"verify", "newmail"} =>
       /\ pc[r] \in {"mail", "role"} => SameStanding(info[r], user)
       /\ pc[r] = "role" => user.mail = EmailStatusAvailable
       /\ pc[r] \notin {"mail", "role"} => Agrees(info[r], user)

(* Who writes the address or the status entry. *)
Detour(r) == pc[r] \in {"mail", "set_status"} => Kind(r) \notin {"login", "wecom"}

(* Some requests go on after they have dealt with the status entry. *)
EntryWritten(r) ==
  /\ Kind(r) = "newmail" /\ pc[r] = "set_admin" => changed # Absent /\ Agrees(changed, user)
  /\ Kind(r) = "role" /\ pc[r] = "rm_map" => changed = Absent

(* Unless somebody is changing the account, the status entry agrees with it. *)
EntryAgrees == AccountSettled /\ changed # Absent => Agrees(changed, user)

(* Without a status entry every session agrees with the account, and so does
   what any request is about to write as one. *)
Pending(r) ==
  /\ pc[r] = "role" => SameStanding(info[r], user)
  /\ pc[r] = "set_token" => Agrees(info[r], user)

CopiesAgree ==
  AccountSettled /\ changed = Absent =>
    /\ \A t \in Alive : Agrees(token[t], user)
    /\ \A r \in InProgress : Pending(r)

(* The session that remains when the user has changed the password agrees even
   once the status entry is gone. *)
Remaining(r) ==
  Kind(r) = "change" =>
    /\ pc[r] = "set_token" => Agrees(info[r], user)
    /\ pc[r] \notin {"get_status", "set_token"} /\ op[r].token \in Alive =>
         Agrees(token[op[r].token], user)

Account ==
  /\ UserKnown
  /\ OneChanger
  /\ \A r \in InProgress : Detour(r) /\ ChangerKnows(r)
  /\ ~tainted => /\ \A r \in InProgress : EntryWritten(r) /\ Remaining(r)
                 /\ EntryAgrees
                 /\ CopiesAgree

(* An entry that agrees still does when its status and mail are exchanged, as
   long as it was read from the row. *)
LEMMA RowAgrees ==
  ASSUME UserKnown, NEW i \in Infos, SameStanding(i, user), i.role \in {user.role, "none"}
  PROVE  /\ Agrees(i, user)
         /\ Agrees(Exchanged(i), user)
BY DEF UserKnown, SameStanding, Agrees, Exchanged, Available, Standings, Infos, UserStatusAvailable,
   UserStatusSuspended, UserStatusDeleted, EmailStatusAvailable, EmailStatusToBeVerified

(* A step of one request and the others. *)
Alone(r) ==
  /\ r \in InProgress
  /\ Kind(r) \in KindSet
  /\ \A q \in InProgress' : q \in InProgress /\ op'[q] = op[q] /\ Kind(q)' = Kind(q)
  /\ \A q \in InProgress' : q # r => pc'[q] = pc[q] /\ info'[q] = info[q]
  /\ r \notin InProgress' => pc'[r] = "done"
  /\ \A q \in InProgress : q # r => q \in InProgress'
  /\ tainted => tainted'

LEMMA StepInfo ==
  ASSUME TypeOK, NEW r \in Requests, Step(r), NEW q \in Requests, q # r
  PROVE  info'[q] = info[q]
<1> USE DEF TypeOK
<1>1. ASSUME NEW from, Finish(r, from) PROVE info'[q] = info[q]
  BY <1>1 DEF Finish, Forget
<1>2. CASE UpdateEmailStatus(r) \/ GetUserRole(r) \/ GetUserStatus(r)
  BY <1>1, <1>2 DEF UpdateEmailStatus, GetUserRole, GetUserStatus, local
<1>3. CASE SetToken(r) \/ GetMapping(r) \/ SetMapping(r) \/ SetVisit(r) \/ SetAdmin(r)
  BY <1>1, <1>3 DEF SetToken, GetMapping, SetMapping, SetVisit, SetAdmin, local
<1>4. CASE UpdateRow(r) \/ SetUserStatus(r) \/ Save(r) \/ ReadMapping(r)
  BY <1>1, <1>4 DEF UpdateRow, SetUserStatus, Save, ReadMapping, local
<1>5. CASE RemoveStatus(r) \/ RemoveMapping(r) \/ LogoutAdmin(r) \/ LogoutVisit(r)
  BY <1>1, <1>5 DEF RemoveStatus, RemoveMapping, LogoutAdmin, LogoutVisit, local
<1>6. CASE \E t \in known[r] : RemoveToken(r, t)
  BY <1>6 DEF RemoveToken
<1> QED
  BY <1>2, <1>3, <1>4, <1>5, <1>6 DEF Step

LEMMA StepAlone ==
  ASSUME Inv, NEW r \in Requests, Step(r)
  PROVE  Alone(r)
<1>1. TypeOK /\ ProgramCounters /\ Frame(r)
  BY StepFrame DEF Inv
<1>2. Kind(r) \in KindSet
  BY <1>1 DEF TypeOK, Kind, KindSet, ProgramCounters, OnRoute, Frame
<1>3. \A q \in Requests : q # r => info'[q] = info[q]
  BY <1>1, StepInfo
<1> QED
  BY <1>1, <1>2, <1>3 DEF Alone, Frame, InProgress, Kind

(* Nobody but a request that logs out meets one that changes the password of
   the session it serves. *)
LEMMA ChangeAlone ==
  ASSUME Inv, ~tainted, NEW q \in InProgress, Kind(q) = "change", NEW r \in InProgress, r # q
  PROVE  Kind(r) = "logout" /\ op[r].token # op[q].token
<1>1. ~Clash(op[r], op[q]) /\ ~Clash(op[q], op[r])
  BY DEF Inv, Apart
<1>2. Kind(r) \in KindSet
  BY DEF Inv, TypeOK, Kind, KindSet, ProgramCounters, OnRoute, InProgress
<1> QED
  BY <1>1, <1>2 DEF Clash, Kind, KindSet, LoginKinds, StatusKinds, RemovingKinds, TokenKinds

(* A request that ends sessions meets none that writes one. *)
LEMMA RemovalAlone ==
  ASSUME Inv, ~tainted, NEW q \in InProgress, Kind(q) \in RemovingKinds, NEW r \in InProgress, r # q
  PROVE  Kind(r) \notin LoginKinds \cup {"auth", "change"}
<1>1. ~Clash(op[q], op[r])
  BY DEF Inv, Apart
<1> QED
  BY <1>1 DEF Clash, Kind

(* No other request changes the account while one does. *)
LEMMA ChangerAlone ==
  ASSUME Account, NEW r \in InProgress, Kind(r) \in AccountKinds
  PROVE  ~AccountSettled /\ \A q \in InProgress : q # r => Kind(q) \notin AccountKinds
BY DEF Account, OneChanger, AccountSettled

LEMMA OneChangerStep ==
  ASSUME Account, NEW r \in Requests, Alone(r)
  PROVE  /\ OneChanger'
         /\ AccountSettled' /\ ~AccountSettled => Kind(r) \in AccountKinds /\ pc'[r] = "done"
         /\ Kind(r) \in AccountKinds /\ pc'[r] # "done" => ~AccountSettled'
BY DEF Account, OneChanger, AccountSettled, Alone

(* A step that neither writes an entry or the account nor leads to a place where
   something is said of what the request knows. *)
LEMMA QuietStep ==
  ASSUME Inv, Inv', Account, NEW r \in Requests, Alone(r),
         UNCHANGED <<user, changed>>,
         \A t \in Alive' : t \in Alive /\ token'[t] = token[t],
         pc'[r] # "done" => info'[r] = info[r],
         pc[r] \notin {"mail", "role", "get_status", "set_token", "update"},
         pc'[r] \notin {"mail", "role", "get_status", "set_token", "update", "rm_map"},
         pc'[r] = "set_status" => Kind(r) \in {"verify", "newmail"},
         pc'[r] = "set_admin" => Kind(r) # "newmail",
         Kind(r) \in AccountKinds => pc'[r] # "done"
  PROVE  Account'
<1>1. OneChanger' /\ (AccountSettled' => AccountSettled)
  BY OneChangerStep
<1>2. UserKnown'
  BY DEF Account, UserKnown
<1>3. r \in InProgress' => pc'[r] # "done"
  BY DEF InProgress
<1>4. ASSUME NEW q \in InProgress' PROVE Detour(q)' /\ ChangerKnows(q)'
  <2>1. q \in InProgress /\ Kind(q)' = Kind(q) /\ Detour(q) /\ ChangerKnows(q)
    BY DEF Account, Alone
  <2>2. CASE q # r
    <3>1. pc'[q] = pc[q] /\ info'[q] = info[q]
      BY <2>2 DEF Alone
    <3> QED
      BY <2>1, <3>1 DEF Detour, ChangerKnows
  <2>3. CASE q = r
    <3>1. info'[q] = info[q]
      BY <1>3, <2>3
    <3> QED
      BY <2>1, <2>3, <3>1 DEF Detour, ChangerKnows, StatusKinds
  <2> QED
    BY <2>2, <2>3
<1>5. ASSUME ~tainted', NEW q \in InProgress' PROVE EntryWritten(q)' /\ Remaining(q)'
  BY <1>3, <1>5 DEF Account, EntryWritten, Remaining, Alone
<1>6. ASSUME ~tainted' PROVE EntryAgrees' /\ CopiesAgree'
  BY <1>1, <1>3, <1>6 DEF Account, EntryAgrees, CopiesAgree, Pending, Alone
<1> QED
  BY <1>1, <1>2, <1>4, <1>5, <1>6 DEF Account

(* Where requests of which kind are. *)
LEMMA Routes ==
  ASSUME Inv, Account, NEW r \in InProgress
  PROVE  /\ pc[r] = "mail" => Kind(r) \in {"verify", "newmail"}
         /\ pc[r] \in {"role", "set_admin"} => Kind(r) \in LoginKinds
         /\ pc[r] \in {"set_token", "get_map", "set_map", "set_visit"} => Kind(r) \in LoginKinds \cup {"auth", "change"}
         /\ pc[r] = "get_status" => Kind(r) \in {"auth", "change"}
         /\ pc[r] = "update" => Kind(r) \in StatusKinds
         /\ pc[r] = "set_status" => Kind(r) \in StatusKinds \cup {"verify", "newmail"}
         /\ pc[r] \in {"save", "rm_read", "rm_token", "rm_status", "rm_map"} => Kind(r) \in RemovingKinds
         /\ pc[r] \in {"del_admin", "del_visit"} => Kind(r) = "logout"
<1>1. Kind(r) \in KindSet \cup {"none"} /\ OnRoute(Kind(r), pc[r])
  BY DEF Inv, TypeOK, Kind, KindSet, ProgramCounters, InProgress
<1>2. Detour(r)
  BY DEF Account
<1> QED
  BY <1>1, <1>2 DEF OnRoute, Detour, KindSet, LoginKinds, StatusKinds, RemovingKinds, TokenKinds

LEMMA GetMappingAccount ==
  ASSUME Inv, Inv', Account, NEW r \in Requests, Alone(r), GetMapping(r)
  PROVE  Account'
BY QuietStep DEF GetMapping, Goto, cache, Inv, TypeOK, Alive

LEMMA SetMappingAccount ==
  ASSUME Inv, Inv', Account, NEW r \in Requests, Alone(r), SetMapping(r)
  PROVE  Account'
BY QuietStep DEF SetMapping, Goto, cache, Inv, TypeOK, Alive

LEMMA SetVisitAccount ==
  ASSUME Inv, Inv', Account, NEW r \in Requests, Alone(r), SetVisit(r)
  PROVE  Account'
<1>1. pc[r] = "set_visit" /\ UNCHANGED <<user, changed, token>>
  BY DEF SetVisit, Finish, Goto
<1>2. Kind(r) \in LoginKinds \cup {"auth", "change"}
  BY <1>1, Routes DEF Alone
<1>3. CASE Finish(r, "set_visit")
  <2>1. pc'[r] = "done" /\ Kind(r) \notin AccountKinds
    <3>1. Kind(r) \in {"auth", "change"}
      BY <1>3 DEF SetVisit, Finish, Goto, Inv, TypeOK
    <3> QED
      BY <1>3, <3>1 DEF Finish, Goto, Inv, TypeOK, AccountKinds, StatusKinds
  <2> QED
    BY <1>1, <2>1, QuietStep DEF Alive
<1>4. CASE ~Finish(r, "set_visit")
  <2>1. /\ info' = info
        /\ pc'[r] = CASE Kind(r) = "change" -> "save"
                      [] Kind(r) = "newmail" -> "set_status"
                      [] OTHER -> "set_admin"
    BY <1>4 DEF SetVisit, Goto, local, Inv, TypeOK
  <2>2. pc'[r] \in {"save", "set_status", "set_admin"}
    BY <2>1
  <2>3. /\ pc'[r] = "set_status" => Kind(r) = "newmail"
        /\ pc'[r] = "set_admin" => Kind(r) # "newmail"
    BY <2>1
  <2> QED
    BY <1>1, <2>1, <2>2, <2>3, QuietStep DEF Alive
<1> QED
  BY <1>3, <1>4

LEMMA SetAdminAccount ==
  ASSUME Inv, Inv', Account, NEW r \in Requests, Alone(r), SetAdmin(r)
  PROVE  Account'
<1>1. pc[r] = "set_admin" /\ UNCHANGED <<user, changed, token>> /\ Kind(r) \in LoginKinds
  <2>1. pc[r] = "set_admin" /\ UNCHANGED <<user, changed, token>>
    BY DEF SetAdmin, Finish, Goto
  <2> QED
    BY <2>1, Routes DEF Alone
<1>2. CASE Kind(r) = "verify"
  <2>1. info' = info /\ pc'[r] = "set_status"
    BY <1>2 DEF SetAdmin, Goto, local, Inv, TypeOK
  <2> QED
    BY <1>1, <1>2, <2>1, QuietStep DEF Alive
<1>3. CASE Kind(r) \in {"login", "wecom"}
  <2>1. pc'[r] = "done" /\ Kind(r) \notin AccountKinds
    BY <1>3 DEF SetAdmin, Finish, Goto, Inv, TypeOK, AccountKinds, StatusKinds
  <2> QED
    BY <1>1, <2>1, QuietStep DEF Alive
<1>4. CASE Kind(r) = "newmail"
  <2>1. pc'[r] = "done"
    BY <1>4 DEF SetAdmin, Finish, Goto, Inv, TypeOK
  <2>2. OneChanger' /\ UserKnown' /\ r \notin InProgress'
    BY <1>1, <2>1, OneChangerStep DEF Account, UserKnown, InProgress
  <2>3. \A q \in InProgress' : Detour(q)' /\ ChangerKnows(q)'
    BY <1>1, <2>2 DEF Account, Detour, ChangerKnows, Alone
  <2>4. ASSUME ~tainted', NEW q \in InProgress' PROVE EntryWritten(q)' /\ Remaining(q)'
    BY <1>1, <2>2, <2>4 DEF Account, EntryWritten, Remaining, Alone, Alive
  <2>5. ASSUME ~tainted' PROVE changed # Absent /\ Agrees(changed, user)
    BY <1>1, <1>4, <2>5 DEF Account, EntryWritten, Alone
  <2>6. ~tainted' => EntryAgrees' /\ CopiesAgree'
    BY <1>1, <2>5 DEF EntryAgrees, CopiesAgree
  <2> QED
    BY <2>2, <2>3, <2>4, <2>6 DEF Account
<1> QED
  BY <1>1, <1>2, <1>3, <1>4 DEF LoginKinds

LEMMA ReadMappingAccount ==
  ASSUME Inv, Inv', Account, NEW r \in Requests, Alone(r), ReadMapping(r)
  PROVE  Account'
BY QuietStep DEF ReadMapping, Goto, cache, Inv, TypeOK, Alive

LEMMA RemoveTokenAccount ==
  ASSUME Inv, Inv', Account, NEW r \in Requests, Alone(r), NEW t \in known[r], RemoveToken(r, t)
  PROVE  Account'
<1>1. \A x \in Alive' : x \in Alive /\ token'[x] = token[x]
  BY DEF RemoveToken, Alive, Inv, TypeOK
<1> QED
  BY <1>1, QuietStep DEF RemoveToken, Goto, Inv, TypeOK

LEMMA LogoutAdminAccount ==
  ASSUME Inv, Inv', Account, NEW r \in Requests, Alone(r), LogoutAdmin(r)
  PROVE  Account'
BY QuietStep DEF LogoutAdmin, Goto, local, Inv, TypeOK, Alive

LEMMA LogoutVisitAccount ==
  ASSUME Inv, Inv', Account, NEW r \in Requests, Alone(r), LogoutVisit(r)
  PROVE  Account'
<1>1. pc[r] = "del_visit" /\ pc'[r] = "done" /\ UNCHANGED <<user, changed, token>>
  BY DEF LogoutVisit, Finish, Goto, Inv, TypeOK
<1>2. Kind(r) \notin AccountKinds
  BY <1>1, Routes DEF Alone, AccountKinds, StatusKinds
<1> QED
  BY <1>1, <1>2, QuietStep DEF Alive

(* What a step of another request leaves of what a request knows. *)
LEMMA OthersKnow ==
  ASSUME Account, NEW r \in Requests, Alone(r), NEW q \in InProgress', q # r,
         user' = user \/ Kind(r) \in AccountKinds
  PROVE  Detour(q)' /\ ChangerKnows(q)'
<1>1. /\ q \in InProgress /\ Kind(q)' = Kind(q) /\ pc'[q] = pc[q] /\ info'[q] = info[q]
      /\ Detour(q) /\ ChangerKnows(q)
  BY DEF Account, Alone
<1>2. user' = user \/ Kind(q) \notin AccountKinds
  BY <1>1, ChangerAlone DEF Alone
<1> QED
  BY <1>1, <1>2 DEF Detour, ChangerKnows, AccountKinds

LEMMA OthersAgree ==
  ASSUME Inv, Account, NEW r \in Requests, Alone(r), ~tainted', NEW q \in InProgress', q # r,
         Kind(r) # "logout",
         \/ user' = user /\ changed' \in {changed, Absent} /\ (changed' # changed => Kind(r) \in RemovingKinds)
         \/ Kind(r) \in AccountKinds
  PROVE  EntryWritten(q)' /\ Remaining(q)'
<1>1. /\ q \in InProgress /\ Kind(q)' = Kind(q) /\ pc'[q] = pc[q] /\ ~tainted
      /\ EntryWritten(q) /\ r \in InProgress
  BY DEF Account, Alone
<1>2. Kind(q) # "change"
  BY <1>1, ChangeAlone
<1>3. CASE Kind(r) \in AccountKinds
  <2>1. Kind(q) \notin AccountKinds
    BY <1>1, <1>3, ChangerAlone DEF Alone
  <2> QED
    BY <1>1, <1>2, <2>1 DEF EntryWritten, Remaining, AccountKinds
<1>4. CASE UNCHANGED <<user, changed>>
  BY <1>1, <1>2, <1>4 DEF EntryWritten, Remaining
<1>5. CASE user' = user /\ changed' = Absent /\ Kind(r) \in RemovingKinds
  <2>1. Kind(q) # "newmail"
    BY <1>1, <1>5, RemovalAlone DEF LoginKinds
  <2> QED
    BY <1>1, <1>2, <1>5, <2>1 DEF EntryWritten, Remaining
<1> QED
  BY <1>3, <1>4, <1>5

(* What is left to show of a step. *)
LEMMA StepAccount ==
  ASSUME Inv, Account, NEW r \in Requests, Alone(r), Kind(r) # "logout",
         UserKnown',
         \/ user' = user /\ changed' \in {changed, Absent} /\ (changed' # changed => Kind(r) \in RemovingKinds)
         \/ Kind(r) \in AccountKinds,
         r \in InProgress' => Detour(r)' /\ ChangerKnows(r)',
         r \in InProgress' /\ ~tainted' => EntryWritten(r)' /\ Remaining(r)',
         ~tainted' => EntryAgrees' /\ CopiesAgree'
  PROVE  Account'
<1>1. OneChanger'
  BY OneChangerStep
<1>2. ASSUME NEW q \in InProgress' PROVE Detour(q)' /\ ChangerKnows(q)'
  BY <1>2, OthersKnow
<1>3. ASSUME NEW q \in InProgress', ~tainted' PROVE EntryWritten(q)' /\ Remaining(q)'
  BY <1>3, OthersAgree
<1> QED
  BY <1>1, <1>2, <1>3 DEF Account

(* While the account is being changed nothing is said of the entries. *)
LEMMA Unsettled ==
  ASSUME ~AccountSettled'
  PROVE  EntryAgrees' /\ CopiesAgree'
BY DEF EntryAgrees, CopiesAgree

LEMMA UpdateEmailStatusAccount ==
  ASSUME Inv, Account, NEW r \in Requests, Alone(r), UpdateEmailStatus(r)
  PROVE  Account'
<1>1. pc[r] = "mail" /\ pc'[r] = "role" /\ changed' = changed
  BY DEF UpdateEmailStatus, Goto, Inv, TypeOK, cache
<1>2. Kind(r) \in {"verify", "newmail"} /\ Kind(r) \in AccountKinds /\ Kind(r)' = Kind(r)
  BY <1>1, Routes DEF Alone, AccountKinds, UpdateEmailStatus, Kind
<1>3. ~AccountSettled'
  BY <1>1, <1>2, OneChangerStep
<1>4. SameStanding(info[r], user)
  BY <1>1, <1>2 DEF Account, ChangerKnows, Alone
<1>5. /\ info'[r].mail = EmailStatusAvailable /\ info'[r].status = info[r].status
      /\ user'.status = user.status /\ user'.role = user.role
      /\ user'.mail = EmailStatusAvailable
  <2>1. info[r] \in Infos /\ user \in Standings
    BY DEF Inv, TypeOK, Account, UserKnown
  <2>2. info'[r] = [info[r] EXCEPT !.mail = EmailStatusAvailable]
    BY DEF UpdateEmailStatus, Inv, TypeOK
  <2>3. user.mail # EmailStatusToBeVerified => user.mail = EmailStatusAvailable
    BY <2>1 DEF Standings
  <2> QED
    BY <1>4, <2>1, <2>2, <2>3 DEF UpdateEmailStatus, SameStanding, Standings, Infos
<1>6. UserKnown'
  BY <1>5 DEF Account, UserKnown, Standings, UpdateEmailStatus
<1>7. Detour(r)' /\ ChangerKnows(r)'
  BY <1>1, <1>2, <1>4, <1>5 DEF Detour, ChangerKnows, StatusKinds, SameStanding
<1>8. EntryWritten(r)' /\ Remaining(r)'
  BY <1>1, <1>2 DEF EntryWritten, Remaining
<1> QED
  BY <1>1, <1>2, <1>3, <1>6, <1>7, <1>8, StepAccount, Unsettled

LEMMA GetUserRoleAccount ==
  ASSUME Inv, Account, NEW r \in Requests, Alone(r), GetUserRole(r)
  PROVE  Account'
<1>1. pc[r] = "role" /\ pc'[r] = "set_token" /\ UNCHANGED <<user, changed, token>> /\ op' = op
  BY DEF GetUserRole, Goto, Inv, TypeOK, cache
<1>2. Kind(r) \in LoginKinds /\ Kind(r)' = Kind(r)
  BY <1>1, Routes DEF Alone, Kind
<1>3. SameStanding(info[r], user) => Agrees(info'[r], user)
  <2>1. PICK i \in Infos : i = [info[r] EXCEPT !.role = user.role]
    BY DEF Inv, TypeOK, Infos
  <2>2. info'[r] = IF Kind(r) \in {"wecom", "verify"} THEN Exchanged(i) ELSE i
    BY <2>1 DEF GetUserRole, Inv, TypeOK
  <2>3. SameStanding(info[r], user) => SameStanding(i, user) /\ i.role = user.role
    BY <2>1 DEF SameStanding, Inv, TypeOK, Infos
  <2> QED
    BY <2>2, <2>3, RowAgrees DEF Account
<1>4. UserKnown'
  BY <1>1 DEF Account, UserKnown
<1>5. Detour(r)' /\ ChangerKnows(r)'
  <2>1. ChangerKnows(r)
    BY DEF Account, Alone
  <2> QED
    BY <1>1, <1>2, <1>3, <2>1 DEF Detour, ChangerKnows, StatusKinds, LoginKinds
<1>6. EntryWritten(r)' /\ Remaining(r)'
  BY <1>1, <1>2 DEF EntryWritten, Remaining, LoginKinds
<1>7. ASSUME ~tainted' PROVE EntryAgrees' /\ CopiesAgree'
  <2>1. AccountSettled' => AccountSettled
    BY <1>1, OneChangerStep
  <2>2. EntryAgrees /\ CopiesAgree
    BY <1>7 DEF Account, Alone
  <2>3. EntryAgrees'
    BY <1>1, <2>1, <2>2 DEF EntryAgrees
  <2>4. ASSUME AccountSettled', changed' = Absent, NEW q \in InProgress' PROVE Pending(q)'
    <3>1. q \in InProgress /\ Pending(q)
      BY <1>1, <2>1, <2>2, <2>4 DEF CopiesAgree, Alone
    <3>2. CASE q = r
      BY <1>1, <1>3, <3>1, <3>2 DEF Pending
    <3>3. CASE q # r
      BY <1>1, <3>1, <3>3 DEF Pending, Alone
    <3> QED
      BY <3>2, <3>3
  <2> QED
    BY <1>1, <2>1, <2>2, <2>3, <2>4 DEF CopiesAgree, Alive
<1>8. Kind(r) # "logout"
  BY <1>2 DEF LoginKinds
<1> QED
  BY <1>1, <1>4, <1>5, <1>6, <1>7, <1>8, StepAccount

(* A request that carries the password change of a session finds the account
   settled. *)
LEMMA ChangeSettled ==
  ASSUME Inv, ~tainted, NEW r \in InProgress, Kind(r) = "change"
  PROVE  AccountSettled
<1>1. \A q \in InProgress : q # r => Kind(q) = "logout"
  BY ChangeAlone
<1> QED
  BY <1>1 DEF AccountSettled, AccountKinds, StatusKinds

(* Nothing new is pending, and what the sessions say is untouched. *)
LEMMA StillAgree ==
  ASSUME Account, NEW r \in Requests, Alone(r), ~tainted', UNCHANGED <<user, changed>>,
         \A t \in Alive' : t \in Alive /\ token'[t] = token[t],
         Kind(r) \notin AccountKinds \/ pc'[r] # "done",
         r \in InProgress' /\ changed = Absent => Pending(r)'
  PROVE  EntryAgrees' /\ CopiesAgree'
<1>1. AccountSettled' => AccountSettled
  BY OneChangerStep
<1>2. EntryAgrees /\ CopiesAgree
  BY DEF Account, Alone
<1>3. EntryAgrees'
  BY <1>1, <1>2 DEF EntryAgrees
<1>4. ASSUME AccountSettled', changed' = Absent, NEW q \in InProgress' PROVE Pending(q)'
  <2>1. CASE q # r
    <3>1. q \in InProgress /\ Pending(q) /\ pc'[q] = pc[q] /\ info'[q] = info[q]
      BY <1>1, <1>2, <1>4, <2>1 DEF CopiesAgree, Alone
    <3> QED
      BY <3>1 DEF Pending
  <2> QED
    BY <1>4, <2>1
<1> QED
  BY <1>1, <1>2, <1>3, <1>4 DEF CopiesAgree

LEMMA GetUserStatusAccount ==
  ASSUME Inv, Account, NEW r \in Requests, Alone(r), GetUserStatus(r)
  PROVE  Account'
<1>1. pc[r] = "get_status" /\ UNCHANGED <<user, changed, token, tainted>>
  BY DEF GetUserStatus, Finish, Goto, cache
<1>2. Kind(r) \in {"auth", "change"}
  BY <1>1, Routes DEF Alone
<1>3. UserKnown' /\ Alive' = Alive /\ Kind(r) \notin AccountKinds /\ Kind(r) # "logout"
  BY <1>1, <1>2 DEF Account, UserKnown, Alive, AccountKinds, StatusKinds
<1>4. CASE Finish(r, "get_status")
  <2>1. pc'[r] = "done" /\ r \notin InProgress'
    BY <1>4 DEF Finish, Goto, Inv, TypeOK, InProgress
  <2>2. ~tainted' => EntryAgrees' /\ CopiesAgree'
    BY <1>1, <1>3, <2>1, StillAgree
  <2> QED
    BY <1>1, <1>3, <2>1, <2>2, StepAccount
<1>5. CASE /\ changed = Absent /\ Kind(r) = "change"
           /\ Goto(r, "get_status", "save") /\ UNCHANGED local
  <2>1. pc'[r] = "save" /\ Kind(r)' = Kind(r) /\ op' = op
    BY <1>5 DEF Goto, Inv, TypeOK, local, Kind
  <2>2. Detour(r)' /\ ChangerKnows(r)' /\ Pending(r)'
    BY <1>2, <2>1 DEF Detour, ChangerKnows, StatusKinds, Pending
  <2>3. ASSUME ~tainted' PROVE EntryWritten(r)' /\ Remaining(r)'
    <3>1. AccountSettled /\ CopiesAgree
      BY <1>1, <1>5, <2>3, ChangeSettled DEF Account, Alone
    <3>2. \A t \in Alive : Agrees(token[t], user)
      BY <1>5, <3>1 DEF CopiesAgree
    <3> QED
      BY <1>1, <1>3, <1>5, <2>1, <3>2 DEF EntryWritten, Remaining
  <2>4. ~tainted' => EntryAgrees' /\ CopiesAgree'
    BY <1>1, <1>3, <2>1, <2>2, StillAgree
  <2> QED
    BY <1>1, <1>3, <2>2, <2>3, <2>4, StepAccount
<1>6. CASE /\ changed # Absent /\ Goto(r, "get_status", "set_token")
           /\ info' = [info EXCEPT ![r] = changed] /\ UNCHANGED <<op, known, before>>
  <2>1. pc'[r] = "set_token" /\ Kind(r)' = Kind(r) /\ op' = op /\ info'[r] = changed
    BY <1>6 DEF Goto, Inv, TypeOK, Kind
  <2>2. Detour(r)' /\ ChangerKnows(r)'
    BY <1>2, <2>1 DEF Detour, ChangerKnows, StatusKinds
  <2>3. ASSUME ~tainted' PROVE EntryWritten(r)' /\ Remaining(r)'
    <3>1. Kind(r) = "change" => AccountSettled /\ EntryAgrees
      BY <1>1, <2>3, ChangeSettled DEF Account, Alone
    <3>2. Kind(r) = "change" => Agrees(changed, user)
      BY <1>6, <3>1 DEF EntryAgrees
    <3> QED
      BY <1>1, <1>2, <2>1, <3>2 DEF EntryWritten, Remaining
  <2>4. ~tainted' => EntryAgrees' /\ CopiesAgree'
    BY <1>1, <1>3, <1>6, <2>1, StillAgree
  <2> QED
    BY <1>1, <1>3, <2>2, <2>3, <2>4, StepAccount
<1> QED
  BY <1>2, <1>4, <1>5, <1>6 DEF GetUserStatus

LEMMA SetTokenAccount ==
  ASSUME Inv, Account, NEW r \in Requests, Alone(r), SetToken(r)
  PROVE  Account'
<1>1. pc[r] = "set_token" /\ pc'[r] = "get_map" /\ UNCHANGED <<user, changed, op, info, tainted>>
  BY DEF SetToken, Goto, Inv, TypeOK, local
<1>2. Kind(r) \in LoginKinds \cup {"auth", "change"} /\ Kind(r)' = Kind(r)
  BY <1>1, Routes DEF Alone, Kind
<1>3. Access(r) \in Requests /\ token' = [token EXCEPT ![Access(r)] = info[r]]
  BY <1>1, AccessType DEF Inv, SetToken
<1>4. /\ token'[Access(r)] = info[r]
      /\ \A t \in Alive' : t # Access(r) => t \in Alive /\ token'[t] = token[t]
  BY <1>3 DEF Inv, TypeOK, Alive
<1>5. UserKnown'
  BY <1>1 DEF Account, UserKnown
<1>6. Detour(r)' /\ ChangerKnows(r)'
  <2>1. ChangerKnows(r)
    BY DEF Account, Alone
  <2> QED
    BY <1>1, <1>2, <2>1 DEF Detour, ChangerKnows, StatusKinds, LoginKinds
<1>7. ASSUME ~tainted' PROVE EntryWritten(r)' /\ Remaining(r)'
  <2>1. Remaining(r)
    BY <1>1, <1>7 DEF Account, Alone
  <2>2. Kind(r) = "change" => Access(r) = op[r].token
    BY DEF Access, LoginKinds
  <2> QED
    BY <1>1, <1>2, <1>4, <2>1, <2>2 DEF EntryWritten, Remaining
<1>8. ASSUME ~tainted' PROVE EntryAgrees' /\ CopiesAgree'
  <2>1. AccountSettled' => AccountSettled
    BY <1>1, OneChangerStep
  <2>2. EntryAgrees /\ CopiesAgree
    BY <1>1, <1>8 DEF Account
  <2>3. EntryAgrees'
    BY <1>1, <2>1, <2>2 DEF EntryAgrees
  <2>4. ASSUME AccountSettled', changed' = Absent, NEW q \in InProgress' PROVE Pending(q)'
    <3>1. q \in InProgress /\ Pending(q)
      BY <1>1, <2>1, <2>2, <2>4 DEF CopiesAgree, Alone
    <3> QED
      BY <1>1, <3>1 DEF Pending, Alone
  <2>5. ASSUME AccountSettled', changed' = Absent, NEW t \in Alive' PROVE Agrees(token'[t], user')
    <3>1. Pending(r)
      BY <1>1, <2>1, <2>2, <2>5 DEF CopiesAgree, Alone
    <3>2. CASE t = Access(r)
      BY <1>1, <1>4, <3>1, <3>2 DEF Pending
    <3>3. CASE t # Access(r)
      BY <1>1, <1>4, <2>1, <2>2, <2>5, <3>3 DEF CopiesAgree
    <3> QED
      BY <3>2, <3>3
  <2> QED
    BY <2>3, <2>4, <2>5 DEF CopiesAgree
<1>9. Kind(r) # "logout"
  BY <1>2 DEF LoginKinds
<1> QED
  BY <1>1, <1>5, <1>6, <1>7, <1>8, <1>9, StepAccount

LEMMA UpdateRowAccount ==
  ASSUME Inv, Account, NEW r \in Requests, Alone(r), UpdateRow(r)
  PROVE  Account'
<1>1. /\ pc[r] = "update" /\ pc'[r] = "set_status" /\ UNCHANGED <<changed, op, info>>
      /\ user' = [user EXCEPT !.status = info[r].status, !.mail = info[r].mail]
  BY DEF UpdateRow, Goto, Inv, TypeOK, cache, local
<1>2. Kind(r) \in StatusKinds /\ Kind(r) \in AccountKinds /\ Kind(r)' = Kind(r)
  BY <1>1, Routes DEF Alone, AccountKinds, Kind
<1>3. ~AccountSettled'
  BY <1>1, <1>2, OneChangerStep
<1>4. info[r] \in Standings /\ info[r].role = "none"
  BY <1>2 DEF Account, ChangerKnows, Alone
<1>5. UserKnown'
  BY <1>1, <1>4 DEF Account, UserKnown, Standings
<1>6. SameStanding(info[r], user')
  BY <1>1 DEF SameStanding, Inv, TypeOK, Infos
<1>7. Detour(r)' /\ ChangerKnows(r)'
  BY <1>1, <1>2, <1>4, <1>6 DEF Detour, ChangerKnows, StatusKinds
<1>8. EntryWritten(r)' /\ Remaining(r)'
  BY <1>1, <1>2 DEF EntryWritten, Remaining, StatusKinds
<1>9. Kind(r) # "logout"
  BY <1>2 DEF StatusKinds
<1> QED
  BY <1>1, <1>2, <1>3, <1>5, <1>7, <1>8, <1>9, StepAccount, Unsettled

LEMMA SetUserStatusAccount ==
  ASSUME Inv, Account, NEW r \in Requests, Alone(r), SetUserStatus(r)
  PROVE  Account'
<1>1. pc[r] = "set_status" /\ UNCHANGED <<user, token, tainted>> /\ changed' = info[r]
  BY DEF SetUserStatus, Finish, Goto
<1>2. Kind(r) \in StatusKinds \cup {"verify", "newmail"} /\ Kind(r) \in AccountKinds
  BY <1>1, Routes DEF Alone, AccountKinds
<1>3. Agrees(changed', user') /\ changed' # Absent
  <2>1. info[r] \in Infos /\ ChangerKnows(r) /\ UserKnown
    BY DEF Inv, TypeOK, Account, Alone
  <2>2. CASE Kind(r) \in StatusKinds
    <3>1. SameStanding(info[r], user) /\ info[r].role \in {user.role, "none"}
      BY <1>1, <2>1, <2>2 DEF ChangerKnows
    <3> QED
      BY <1>1, <2>1, <3>1, RowAgrees
  <2>3. CASE Kind(r) \in {"verify", "newmail"}
    BY <1>1, <2>1, <2>3 DEF ChangerKnows
  <2> QED
    BY <1>2, <2>2, <2>3
<1>4. UserKnown'
  BY <1>1 DEF Account, UserKnown
<1>5. EntryAgrees' /\ CopiesAgree'
  BY <1>3 DEF EntryAgrees, CopiesAgree
<1>6. Kind(r) # "logout"
  BY <1>2 DEF StatusKinds
<1>7. CASE Finish(r, "set_status")
  <2>1. r \notin InProgress'
    BY <1>7 DEF Finish, Goto, Inv, TypeOK, InProgress
  <2> QED
    BY <1>1, <1>2, <1>4, <1>5, <1>6, <2>1, StepAccount
<1>8. CASE Kind(r) = "newmail" /\ Goto(r, "set_status", "set_admin") /\ UNCHANGED local
  <2>1. pc'[r] = "set_admin" /\ info' = info /\ op' = op /\ Kind(r)' = Kind(r)
    BY <1>8 DEF Goto, Inv, TypeOK, local, Kind
  <2>2. ChangerKnows(r)
    BY DEF Account, Alone
  <2>3. Detour(r)' /\ ChangerKnows(r)'
    BY <1>1, <1>8, <2>1, <2>2 DEF Detour, ChangerKnows, StatusKinds
  <2>4. EntryWritten(r)' /\ Remaining(r)'
    BY <1>3, <1>8, <2>1 DEF EntryWritten, Remaining
  <2> QED
    BY <1>1, <1>2, <1>4, <1>5, <1>6, <2>3, <2>4, StepAccount
<1> QED
  BY <1>7, <1>8 DEF SetUserStatus

LEMMA SaveAccount ==
  ASSUME Inv, Inv', Account, NEW r \in Requests, Alone(r), Save(r)
  PROVE  Account'
<1>1. /\ pc[r] = "save" /\ pc'[r] = "rm_read" /\ UNCHANGED <<changed, token, op, info, tainted>>
      /\ user' = IF Kind(r) = "role" THEN [user EXCEPT !.role = op[r].role] ELSE user
  BY DEF Save, Goto, Inv, TypeOK, cache, local
<1>2. Kind(r) \in RemovingKinds /\ Kind(r)' = Kind(r)
  BY <1>1, Routes DEF Alone, Kind
<1>3. CASE Kind(r) # "role"
  <2>1. user' = user /\ Kind(r) \notin LoginKinds
    BY <1>1, <1>2, <1>3 DEF RemovingKinds, LoginKinds
  <2> QED
    BY <1>1, <2>1, QuietStep DEF Alive
<1>4. CASE Kind(r) = "role"
  <2>1. Kind(r) \in AccountKinds /\ ~AccountSettled'
    BY <1>1, <1>4, OneChangerStep DEF AccountKinds
  <2>2. UserKnown'
    <3>1. op[r].role \in Roles
      BY DEF Inv, TypeOK
    <3> QED
      BY <1>1, <1>4, <3>1 DEF Account, UserKnown, Standings
  <2>3. Detour(r)' /\ ChangerKnows(r)'
    BY <1>1, <1>2, <1>4 DEF Detour, ChangerKnows, StatusKinds
  <2>4. EntryWritten(r)' /\ Remaining(r)'
    BY <1>1, <1>2, <1>4 DEF EntryWritten, Remaining
  <2> QED
    BY <1>1, <1>4, <2>1, <2>2, <2>3, <2>4, StepAccount, Unsettled
<1> QED
  BY <1>3, <1>4

(* When a request that ends sessions comes to the status entry, no session is
   left but the one that remains, and nobody is about to write another. *)
LEMMA LastOnes ==
  ASSUME Inv, Account, ~tainted, NEW r \in InProgress, Kind(r) \in RemovingKinds,
         pc[r] \in {"rm_status", "rm_map"}
  PROVE  /\ \A t \in Alive : Kind(r) = "change" /\ t = op[r].token /\ Agrees(token[t], user)
         /\ \A q \in InProgress : Pending(q)
<1>1. Alive \subseteq {op[r].token}
  BY DEF Inv, RemovalCovers, Covered
<1>2. Kind(r) # "change" => op[r].token = Absent
  BY DEF Inv, ProgramCounters, Carries, Kind, RemovingKinds, InProgress
<1>3. Alive \subseteq Requests
  BY DEF Alive
<1>4. Remaining(r)
  BY DEF Account
<1>5. \A t \in Alive : Kind(r) = "change" /\ t = op[r].token /\ Agrees(token[t], user)
  BY <1>1, <1>2, <1>3, <1>4 DEF Remaining
<1>6. ASSUME NEW q \in InProgress PROVE pc[q] \notin {"role", "set_token"}
  <2>1. CASE q = r
    BY <2>1
  <2>2. CASE q # r
    <3>1. Kind(q) \notin LoginKinds \cup {"auth", "change"}
      BY <2>2, RemovalAlone
    <3> QED
      BY <3>1, Routes
  <2> QED
    BY <2>1, <2>2
<1> QED
  BY <1>5, <1>6 DEF Pending

LEMMA RemoveStatusAccount ==
  ASSUME Inv, Inv', Account, NEW r \in Requests, Alone(r), RemoveStatus(r)
  PROVE  Account'
<1>1. /\ pc[r] \in {"rm_token", "rm_status"} /\ UNCHANGED <<user, token, op, info, tainted>>
      /\ pc'[r] = IF pc[r] = "rm_token" THEN "rm_status" ELSE "rm_map"
      /\ changed' = IF pc[r] = "rm_status" THEN Absent ELSE changed
  BY DEF RemoveStatus, Goto, Inv, TypeOK, local
<1>2. Kind(r) \in RemovingKinds /\ Kind(r)' = Kind(r)
  BY <1>1, Routes DEF Alone, Kind
<1>3. CASE pc[r] = "rm_token"
  BY <1>1, <1>3, QuietStep DEF Alive
<1>4. CASE pc[r] = "rm_status"
  <2>1. UserKnown' /\ pc'[r] = "rm_map" /\ changed' = Absent
    BY <1>1, <1>4 DEF Account, UserKnown
  <2>2. Detour(r)' /\ ChangerKnows(r)'
    BY <1>2, <2>1 DEF Detour, ChangerKnows, StatusKinds, RemovingKinds
  <2>3. ASSUME ~tainted' PROVE EntryWritten(r)' /\ Remaining(r)'
    <3>1. Remaining(r)
      BY <1>1, <2>3 DEF Account, Alone
    <3> QED
      BY <1>1, <1>2, <1>4, <2>1, <3>1 DEF EntryWritten, Remaining, RemovingKinds, Alive
  <2>4. ASSUME ~tainted' PROVE EntryAgrees' /\ CopiesAgree'
    <3>1. \A t \in Alive : Agrees(token[t], user)
      BY <1>1, <1>2, <1>4, <2>4, LastOnes DEF Alone
    <3>2. \A q \in InProgress : Pending(q)
      BY <1>1, <1>2, <1>4, <2>4, LastOnes DEF Alone
    <3>3. ASSUME NEW q \in InProgress' PROVE Pending(q)'
      <4>1. q \in InProgress /\ Pending(q)
        BY <3>2 DEF Alone
      <4> QED
        BY <1>1, <2>1, <4>1 DEF Pending, Alone
    <3> QED
      BY <1>1, <2>1, <3>1, <3>3 DEF EntryAgrees, CopiesAgree, Alive
  <2>5. Kind(r) # "logout"
    BY <1>2 DEF RemovingKinds
  <2> QED
    BY <1>1, <1>2, <2>1, <2>2, <2>3, <2>4, <2>5, StepAccount
<1> QED
  BY <1>1, <1>3, <1>4

LEMMA RemoveMappingAccount ==
  ASSUME Inv, Account, NEW r \in Requests, Alone(r), RemoveMapping(r)
  PROVE  Account'
<1>1. /\ pc[r] = "rm_map" /\ pc'[r] = "done" /\ UNCHANGED <<user, token, changed>>
      /\ tainted => tainted'
  BY DEF RemoveMapping, Finish, Goto, Inv, TypeOK
<1>2. Kind(r) \in RemovingKinds
  BY <1>1, Routes DEF Alone
<1>3. UserKnown' /\ r \notin InProgress' /\ Kind(r) # "logout"
  BY <1>1, <1>2 DEF Account, UserKnown, InProgress, RemovingKinds
<1>4. ASSUME ~tainted' PROVE EntryAgrees' /\ CopiesAgree'
  <2>1. EntryAgrees /\ CopiesAgree /\ EntryWritten(r)
    BY <1>1, <1>4 DEF Account, Alone
  <2>2. /\ \A t \in Alive : Agrees(token[t], user)
        /\ \A q \in InProgress : Pending(q)
    BY <1>1, <1>2, <1>4, LastOnes DEF Alone
  <2>3. CopiesAgree'
    <3>1. ASSUME NEW q \in InProgress' PROVE Pending(q)'
      <4>1. q \in InProgress /\ Pending(q) /\ q # r
        BY <1>3, <2>2 DEF Alone
      <4> QED
        BY <1>1, <4>1 DEF Pending, Alone
    <3> QED
      BY <1>1, <2>2, <3>1 DEF CopiesAgree, Alive
  <2>4. EntryAgrees'
    <3>1. CASE Kind(r) = "role"
      BY <1>1, <2>1, <3>1 DEF EntryAgrees, EntryWritten
    <3>2. CASE Kind(r) # "role"
      <4>1. Kind(r) \notin AccountKinds
        BY <1>2, <3>2 DEF RemovingKinds, AccountKinds, StatusKinds
      <4>2. AccountSettled' => AccountSettled
        BY <4>1, OneChangerStep
      <4> QED
        BY <1>1, <2>1, <4>2 DEF EntryAgrees
    <3> QED
      BY <3>1, <3>2
  <2> QED
    BY <2>3, <2>4
<1> QED
  BY <1>1, <1>3, <1>4, StepAccount

-----------------------------------------------------------------------------
(* The arrival of a request r, as far as the account is concerned. *)
Newcomer(r) ==
  /\ r \notin InProgress
  /\ InProgress' = InProgress \cup {r}
  /\ \A q \in InProgress : pc'[q] = pc[q] /\ op'[q] = op[q] /\ info'[q] = info[q]
  /\ op'[r].kind \in AccountKinds => \A q \in InProgress : Kind(q) \notin AccountKinds
  /\ UNCHANGED <<user, changed>>
  /\ \A t \in Alive' : t \in Alive /\ token'[t] = token[t]
  /\ tainted => tainted'

LEMMA ArrivalAccount ==
  ASSUME Account, NEW r \in Requests, Newcomer(r),
         Detour(r)', ChangerKnows(r)', EntryWritten(r)', Remaining(r)', Pending(r)'
  PROVE  Account'
<1>1. \A q \in InProgress : q # r /\ Kind(q)' = Kind(q)
  BY DEF Newcomer, Kind
<1>2. UserKnown'
  BY DEF Newcomer, Account, UserKnown
<1>3. OneChanger'
  BY <1>1 DEF Newcomer, Account, OneChanger, Kind
<1>4. ASSUME NEW q \in InProgress' PROVE Detour(q)' /\ ChangerKnows(q)'
  <2>1. CASE q = r
    BY <2>1
  <2>2. CASE q \in InProgress
    <3>1. /\ Kind(q)' = Kind(q) /\ pc'[q] = pc[q] /\ info'[q] = info[q] /\ user' = user
          /\ Detour(q) /\ ChangerKnows(q)
      BY <1>1, <2>2 DEF Newcomer, Account
    <3> QED
      BY <3>1 DEF Detour, ChangerKnows
  <2> QED
    BY <2>1, <2>2 DEF Newcomer
<1>5. ASSUME ~tainted', NEW q \in InProgress' PROVE EntryWritten(q)' /\ Remaining(q)'
  <2>1. CASE q = r
    BY <2>1
  <2>2. CASE q \in InProgress
    <3>1. /\ Kind(q)' = Kind(q) /\ pc'[q] = pc[q] /\ info'[q] = info[q] /\ op'[q] = op[q]
          /\ UNCHANGED <<user, changed>>
          /\ EntryWritten(q) /\ Remaining(q)
      BY <1>1, <1>5, <2>2 DEF Newcomer, Account
    <3> QED
      BY <3>1 DEF EntryWritten, Remaining, Newcomer
  <2> QED
    BY <2>1, <2>2 DEF Newcomer
<1>6. AccountSettled' => AccountSettled
  BY <1>1 DEF Newcomer, AccountSettled
<1>7. ASSUME ~tainted' PROVE EntryAgrees' /\ CopiesAgree'
  <2>1. EntryAgrees /\ CopiesAgree
    BY <1>7 DEF Newcomer, Account
  <2>2. EntryAgrees'
    BY <1>6, <2>1 DEF Newcomer, EntryAgrees
  <2>3. ASSUME AccountSettled', changed' = Absent, NEW q \in InProgress' PROVE Pending(q)'
    <3>1. CASE q = r
      BY <3>1
    <3>2. CASE q \in InProgress
      <4>1. Pending(q) /\ pc'[q] = pc[q] /\ info'[q] = info[q] /\ user' = user
        BY <1>6, <2>1, <2>3, <3>2 DEF CopiesAgree, Newcomer
      <4> QED
        BY <4>1 DEF Pending
    <3> QED
      BY <3>1, <3>2 DEF Newcomer
  <2> QED
    BY <1>6, <2>1, <2>2, <2>3 DEF CopiesAgree, Newcomer
<1> QED
  BY <1>2, <1>3, <1>4, <1>5, <1>7 DEF Account

LEMMA NewcomerArrives ==
  ASSUME TypeOK, NEW r \in Requests, NEW k \in Kinds, NEW t \in Requests \cup {Absent}, NEW role \in Roles,
         NEW to \in PCs \ {"new", "done"}, Arrive(r, k, t, role), Goto(r, "new", to),
         UNCHANGED <<user, changed>>,
         \A x \in Alive' : x \in Alive /\ token'[x] = token[x],
         \A q \in InProgress : q # r => info'[q] = info[q]
  PROVE  /\ Newcomer(r)
         /\ Kind(r)' = k /\ pc'[r] = to
<1>1. pc'[r] = to /\ pc[r] = "new" /\ \A q \in Requests : q # r => pc'[q] = pc[q]
  BY DEF Goto, TypeOK
<1>2. InProgress' = InProgress \cup {r} /\ r \notin InProgress
  BY <1>1 DEF InProgress
<1>3. op'[r] = [kind |-> k, token |-> t, role |-> role] /\ \A q \in Requests : q # r => op'[q] = op[q]
  BY DEF Arrive, TypeOK
<1>4. op'[r].kind = k
  BY <1>3
<1>5. InProgress \subseteq Requests
  BY DEF InProgress
<1> QED
  BY <1>1, <1>2, <1>3, <1>4, <1>5 DEF Newcomer, Arrive, Kind

LEMMA BeginLoginAccount ==
  ASSUME Inv, Account, NEW r \in Requests, NEW k \in Kinds, BeginLogin(r, k)
  PROVE  Account'
<1> DEFINE to == IF k \in {"verify", "newmail"} THEN "mail" ELSE "role"
<1>1. k \in LoginKinds /\ info'[r] = user /\ UNCHANGED <<user, changed, token>>
  BY DEF BeginLogin, Inv, TypeOK, cache
<1>2. Newcomer(r) /\ Kind(r)' = k /\ pc'[r] = to
  <2>1. to \in PCs \ {"new", "done"}
    BY DEF PCs
  <2>2. "user" \in Roles
    BY DEF Roles
  <2> QED
    BY <1>1, <2>1, <2>2, NewcomerArrives DEF BeginLogin, Inv, TypeOK, Alive, InProgress
<1>3. SameStanding(info'[r], user')
  BY <1>1 DEF SameStanding
<1>4. Detour(r)' /\ ChangerKnows(r)'
  BY <1>1, <1>2, <1>3 DEF Detour, ChangerKnows, LoginKinds, StatusKinds
<1>5. EntryWritten(r)' /\ Remaining(r)' /\ Pending(r)'
  BY <1>1, <1>2, <1>3 DEF EntryWritten, Remaining, Pending, LoginKinds
<1> QED
  BY <1>2, <1>4, <1>5, ArrivalAccount

LEMMA BeginStatusAccount ==
  ASSUME Inv, Account, NEW r \in Requests, NEW k \in Kinds, BeginStatus(r, k)
  PROVE  Account'
<1>1. /\ k \in StatusKinds /\ info'[r] = [NewRow(k) EXCEPT !.role = "none"]
      /\ UNCHANGED <<user, changed, token>>
  BY DEF BeginStatus, Inv, TypeOK, cache
<1>2. Newcomer(r) /\ Kind(r)' = k /\ pc'[r] = "update"
  <2>1. "update" \in PCs \ {"new", "done"} /\ "user" \in Roles
    BY DEF PCs, Roles
  <2> QED
    BY <1>1, <2>1, NewcomerArrives DEF BeginStatus, Inv, TypeOK, Alive, InProgress
<1>3. info'[r] \in Standings /\ info'[r].role = "none"
  <2>1. NewRow(k) \in Standings
    BY <1>1 DEF NewRow, Account, UserKnown, Standings, StatusKinds, UserStatusAvailable,
       UserStatusSuspended, UserStatusDeleted, EmailStatusAvailable, EmailStatusToBeVerified
  <2> QED
    BY <1>1, <2>1 DEF Standings
<1>4. Detour(r)' /\ ChangerKnows(r)'
  BY <1>1, <1>2, <1>3 DEF Detour, ChangerKnows, StatusKinds
<1>5. EntryWritten(r)' /\ Remaining(r)' /\ Pending(r)'
  BY <1>1, <1>2 DEF EntryWritten, Remaining, Pending, StatusKinds
<1> QED
  BY <1>2, <1>4, <1>5, ArrivalAccount

LEMMA BeginRemovalAccount ==
  ASSUME Inv, Account, NEW r \in Requests, NEW k \in Kinds, NEW role \in Roles, BeginRemoval(r, k, role)
  PROVE  Account'
<1>1. k \in {"role", "password"} /\ UNCHANGED <<user, changed, token, info>>
  BY DEF BeginRemoval, cache
<1>2. Newcomer(r) /\ Kind(r)' = k /\ pc'[r] = "save"
  <2>1. "save" \in PCs \ {"new", "done"}
    BY DEF PCs
  <2> QED
    BY <1>1, <2>1, NewcomerArrives DEF BeginRemoval, Inv, Alive
<1>3. Detour(r)' /\ ChangerKnows(r)' /\ EntryWritten(r)' /\ Remaining(r)' /\ Pending(r)'
  BY <1>1, <1>2 DEF Detour, ChangerKnows, StatusKinds, EntryWritten, Remaining, Pending
<1> QED
  BY <1>2, <1>3, ArrivalAccount

LEMMA BeginAuthorisedAccount ==
  ASSUME Inv, Account, NEW r \in Requests, NEW k \in Kinds, NEW t \in Alive, BeginAuthorised(r, k, t)
  PROVE  Account'
<1>1. k \in {"auth", "change"} /\ UNCHANGED <<user, changed, token>> /\ t \in Requests
  BY DEF BeginAuthorised, cache, Alive
<1>2. Newcomer(r) /\ Kind(r)' = k /\ pc'[r] = "get_status"
  <2>1. "get_status" \in PCs \ {"new", "done"} /\ "user" \in Roles
    BY DEF PCs, Roles
  <2> QED
    BY <1>1, <2>1, NewcomerArrives DEF BeginAuthorised, Inv, TypeOK, Alive, InProgress
<1>3. Detour(r)' /\ ChangerKnows(r)' /\ EntryWritten(r)' /\ Remaining(r)' /\ Pending(r)'
  BY <1>1, <1>2 DEF Detour, ChangerKnows, StatusKinds, EntryWritten, Remaining, Pending
<1> QED
  BY <1>2, <1>3, ArrivalAccount

LEMMA BeginLogoutAccount ==
  ASSUME Inv, Account, NEW r \in Requests, NEW t \in Alive, BeginLogout(r, t)
  PROVE  Account'
<1>1. UNCHANGED <<user, changed, info>> /\ t \in Requests /\ "logout" \in Kinds
  BY DEF BeginLogout, Alive
<1>2. \A x \in Alive' : x \in Alive /\ token'[x] = token[x]
  BY DEF BeginLogout, Alive, Inv, TypeOK
<1>3. Newcomer(r) /\ Kind(r)' = "logout" /\ pc'[r] = "del_admin"
  <2>1. "del_admin" \in PCs \ {"new", "done"} /\ "user" \in Roles
    BY DEF PCs, Roles
  <2> QED
    BY <1>1, <1>2, <2>1, NewcomerArrives DEF BeginLogout, Inv
<1>4. Detour(r)' /\ ChangerKnows(r)' /\ EntryWritten(r)' /\ Remaining(r)' /\ Pending(r)'
  BY <1>3 DEF Detour, ChangerKnows, StatusKinds, EntryWritten, Remaining, Pending
<1> QED
  BY <1>3, <1>4, ArrivalAccount

-----------------------------------------------------------------------------
LEMMA InitAccount == Init => Account
<1> SUFFICES ASSUME Init
             PROVE  Account
  OBVIOUS
<1>1. Alive = {} /\ InProgress = {}
  BY DEF Init, Alive, InProgress
<1>2. UserKnown
  BY DEF Init, UserKnown, Standings, UserStatusAvailable
<1> QED
  BY <1>1, <1>2 DEF Init, Account, OneChanger, EntryAgrees, CopiesAgree

(* Every step keeps what is said of the account. *)
LEMMA AccountStep == Inv /\ Account /\ [Next]_vars => Account'
<1> SUFFICES ASSUME Inv, Account, [Next]_vars
             PROVE  Account'
  OBVIOUS
<1>1. Inv'
  BY InvStep
<1>2. CASE UNCHANGED vars
  BY <1>2 DEF vars, cache, local, Account, UserKnown, OneChanger, Detour, ChangerKnows, EntryWritten,
     Remaining, EntryAgrees, CopiesAgree, Pending, AccountSettled, InProgress, Alive, Kind
<1>3. ASSUME NEW r \in Requests, Step(r)
      PROVE  Account'
  <2>1. Alone(r)
    BY <1>3, StepAlone
  <2>2. CASE UpdateEmailStatus(r) \/ GetUserRole(r) \/ GetUserStatus(r)
    BY <2>1, <2>2, UpdateEmailStatusAccount, GetUserRoleAccount, GetUserStatusAccount
  <2>3. CASE SetToken(r) \/ GetMapping(r) \/ SetMapping(r) \/ SetVisit(r) \/ SetAdmin(r)
    BY <1>1, <2>1, <2>3, SetTokenAccount, GetMappingAccount, SetMappingAccount, SetVisitAccount,
       SetAdminAccount
  <2>4. CASE UpdateRow(r) \/ SetUserStatus(r) \/ Save(r)
    BY <1>1, <2>1, <2>4, UpdateRowAccount, SetUserStatusAccount, SaveAccount
  <2>5. CASE ReadMapping(r) \/ RemoveStatus(r) \/ RemoveMapping(r)
    BY <1>1, <2>1, <2>5, ReadMappingAccount, RemoveStatusAccount, RemoveMappingAccount
  <2>6. CASE LogoutAdmin(r) \/ LogoutVisit(r)
    BY <1>1, <2>1, <2>6, LogoutAdminAccount, LogoutVisitAccount
  <2>7. ASSUME NEW t \in known[r], RemoveToken(r, t)
        PROVE  Account'
    BY <1>1, <2>1, <2>7, RemoveTokenAccount
  <2> QED
    BY <1>3, <2>2, <2>3, <2>4, <2>5, <2>6, <2>7 DEF Step
<1>4. ASSUME NEW r \in Requests, Begin(r)
      PROVE  Account'
  <2>1. ASSUME NEW k \in Kinds, BeginLogin(r, k) PROVE Account'
    BY <2>1, BeginLoginAccount
  <2>2. ASSUME NEW k \in Kinds, BeginStatus(r, k) PROVE Account'
    BY <2>2, BeginStatusAccount
  <2>3. ASSUME NEW k \in Kinds, NEW role \in Roles, BeginRemoval(r, k, role) PROVE Account'
    BY <2>3, BeginRemovalAccount
  <2>4. ASSUME NEW k \in Kinds, NEW t \in Alive, BeginAuthorised(r, k, t) PROVE Account'
    BY <2>4, BeginAuthorisedAccount
  <2>5. ASSUME NEW t \in Alive, BeginLogout(r, t) PROVE Account'
    BY <2>5, BeginLogoutAccount
  <2> QED
    BY <1>4, <2>1, <2>2, <2>3, <2>4, <2>5 DEF Begin
<1> QED
  BY <1>2, <1>3, <1>4 DEF Next, AllAnswered

(* Whatever logins, requests and changes of the account came before: once no
   change is under way, no session of a suspended or deleted user is admitted,
   every session of a user who is available and verified is, and none has a role
   that the user does not have. *)
THEOREM SessionsFollowAccountTheorem == Spec => []SessionsFollowAccount
<1>1. Account => SessionsFollowAccount
  <2> SUFFICES ASSUME Account, ~tainted, AccountSettled, NEW t \in Alive
               PROVE  Agrees(Effective(t), user) /\ token[t] # Absent
    BY DEF SessionsFollowAccount, Agrees, Admitted
  <2>1. EntryAgrees /\ CopiesAgree
    BY DEF Account
  <2> QED
    BY <2>1 DEF EntryAgrees, CopiesAgree, Effective, Alive
<1>2. Init => Inv /\ Account
  BY InitInv, InitAccount
<1>3. Inv /\ Account /\ [Next]_vars => Inv' /\ Account'
  BY InvStep, AccountStep
<1> QED
  BY <1>1, <1>2, <1>3, PTL DEF Spec
=============================================================================
