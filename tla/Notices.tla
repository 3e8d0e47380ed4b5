------------------------------ MODULE Notices ------------------------------
(***************************************************************************)
(* Notifications: AddNotification and the red dots of                      *)
(* internal/service/notification_common/notification.go, run by the one    *)
(* worker of the notification queue, and the requests of                   *)
(* internal/service/notification/notification_service.go, by which a       *)
(* user reads them.                                                        *)
(*                                                                         *)
(* The queue is taken for what AsyncQueue says of it: first in, first out, *)
(* of limited room, emptied by one worker.  Every statement on the table   *)
(* and every access to the cache is one action.                            *)
(***************************************************************************)
EXTENDS Integers, Sequences, FiniteSets

CONSTANTS Readers,     (* users that may receive notifications *)
          Me,          (* the user whose objects are voted, answered, awarded *)
          Followers,   (* users that follow Me's question *)
          NoticeRoom,  (* capacity of the notification queue *)
          Tabs,        (* requests of Me in progress *)
          MaxEvents,   (* bound: things that happen *)
          MaxTabs,     (* bound: requests *)
          MaxRank,     (* bound: the rank an object is worth *)
          MaxLosses    (* bound: failing statements *)

ASSUME NoticeAssumption ==
  /\ Me \in Readers
  /\ Followers \subseteq Readers
  /\ NoticeRoom \in Nat \ {0}
  /\ MaxEvents \in Nat
  /\ MaxTabs \in Nat
  /\ MaxRank \in Nat
  /\ MaxLosses \in Nat

(* "rank": a vote or an acceptance; "update": of the question; "badge". *)
Kinds == {"rank", "update", "badge"}
Types == {"inbox", "achievement"}
TypeOf(k) == IF k = "update" THEN "inbox" ELSE "achievement"

(* NotificationMsg; copy is NoNeedPushAllFollow. *)
Notes == [event : 1..MaxEvents, kind : Kinds, to : Readers, copy : BOOLEAN]

MaxNotices == MaxEvents * (1 + Cardinality(Followers))
NoticeIds == 1..MaxNotices

(* A row of the table notification. *)
NoticeRows == [to : Readers, kind : Kinds, worth : 0..MaxRank, read : BOOLEAN]

NoDot == -1000   (* no entry in the cache *)

VARIABLES worth,       (* GetUserIDObjectIDActivitySum of the object *)
          since,       (* history: what it has been worth since a change was last told *)
          owed,        (* what has happened and was not yet sent *)
          mail,        (* the messages in the queue *)
          nwpc,        (* the next statement of the worker *)
          note,        (* the message it handles, in a sequence of at most one *)
          foundId,     (* the row that was found, 0 if none *)
          sum,         (* the sum it has read *)
          fans,        (* goroutines SendNotificationToAllFollower: note, rest *)
          notices,     (* the table, in the order of the ids *)
          dot,         (* the red dots in the cache, by user and type *)
          badgeAlert,  (* the badge alerts in the cache, by user *)
          alertRead,   (* the alerts that AddBadgeAwardAlertCache has read *)
          tabpc,       (* the next statement of each request *)
          tab,         (* the row each request is about, as it was read *)
          events,      (* how many things have happened *)
          tabs,        (* how many requests have arrived *)
          losses       (* how many statements have failed *)

nWorker == <<nwpc, note, foundId, sum>>
nTables == <<notices, dot, badgeAlert>>
nRequest == <<tabpc, tab, tabs>>
nWorth == <<worth, since>>
nBounds == <<events, losses>>
nVars == <<nWorth, owed, mail, nWorker, fans, nTables, alertRead, nRequest, nBounds>>

NWorkerPCs == {"recv", "look", "sum", "update", "insert", "dot", "increase",
               "set", "alert", "alert_set", "fan"}
TabPCs == {"idle", "mark", "alert", "alert_write", "dot", "decrease", "delete"}

NoTab == [id |-> 0, type |-> "inbox", unread |-> FALSE, alerts |-> {}]

NTypeOK ==
  /\ worth \in 0..MaxRank
  /\ since \subseteq 0..MaxRank
  /\ owed \subseteq Notes
  /\ mail \in Seq(Notes)
  /\ Len(mail) <= NoticeRoom
  /\ nwpc \in NWorkerPCs
  /\ note \in Seq(Notes)
  /\ foundId \in 0..MaxNotices
  /\ sum \in 0..MaxRank
  /\ \A f \in fans : f.note \in Notes /\ f.rest \subseteq Followers
  /\ notices \in Seq(NoticeRows)
  /\ dot \in [Readers \X Types -> Int]
  /\ badgeAlert \subseteq NoticeIds
  /\ alertRead \subseteq NoticeIds
  /\ tabpc \in [Tabs -> TabPCs]
  /\ \A t \in Tabs : /\ tab[t].id \in 0..MaxNotices
                     /\ tab[t].type \in Types
                     /\ tab[t].unread \in BOOLEAN
                     /\ tab[t].alerts \subseteq NoticeIds
  /\ events \in 0..MaxEvents
  /\ tabs \in 0..MaxTabs
  /\ losses \in 0..MaxLosses

NInit ==
  /\ worth = 0
  /\ since = {0}
  /\ owed = {}
  /\ mail = <<>>
  /\ nwpc = "recv"
  /\ note = <<>>
  /\ foundId = 0
  /\ sum = 0
  /\ fans = {}
  /\ notices = <<>>
  /\ dot = [k \in Readers \X Types |-> NoDot]
  /\ badgeAlert = {}
  /\ alertRead = {}
  /\ tabpc = [t \in Tabs |-> "idle"]
  /\ tab = [t \in Tabs |-> NoTab]
  /\ events = 0
  /\ tabs = 0
  /\ losses = 0

-----------------------------------------------------------------------------
(* What happens commits first and is sent afterwards.  A vote, an acceptance or
   the end of one tells of the object, also when its worth stays as it is. *)
Happens(k) ==
  /\ events < MaxEvents
  /\ events' = events + 1
  /\ owed' = owed \cup {[event |-> events + 1, kind |-> k, to |-> Me, copy |-> FALSE]}
  /\ IF k = "rank" THEN worth' \in 0..MaxRank /\ since' = {worth'} ELSE UNCHANGED nWorth
  /\ UNCHANGED <<mail, nWorker, fans, nTables, alertRead, nRequest, losses>>

(* Nobody is told of what he does himself: the author of the question accepts an
   answer, a moderator his own one, or either takes the acceptance back. *)
HappensUntold ==
  /\ events < MaxEvents
  /\ events' = events + 1
  /\ worth' \in (0..MaxRank) \ {worth}
  /\ since' = since \cup {worth'}
  /\ UNCHANGED <<owed, mail, nWorker, fans, nTables, alertRead, nRequest, losses>>

SendNote(m) ==
  /\ Len(mail) < NoticeRoom
  /\ mail' = Append(mail, m)
  /\ owed' = owed \ {m}
  /\ UNCHANGED <<nWorth, nWorker, fans, nTables, alertRead, nRequest, nBounds>>

-----------------------------------------------------------------------------
(* AddNotification. *)
NWGoto(from, to) == nwpc = from /\ nwpc' = to
Note == note[1]

Receive ==
  /\ mail # <<>>
  /\ NWGoto("recv", IF Head(mail).kind = "rank" THEN "look" ELSE "insert")
  /\ note' = <<Head(mail)>>
  /\ mail' = Tail(mail)
  /\ foundId' = 0
  /\ sum' = 0
  /\ UNCHANGED <<nWorth, owed, fans, nTables, alertRead, nRequest, nBounds>>

(* The object or the user is not there, or a statement fails: the error is
   logged by the queue and the message is gone. *)
AddFails ==
  /\ losses < MaxLosses
  /\ losses' = losses + 1
  /\ nwpc \in {"look", "sum", "insert", "update"}
  /\ nwpc' = "recv"
  /\ note' = <<>>
  /\ UNCHANGED <<nWorth, owed, mail, foundId, sum, fans, nTables, alertRead, nRequest, events>>

(* Mutant: only the rows that are not read yet. *)
UnreadRows ==
  {i \in 1..Len(notices) : notices[i].to = Note.to /\ notices[i].kind = "rank" /\ ~notices[i].read}

(* Rows that GetByUserIdObjectIdTypeId may return. *)
RowsOfObject ==
  {i \in 1..Len(notices) : notices[i].to = Note.to /\ notices[i].kind = "rank"}

LookUp ==
  /\ NWGoto("look", "sum")
  /\ foundId' \in (IF RowsOfObject = {} THEN {0} ELSE RowsOfObject)
  /\ UNCHANGED <<nWorth, owed, mail, note, sum, fans, nTables, alertRead, nRequest, nBounds>>

ReadSum ==
  /\ NWGoto("sum", IF foundId # 0 THEN "update" ELSE "insert")
  /\ sum' = worth
  /\ UNCHANGED <<nWorth, owed, mail, note, foundId, fans, nTables, alertRead, nRequest, nBounds>>

(* Mutant: the notification that exists is left as it is. *)
UpdateNothing ==
  /\ NWGoto("update", "recv")
  /\ note' = <<>>
  /\ UNCHANGED <<nWorth, owed, mail, foundId, sum, fans, nTables, alertRead, nRequest, nBounds>>

(* UpdateNotificationContent; no red dot. *)
UpdateContent ==
  /\ NWGoto("update", "recv")
  /\ note' = <<>>
  /\ notices' = [notices EXCEPT ![foundId].worth = sum]
  /\ UNCHANGED <<nWorth, owed, mail, foundId, sum, fans, dot, badgeAlert, alertRead, nRequest, nBounds>>

InsertNotice ==
  /\ NWGoto("insert", "dot")
  /\ notices' = Append(notices, [to |-> Note.to, kind |-> Note.kind,
                                 worth |-> sum, read |-> FALSE])
  /\ UNCHANGED <<nWorth, owed, mail, note, foundId, sum, fans, dot, badgeAlert, alertRead, nRequest, nBounds>>

(* addRedDot: is there a dot? *)
DotKey == <<Note.to, TypeOf(Note.kind)>>

LookAtDot ==
  /\ NWGoto("dot", IF dot[DotKey] # NoDot THEN "increase" ELSE "set")
  /\ UNCHANGED <<nWorth, owed, mail, note, foundId, sum, fans, nTables, alertRead, nRequest, nBounds>>

AfterDot == IF Note.kind = "badge" THEN "alert" ELSE "fan"

(* An entry that is not there cannot be increased; the error is logged. *)
IncreaseDot ==
  /\ NWGoto("increase", AfterDot)
  /\ dot' = IF dot[DotKey] # NoDot THEN [dot EXCEPT ![DotKey] = @ + 1] ELSE dot
  /\ UNCHANGED <<nWorth, owed, mail, note, foundId, sum, fans, notices, badgeAlert, alertRead, nRequest, nBounds>>

SetDot ==
  /\ NWGoto("set", AfterDot)
  /\ dot' = [dot EXCEPT ![DotKey] = 1]
  /\ UNCHANGED <<nWorth, owed, mail, note, foundId, sum, fans, notices, badgeAlert, alertRead, nRequest, nBounds>>

(* AddBadgeAwardAlertCache reads the alerts, adds one and writes them back. *)
ReadAlert ==
  /\ NWGoto("alert", "alert_set")
  /\ alertRead' = badgeAlert
  /\ UNCHANGED <<nWorth, owed, mail, note, foundId, sum, fans, nTables, nRequest, nBounds>>

WriteAlert ==
  /\ NWGoto("alert_set", "fan")
  /\ badgeAlert' = alertRead \cup {Len(notices)}
  /\ alertRead' = {}
  /\ UNCHANGED <<nWorth, owed, mail, note, foundId, sum, fans, notices, dot, nRequest, nBounds>>

(* Only some actions are for the followers, and a copy is not copied again. *)
Audience == IF Note.kind = "update" /\ ~Note.copy THEN Followers ELSE {}

(* Mutant: the worker itself sends the copies before it goes on. *)
FanOutInline ==
  /\ NWGoto("fan", "recv")
  /\ Len(mail) + Cardinality(Audience) <= NoticeRoom
  /\ note' = <<>>
  /\ \E s \in [1..Cardinality(Audience) -> Audience] :
       /\ \A u \in Audience : \E i \in DOMAIN s : s[i] = u
       /\ mail' = mail \o [i \in DOMAIN s |-> [Note EXCEPT !.to = s[i], !.copy = TRUE]]
  /\ UNCHANGED <<nWorth, owed, foundId, sum, fans, nTables, alertRead, nRequest, nBounds>>

(* The copies are sent by a goroutine, and the worker takes the next message. *)
FanOut ==
  /\ NWGoto("fan", "recv")
  /\ note' = <<>>
  /\ fans' = IF Audience = {} THEN fans ELSE fans \cup {[note |-> Note, rest |-> Audience]}
  /\ UNCHANGED <<nWorth, owed, mail, foundId, sum, nTables, alertRead, nRequest, nBounds>>

SendCopy(f) ==
  /\ Len(mail) < NoticeRoom
  /\ \E u \in f.rest :
       /\ mail' = Append(mail, [f.note EXCEPT !.to = u, !.copy = TRUE])
       /\ fans' = (fans \ {f}) \cup
                  (IF f.rest = {u} THEN {} ELSE {[f EXCEPT !.rest = @ \ {u}]})
  /\ UNCHANGED <<nWorth, owed, nWorker, nTables, alertRead, nRequest, nBounds>>

-----------------------------------------------------------------------------
(* The requests of Me. *)
Arrive == tabs < MaxTabs /\ tabs' = tabs + 1
TabGoto(t, from, to) == tabpc[t] = from /\ tabpc' = [tabpc EXCEPT ![t] = to]
TabReturn(t, from) == TabGoto(t, from, "idle") /\ tab' = [tab EXCEPT ![t] = NoTab]
TabDot(t) == <<Me, tab[t].type>>

(* ClearRedDot deletes the dot; DeleteRedDot is one access. *)
ClearRedDot(y) ==
  /\ Arrive
  /\ dot' = [dot EXCEPT ![<<Me, y>>] = NoDot]
  /\ UNCHANGED <<nWorth, owed, mail, nWorker, fans, notices, badgeAlert, alertRead, tabpc, tab, nBounds>>

(* ClearUnRead marks the rows of a type and leaves the dot alone. *)
ClearUnRead(y) ==
  /\ Arrive
  /\ notices' = [i \in DOMAIN notices |->
                   IF notices[i].to = Me /\ TypeOf(notices[i].kind) = y
                   THEN [notices[i] EXCEPT !.read = TRUE] ELSE notices[i]]
  /\ UNCHANGED <<nWorth, owed, mail, nWorker, fans, dot, badgeAlert, alertRead, tabpc, tab, nBounds>>

(* ClearIDUnRead reads the row, *)
ClearIDUnRead(t, i) ==
  /\ Arrive
  /\ notices[i].to = Me
  /\ TabGoto(t, "idle", IF notices[i].read THEN "alert" ELSE "mark")
  /\ tab' = [tab EXCEPT ![t] = [id |-> i, type |-> TypeOf(notices[i].kind),
                                unread |-> ~notices[i].read, alerts |-> {}]]
  /\ UNCHANGED <<nWorth, owed, mail, nWorker, fans, nTables, alertRead, nBounds>>

(* marks it, *)
MarkRead(t) ==
  /\ TabGoto(t, "mark", "alert")
  /\ notices' = [notices EXCEPT ![tab[t].id].read = TRUE]
  /\ UNCHANGED <<nWorth, owed, mail, nWorker, fans, dot, badgeAlert, alertRead, tab, tabs, nBounds>>

(* RemoveBadgeAwardAlertCache: reads the alerts, removes this one, writes; *)
ReadAlerts(t) ==
  /\ TabGoto(t, "alert", IF badgeAlert = {} THEN "dot" ELSE "alert_write")
  /\ tab' = [tab EXCEPT ![t].alerts = badgeAlert]
  /\ UNCHANGED <<nWorth, owed, mail, nWorker, fans, nTables, alertRead, tabs, nBounds>>

RemoveAlert(t) ==
  /\ TabGoto(t, "alert_write", "dot")
  /\ badgeAlert' = tab[t].alerts \ {tab[t].id}
  /\ UNCHANGED <<nWorth, owed, mail, nWorker, fans, notices, dot, alertRead, tab, tabs, nBounds>>

(* DecreaseRedDot, also of a row that was read before. *)
NoDotToDecrease(t) ==
  /\ TabReturn(t, "dot")
  /\ dot[TabDot(t)] = NoDot
  /\ UNCHANGED <<nWorth, owed, mail, nWorker, fans, nTables, alertRead, tabs, nBounds>>

DotToDecrease(t) ==
  /\ TabGoto(t, "dot", "decrease")
  /\ dot[TabDot(t)] # NoDot
  /\ UNCHANGED <<nWorth, owed, mail, nWorker, fans, nTables, alertRead, tab, tabs, nBounds>>

(* A dot that shows nothing is deleted. *)
Empty(n) == n <= 0

DecreaseDot(t) ==
  /\ tabpc[t] = "decrease"
  /\ dot[TabDot(t)] # NoDot
  /\ dot' = [dot EXCEPT ![TabDot(t)] = @ - 1]
  /\ IF Empty(dot[TabDot(t)] - 1)
     THEN tabpc' = [tabpc EXCEPT ![t] = "delete"] /\ UNCHANGED tab
     ELSE TabReturn(t, "decrease")
  /\ UNCHANGED <<nWorth, owed, mail, nWorker, fans, notices, badgeAlert, alertRead, tabs, nBounds>>

(* The dot was deleted meanwhile: an error, which is ignored. *)
DecreaseFails(t) ==
  /\ TabReturn(t, "decrease")
  /\ dot[TabDot(t)] = NoDot
  /\ UNCHANGED <<nWorth, owed, mail, nWorker, fans, nTables, alertRead, tabs, nBounds>>

DeleteDot(t) ==
  /\ TabReturn(t, "delete")
  /\ dot' = [dot EXCEPT ![TabDot(t)] = NoDot]
  /\ UNCHANGED <<nWorth, owed, mail, nWorker, fans, notices, badgeAlert, alertRead, tabs, nBounds>>

-----------------------------------------------------------------------------
NWorker ==
  \/ Receive \/ LookUp \/ ReadSum \/ UpdateContent \/ InsertNotice
  \/ LookAtDot \/ IncreaseDot \/ SetDot \/ ReadAlert \/ WriteAlert \/ FanOut

NClear(t) ==
  \/ MarkRead(t) \/ ReadAlerts(t) \/ RemoveAlert(t)
  \/ NoDotToDecrease(t) \/ DotToDecrease(t) \/ DecreaseDot(t) \/ DecreaseFails(t)
  \/ DeleteDot(t)

NNext ==
  \/ \E k \in Kinds : Happens(k)
  \/ HappensUntold
  \/ \E m \in owed : SendNote(m)
  \/ NWorker
  \/ AddFails
  \/ \E f \in fans : SendCopy(f)
  \/ \E y \in Types : ClearRedDot(y) \/ ClearUnRead(y)
  \/ \E t \in Tabs : \/ \E i \in DOMAIN notices : ClearIDUnRead(t, i)
                     \/ NClear(t)

NSpec == NInit /\ [][NNext]_nVars

(* Goroutines run: the worker, and those that send. *)
NSends == (\E m \in owed : SendNote(m)) \/ (\E f \in fans : SendCopy(f))

NFairSpec == NSpec /\ WF_nVars(NWorker) /\ WF_nVars(NSends)

-----------------------------------------------------------------------------
(* A user has at most one achievement notification of an object. *)
OneNoticePerObject ==
  \A i, j \in DOMAIN notices :
    notices[i].kind = "rank" /\ notices[j].kind = "rank" /\ notices[i].to = notices[j].to => i = j

(* With nothing on its way the achievement notification is never older than the
   last change that was told, although it is computed from the table at some later
   time, unless a message was lost to an error: it shows what the object was worth
   after that change or after a later one that nobody was told of. *)
RankShown ==
  owed = {} /\ mail = <<>> /\ nwpc = "recv" /\ losses = 0 =>
    \A i \in DOMAIN notices : notices[i].kind = "rank" => notices[i].worth \in since

(* Everything that happened is told in the end, however small the queue is. *)
AllTold == <>[](owed = {} /\ mail = <<>> /\ fans = {} /\ nwpc = "recv")
=============================================================================
