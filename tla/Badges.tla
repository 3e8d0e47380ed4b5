------------------------------- MODULE Badges -------------------------------
(***************************************************************************)
(* The awards of one badge: the handler of the event queue and Award in    *)
(* internal/service/badge, the transaction of internal/repo/badge_award,   *)
(* UpdateStatus, with which an administrator switches a badge off and on,  *)
(* and the removal of the awards of a deleted user.                        *)
(*                                                                         *)
(* The worker of the event queue handles one event at a time, statement by *)
(* statement, while administrators change the badge.  Which events earn a  *)
(* badge is decided by rules over other tables (badge_event_rule.go): here *)
(* any user may earn it for any key at any time.  A badge for a single     *)
(* award ignores the key.                                                  *)
(***************************************************************************)
EXTENDS Integers, FiniteSets

CONSTANTS Winners,       (* users *)
          AwardKeys,     (* what a badge is awarded for: ids of posts *)
          NoWinner, NoKey,
          Admins,        (* requests of administrators in progress *)
          MaxAwardEvents, (* bound: events that are handled *)
          MaxSwitches    (* bound: requests of administrators *)

ASSUME BadgesAssumption ==
  /\ NoWinner \notin Winners
  /\ NoKey \notin AwardKeys
  /\ MaxAwardEvents \in Nat
  /\ MaxSwitches \in Nat

VARIABLES single,      (* whether the badge is awarded once only *)
          badgeActive, (* its status: active or inactive *)
          awardCount,  (* its award_count *)
          awards,      (* rows of badge_award; hidden is is_badge_deleted *)
          awarding,    (* what the worker is doing *)
          switching,   (* what each request of an administrator is doing *)
          eventsDone,  (* how many events were handled *)
          switches,    (* how many requests have arrived *)
          miscounted   (* history: awards came or went while an activation had
                          counted them, or with their user *)

bVars == <<single, badgeActive, awardCount, awards, awarding, switching,
           eventsDone, switches, miscounted>>

(* n tells rows apart. *)
AwardRows == [n : Nat, user : Winners, key : AwardKeys, hidden : BOOLEAN]

Resting == [pc |-> "idle", user |-> NoWinner, key |-> NoKey]
NotSwitching == [pc |-> "idle", on |-> FALSE, count |-> 0]

BTypeOK ==
  /\ single \in BOOLEAN
  /\ badgeActive \in BOOLEAN
  /\ awardCount \in Nat
  /\ awards \subseteq AwardRows
  /\ awarding \in [pc : {"idle", "badge", "check", "award"},
                   user : Winners \cup {NoWinner}, key : AwardKeys \cup {NoKey}]
  /\ switching \in [Admins -> [pc : {"idle", "status", "count", "write"}, on : BOOLEAN, count : Nat]]
  /\ eventsDone \in 0..MaxAwardEvents
  /\ switches \in 0..MaxSwitches
  /\ miscounted \in BOOLEAN

BInit ==
  /\ single \in BOOLEAN
  /\ badgeActive = TRUE
  /\ awardCount = 0
  /\ awards = {}
  /\ awarding = Resting
  /\ switching = [a \in Admins |-> NotSwitching]
  /\ eventsDone = 0
  /\ switches = 0
  /\ miscounted = FALSE

-----------------------------------------------------------------------------
AwardGoto(pc) == awarding' = [awarding EXCEPT !.pc = pc]
AwardEnds == awarding' = Resting

(* What only the worker or only an administrator changes. *)
BadgeKept == UNCHANGED <<single, badgeActive, switching, switches>>

(* An event whose rule says that the user has earned the badge. *)
HandleEvent(u, k) ==
  /\ awarding.pc = "idle"
  /\ eventsDone < MaxAwardEvents
  /\ eventsDone' = eventsDone + 1
  /\ awarding' = [pc |-> "badge", user |-> u, key |-> k]
  /\ UNCHANGED <<awardCount, awards, miscounted>> /\ BadgeKept

(* Award looks at the badge: nothing is awarded while it is inactive. *)
LookAtBadge ==
  /\ awarding.pc = "badge"
  /\ IF badgeActive THEN AwardGoto("check") ELSE AwardEnds
  /\ UNCHANGED <<awardCount, awards, eventsDone, miscounted>> /\ BadgeKept

(* The rows that count as the award in question. *)
SameAward == {r \in awards : r.user = awarding.user /\ (single \/ r.key = awarding.key)}

(* CheckIsAward looks at the rows that are not hidden. *)
CheckIsAward ==
  /\ awarding.pc = "check"
  /\ IF \E r \in SameAward : ~r.hidden THEN AwardEnds ELSE AwardGoto("award")
  /\ UNCHANGED <<awardCount, awards, eventsDone, miscounted>> /\ BadgeKept

(* Mutant: the condition is part of the query. *)
OldAwardsShown == {r \in SameAward : ~r.hidden}

(* AwardBadgeForUser looks again in its transaction: it asks for rows with
   is_badge_deleted = 0, but a column with the value 0 is no condition to the
   mapper, so that hidden rows are found as well. *)
OldAwards == SameAward

FreeRow == CHOOSE n \in 0..Cardinality(awards) : \A r \in awards : r.n # n

(* The transaction holds the row of the badge, which keeps the count exact, and
   does not look at its status again. *)
AwardBadgeForUser ==
  /\ awarding.pc = "award"
  /\ IF OldAwards # {} THEN UNCHANGED <<awards, awardCount, miscounted>>
     ELSE /\ awards' = awards \cup {[n |-> FreeRow, user |-> awarding.user, key |-> awarding.key,
                                     hidden |-> FALSE]}
          /\ awardCount' = awardCount + 1
          /\ miscounted' = (miscounted \/ \E a \in Admins : switching[a].pc = "write")
  /\ AwardEnds
  /\ UNCHANGED eventsDone /\ BadgeKept

(* A statement of the worker fails: logged, and the event is done with. *)
AwardFails ==
  /\ awarding.pc # "idle"
  /\ AwardEnds
  /\ UNCHANGED <<awardCount, awards, eventsDone, miscounted>> /\ BadgeKept

-----------------------------------------------------------------------------
SwitchGoto(a, pc) == switching' = [switching EXCEPT ![a].pc = pc]
SwitchEnds(a) == switching' = [switching EXCEPT ![a] = NotSwitching]

(* UpdateStatus: a badge that has the status already is left alone. *)
UpdateStatus(a, on) ==
  /\ switching[a].pc = "idle"
  /\ switches < MaxSwitches
  /\ switches' = switches + 1
  /\ badgeActive # on
  /\ switching' = [switching EXCEPT ![a] = [NotSwitching EXCEPT !.pc = "status", !.on = on]]
  /\ UNCHANGED <<single, badgeActive, awardCount, awards, awarding, eventsDone, miscounted>>

(* One transaction writes the status and hides, or shows, all awards. *)
WriteBadgeStatus(a) ==
  /\ switching[a].pc = "status"
  /\ badgeActive' = switching[a].on
  /\ awards' = {[r EXCEPT !.hidden = ~switching[a].on] : r \in awards}
  /\ IF switching[a].on THEN SwitchGoto(a, "count") ELSE SwitchEnds(a)
  /\ UNCHANGED <<single, awardCount, awarding, eventsDone, switches, miscounted>>

(* An activation counts the awards and writes the number, in two statements. *)
CountAwards(a) ==
  /\ switching[a].pc = "count"
  /\ switching' = [switching EXCEPT ![a].pc = "write", ![a].count = Cardinality(awards)]
  /\ UNCHANGED <<single, badgeActive, awardCount, awards, awarding, eventsDone, switches, miscounted>>

UpdateAwardCount(a) ==
  /\ switching[a].pc = "write"
  /\ awardCount' = switching[a].count
  /\ SwitchEnds(a)
  /\ UNCHANGED <<single, badgeActive, awards, awarding, eventsDone, switches, miscounted>>

(* A statement fails: an activation that cannot count succeeds all the same. *)
SwitchFails(a) ==
  /\ switching[a].pc # "idle"
  /\ SwitchEnds(a)
  /\ UNCHANGED <<single, badgeActive, awardCount, awards, awarding, eventsDone, switches, miscounted>>

(* The awards of a user who is deleted go; the badge is not counted again. *)
DeleteUserBadgeAward(u) ==
  /\ \E r \in awards : r.user = u
  /\ awards' = {r \in awards : r.user # u}
  /\ miscounted' = TRUE
  /\ UNCHANGED <<awardCount, awarding, eventsDone>> /\ BadgeKept

-----------------------------------------------------------------------------
BWorker ==
  \/ \E u \in Winners, k \in AwardKeys : HandleEvent(u, k)
  \/ LookAtBadge \/ CheckIsAward \/ AwardBadgeForUser \/ AwardFails

BAdmin(a) ==
  \/ \E on \in BOOLEAN : UpdateStatus(a, on)
  \/ WriteBadgeStatus(a) \/ CountAwards(a) \/ UpdateAwardCount(a) \/ SwitchFails(a)

BNext == BWorker \/ (\E a \in Admins : BAdmin(a)) \/ (\E u \in Winners : DeleteUserBadgeAward(u))
BSpec == BInit /\ [][BNext]_bVars

-----------------------------------------------------------------------------
(* Nobody gets an award twice, also when the badge is switched off and on while
   the award is being made, which hides the award that the check looks for; and
   the number beside the badge is the number of its awards, unless an award came
   between the two statements of an activation or went with its user. *)
AwardedOnce ==
  /\ \A r, s \in awards :
       r.user = s.user /\ (single \/ r.key = s.key) => r = s
  /\ ~miscounted => awardCount = Cardinality(awards)
=============================================================================
