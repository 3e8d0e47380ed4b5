---------------------------- MODULE SiteSettings ----------------------------
(***************************************************************************)
(* The settings of a site, across upgrades: the rows of site_info, what    *)
(* the administrator saves (internal/service/siteinfo and the repository   *)
(* below it), the cache with its file, and Migrate, which the command      *)
(* "upgrade" runs (internal/migrations).  script/entrypoint.sh runs        *)
(* "answer upgrade" and then "answer run", whether the first succeeded or  *)
(* not: the server may run between two attempts.                           *)
(*                                                                         *)
(* The upgrade goes statement by statement, and the process may end before *)
(* any of them: a statement fails or the container is stopped.  The last   *)
(* eight migrations are modelled, of them what they do to the settings;    *)
(* versions count from the one before v1.6.0.  A row of site_info is a     *)
(* type and a content: a value for each setting, 0 standing for the zero   *)
(* value.  Of the cache only the version at which its entries were made    *)
(* counts.                                                                 *)
(***************************************************************************)
EXTENDS Integers, Sequences

CONSTANTS FirstVersions, (* versions of the site when it gets this release *)
          Savable,       (* bound: types the administrator saves *)
          MaxSaves,      (* bound: how often *)
          MaxUpgrades,   (* bound: calls of upgrade *)
          MaxStops       (* bound: unplanned ends of a process *)

(* Mutant: the last migration does not flush the cache. *)
LastKeepsCache == <<TRUE, TRUE, FALSE, TRUE, TRUE, FALSE, FALSE, FALSE>>

(* Whether a migration flushes the cache: v1.6.0, v1.7.0, v1.7.2, v1.8.0,
   v1.8.1, v1.8.2, v1.8.3, v1.8.4. *)
ShouldCleanCache == <<TRUE, TRUE, FALSE, TRUE, TRUE, FALSE, FALSE, TRUE>>

ExpectedVersion == Len(ShouldCleanCache)

(* The type under which this release looks for each setting. *)
Home == [images |-> "advanced", answers |-> "questions", slugs |-> "tags",
         language |-> "interface_settings", avatar |-> "users_settings",
         terms |-> "policies", display |-> "security", required |-> "security",
         update |-> "security", signup |-> "login", name |-> "general",
         prompt |-> "ai", ranks |-> "privileges"]

(* ... and the type under which releases before v1.8.0 kept it. *)
FormerHome ==
  [Home EXCEPT !.images = "write", !.answers = "write", !.slugs = "write",
     !.language = "interface", !.avatar = "interface", !.terms = "legal",
     !.display = "legal", !.required = "login", !.update = "general"]

SettingNames == DOMAIN Home
SettingsAt(t) == {f \in SettingNames : Home[f] = t}
FormerAt(t) == {f \in SettingNames : FormerHome[f] = t}
CurrentTypes == {Home[f] : f \in SettingNames}
RowTypes == CurrentTypes \cup {FormerHome[f] : f \in SettingNames} \cup {"users"}

ASSUME SiteSettingsAssumption ==
  /\ FirstVersions \subseteq {0, 1, ExpectedVersion}
  /\ Savable \subseteq CurrentTypes
  /\ {MaxSaves, MaxUpgrades, MaxStops} \subseteq Nat

VARIABLES siteInfo,  (* the rows, in the order of their ids *)
          dbVersion, (* the row of the version *)
          memory,    (* the cache of the running process: versions of its entries *)
          cacheFile, (* ... and of the file it is loaded from and saved to *)
          process,   (* what runs: pc, and of an upgrade at, step and what
                        v1.8.0 has seen in the rows it takes settings from *)
          wanted,    (* history: what each setting was set to last *)
          spoilt,    (* history: settings that a gap of the code has reached *)
          flushLost, (* history: an upgrade ended after the last version was
                        written, with the flushed cache not saved *)
          saves, upgrades, stops

sVars == <<siteInfo, dbVersion, memory, cacheFile, process, wanted, spoilt,
           flushLost, saves, upgrades, stops>>

Versions == 0..ExpectedVersion
SettingValues == 0..(MaxSaves + 1)

(* Mutant: rows are stripped of settings before these have a new row. *)
StrippedFirst == <<"advanced", "questions", "tags", "users_settings", "interface_settings",
                   "policies", "login", "general", "security">>

(* The steps of v1.8.0: rows to insert, then rows to strip. *)
SplitSteps == <<"advanced", "questions", "tags", "users_settings", "interface_settings",
                "policies", "security", "login", "general">>
Stripped == {"login", "general"}

STypeOK ==
  /\ \A i \in DOMAIN siteInfo :
       /\ siteInfo[i].type \in RowTypes
       /\ \A f \in DOMAIN siteInfo[i].content : siteInfo[i].content[f] \in SettingValues
  /\ dbVersion \in Versions
  /\ memory \subseteq Versions /\ cacheFile \subseteq Versions
  /\ process \in [pc : {"down", "server", "next", "work", "flush", "version"},
                  at : Versions, step : 1..Len(SplitSteps), seen : [SettingNames -> SettingValues]]
  /\ wanted \in [SettingNames -> SettingValues]
  /\ spoilt \subseteq SettingNames
  /\ flushLost \in BOOLEAN
  /\ saves \in 0..MaxSaves /\ upgrades \in 0..MaxUpgrades /\ stops \in 0..MaxStops

-----------------------------------------------------------------------------
Has(t) == \E i \in DOMAIN siteInfo : siteInfo[i].type = t

(* Get: the first row of the type, whose content leaves a setting at its zero
   value when it does not name it. *)
First(t) == CHOOSE i \in DOMAIN siteInfo :
  siteInfo[i].type = t /\ \A j \in DOMAIN siteInfo : siteInfo[j].type = t => i <= j
ValueIn(t, f) ==
  IF Has(t) /\ f \in DOMAIN siteInfo[First(t)].content THEN siteInfo[First(t)].content[f] ELSE 0

SiteRow(t, fs, v) == [type |-> t, content |-> [f \in fs |-> v]]
Insert(t, content) == siteInfo' = Append(siteInfo, [type |-> t, content |-> content])

(* The rows of a new installation, and of an older site: the pages of some
   settings may never have been saved, and before v1.6.0 the avatar was a
   setting of the users. *)
NewRows == <<SiteRow("interface_settings", {"language"}, 1), SiteRow("users_settings", {"avatar"}, 1),
             SiteRow("general", {"name"}, 1), SiteRow("login", {"signup"}, 1),
             SiteRow("users", {"avatar"}, 1), SiteRow("privileges", {"ranks"}, 1),
             SiteRow("advanced", {"images"}, 1), SiteRow("questions", {"answers"}, 1),
             SiteRow("tags", {"slugs"}, 1), SiteRow("security", SettingsAt("security"), 1),
             SiteRow("ai", {"prompt"}, 1)>>
OldRows(optional) ==
  <<SiteRow("interface", IF dbVersion = 0 THEN {"language"} ELSE {"language", "avatar"}, 1),
    SiteRow("general", FormerAt("general"), 1), SiteRow("login", FormerAt("login"), 1),
    SiteRow("users", {"avatar"}, 1), SiteRow("privileges", {"ranks"}, 1)>> \o
  [i \in DOMAIN optional |-> SiteRow(optional[i], FormerAt(optional[i]), 1)]

(* Where a setting is as long as it has not been moved. *)
KeptAt(f) == IF f = "avatar" /\ dbVersion = 0 THEN "users" ELSE FormerHome[f]

Unseen == [f \in SettingNames |-> 0]
Off == [pc |-> "down", at |-> 0, step |-> 1, seen |-> Unseen]

SInit ==
  /\ dbVersion \in FirstVersions
  /\ IF dbVersion = ExpectedVersion THEN siteInfo = NewRows
     ELSE siteInfo \in {OldRows(o) : o \in {<<>>, <<"write">>, <<"legal">>, <<"write", "legal">>}}
  /\ wanted = [f \in SettingNames |-> IF Has(Home[f]) THEN ValueIn(Home[f], f)
                                      ELSE ValueIn(KeptAt(f), f)]
  /\ spoilt = {}
  /\ memory = {} /\ cacheFile \in {{}, {dbVersion}}
  /\ process = Off
  /\ flushLost = FALSE
  /\ saves = 0 /\ upgrades = 0 /\ stops = 0

-----------------------------------------------------------------------------
RowsKept == UNCHANGED <<siteInfo, wanted, spoilt>>
CachesKept == UNCHANGED <<memory, cacheFile, flushLost>>
BoundsKept == UNCHANGED <<saves, upgrades, stops>>

ContinueAt(pc) == process' = [process EXCEPT !.pc = pc]

(* NewCache loads the file.  The flag --from makes another version the current
   one; only versions are given that the site has reached. *)
StartUpgrade(from) ==
  /\ process.pc = "down"
  /\ upgrades < MaxUpgrades
  /\ upgrades' = upgrades + 1
  /\ process' = [Off EXCEPT !.pc = "next", !.at = from]
  /\ memory' = cacheFile
  /\ RowsKept /\ UNCHANGED <<dbVersion, cacheFile, flushLost, saves, stops>>

(* The loop: the next migration, of which some do nothing to the settings.
   Those of v1.8.0 begin with the rows that they take settings from. *)
NextMigration ==
  /\ process.pc = "next" /\ process.at < ExpectedVersion
  /\ process' = [process EXCEPT
       !.pc = IF process.at + 1 \in {1, 4, 5, 8} THEN "work" ELSE "flush",
       !.seen = IF process.at + 1 = 4 THEN [f \in SettingNames |-> ValueIn(FormerHome[f], f)]
                ELSE Unseen]
  /\ RowsKept /\ CachesKept /\ BoundsKept /\ UNCHANGED dbVersion

Working(n) == process.pc = "work" /\ process.at + 1 = n

(* What a migration leaves alone. *)
MigrationKeeps == UNCHANGED dbVersion /\ CachesKept /\ BoundsKept

Rewrite(t, content) == siteInfo' = [siteInfo EXCEPT ![First(t)].content = content]

(* v1.6.0, moveUserConfigToInterface: the content is rewritten with a structure
   whose avatar is not encoded (json:"-"), so that the avatar is lost where it
   was not moved further before. *)
MoveUserConfigToInterface ==
  /\ Working(1)
  /\ Has("interface")
  /\ Rewrite("interface", [f \in {"language"} |-> ValueIn("interface", f)])
  /\ spoilt' = spoilt \cup (IF Has("users_settings") THEN {} ELSE {"avatar"})
  /\ ContinueAt("flush")
  /\ UNCHANGED wanted /\ MigrationKeeps

(* v1.8.0: the row that says whether a step is to insert.  Of the advanced
   settings it is the one they come from. *)
LookedFor(t) == IF t = "advanced" THEN "write" ELSE t

(* The row that a step of v1.8.0 takes the settings from: without it the step,
   and the others of its function, do nothing. *)
Source(t) ==
  CASE t \in {"advanced", "questions", "tags"} -> "write"
    [] t \in {"users_settings", "interface_settings"} -> "interface"
    [] OTHER -> "legal"

SplitStep == SplitSteps[process.step]
SplitGoesOn ==
  process' = IF process.step < Len(SplitSteps) THEN [process EXCEPT !.step = @ + 1]
             ELSE [Off EXCEPT !.pc = "flush", !.at = process.at]

InsertSplit ==
  /\ Working(4) /\ SplitStep \notin Stripped
  /\ IF Has(Source(SplitStep)) /\ ~Has(LookedFor(SplitStep))
     THEN Insert(SplitStep, [f \in SettingsAt(SplitStep) |-> process.seen[f]])
     ELSE UNCHANGED siteInfo
  /\ spoilt' = spoilt \cup {f \in SettingsAt(SplitStep) :
       /\ ~Has(SplitStep)
       /\ LookedFor(SplitStep) # SplitStep \/ ~Has(Source(SplitStep))
       /\ process.seen[f] # 0}
  /\ SplitGoesOn
  /\ UNCHANGED wanted /\ MigrationKeeps

StripRow ==
  /\ Working(4) /\ SplitStep \in Stripped
  /\ IF Has("legal")
     THEN Rewrite(SplitStep, [f \in SettingsAt(SplitStep) |-> ValueIn(SplitStep, f)])
     ELSE UNCHANGED siteInfo
  /\ SplitGoesOn
  /\ UNCHANGED <<wanted, spoilt>> /\ MigrationKeeps

(* v1.8.1, aiFeat: the prompt is the default one, also where it was set. *)
AddAPIKey ==
  /\ Working(5)
  /\ IF Has("ai")
     THEN /\ Rewrite("ai", [prompt |-> 1])
          /\ spoilt' = spoilt \cup (IF wanted["prompt"] = 1 THEN {} ELSE {"prompt"})
          /\ UNCHANGED wanted
     ELSE /\ Insert("ai", [prompt |-> 1])
          /\ wanted' = [wanted EXCEPT !["prompt"] = 1]
          /\ UNCHANGED spoilt
  /\ ContinueAt("flush") /\ MigrationKeeps

(* v1.8.4: no rank is required of ordinary users any more. *)
ZeroOrdinaryUserCustomPrivileges ==
  /\ Working(8)
  /\ Has("privileges")
  /\ Rewrite("privileges", [ranks |-> 0])
  /\ wanted' = [wanted EXCEPT !["ranks"] = 0]
  /\ ContinueAt("flush")
  /\ UNCHANGED spoilt /\ MigrationKeeps

(* The cache is flushed in memory only. *)
FlushCache ==
  /\ process.pc = "flush"
  /\ memory' = IF ShouldCleanCache[process.at + 1] THEN {} ELSE memory
  /\ ContinueAt("version")
  /\ RowsKept /\ BoundsKept /\ UNCHANGED <<dbVersion, cacheFile, flushLost>>

WriteVersion ==
  /\ process.pc = "version"
  /\ dbVersion' = process.at + 1
  /\ process' = [Off EXCEPT !.pc = "next", !.at = process.at + 1]
  /\ RowsKept /\ CachesKept /\ BoundsKept

(* The loop is over: cleanup saves the cache to its file. *)
UpgradeDone ==
  /\ process.pc = "next" /\ process.at = ExpectedVersion
  /\ cacheFile' = memory
  /\ flushLost' = (flushLost /\ memory # {})
  /\ process' = Off
  /\ RowsKept /\ BoundsKept /\ UNCHANGED <<dbVersion, memory>>

(* A statement or the file fails, or the process is stopped: nothing is saved.
   v1.6.0 always fails without a row of the interface ("not found"). *)
UpgradeEnds ==
  /\ process.pc \in {"next", "work", "flush", "version"}
  /\ \/ Working(1) /\ ~Has("interface") /\ UNCHANGED stops
     \/ stops < MaxStops /\ stops' = stops + 1
  /\ flushLost' = (flushLost \/ (dbVersion = ExpectedVersion /\ process.at = ExpectedVersion))
  /\ process' = Off
  /\ RowsKept /\ UNCHANGED <<dbVersion, memory, cacheFile, saves, upgrades>>

-----------------------------------------------------------------------------
StartServer ==
  /\ process.pc = "down"
  /\ ContinueAt("server")
  /\ memory' = cacheFile
  /\ RowsKept /\ BoundsKept /\ UNCHANGED <<dbVersion, cacheFile, flushLost>>

(* GetByType fills the cache; an entry is gone after an hour. *)
GetByType ==
  /\ process.pc = "server"
  /\ memory' = memory \cup {dbVersion}
  /\ RowsKept /\ BoundsKept /\ UNCHANGED <<dbVersion, cacheFile, process, flushLost>>

EntriesExpire(v) ==
  /\ process.pc = "server"
  /\ memory' = memory \ {v}
  /\ RowsKept /\ BoundsKept /\ UNCHANGED <<dbVersion, cacheFile, process, flushLost>>

(* Each minute any process saves its cache, and the server when it stops. *)
SaveCacheFile ==
  /\ process.pc # "down"
  /\ cacheFile' = memory
  /\ flushLost' = (flushLost /\ memory # {})
  /\ RowsKept /\ BoundsKept /\ UNCHANGED <<dbVersion, memory, process>>

ServerStops ==
  /\ process.pc = "server"
  /\ process' = Off
  /\ RowsKept /\ CachesKept /\ BoundsKept /\ UNCHANGED dbVersion

(* SaveSiteUsersSettings gives the row the type of the interface settings; the
   other functions the type that is saved. *)
StoredAs(t) == IF t = "users_settings" THEN "interface_settings" ELSE t

(* The row that has the type t is overwritten, its type included. *)
SaveByType(t, row) ==
  siteInfo' = IF Has(t) THEN [siteInfo EXCEPT ![First(t)] = row] ELSE Append(siteInfo, row)

(* The administrator saves a page of the settings.  Content that older
   releases kept in the same row and that was not moved yet goes with it. *)
SaveSetting(t) ==
  /\ process.pc = "server"
  /\ saves < MaxSaves
  /\ saves' = saves + 1
  /\ SaveByType(t, SiteRow(StoredAs(t), SettingsAt(t), saves + 2))
  /\ wanted' = [f \in SettingNames |-> IF Home[f] = t THEN saves + 2 ELSE wanted[f]]
  /\ spoilt' = (spoilt \ SettingsAt(t))
       \cup {f \in FormerAt(t) \ SettingsAt(t) : ~Has(Home[f])}
       \cup (IF StoredAs(t) # t THEN SettingsAt(t) \cup SettingsAt(StoredAs(t)) ELSE {})
  /\ memory' = memory \cup {dbVersion}
  /\ UNCHANGED <<dbVersion, cacheFile, process, flushLost, upgrades, stops>>

-----------------------------------------------------------------------------
SUpgrade ==
  \/ \E from \in 0..dbVersion : StartUpgrade(from)
  \/ NextMigration \/ MoveUserConfigToInterface \/ InsertSplit \/ StripRow \/ AddAPIKey
  \/ ZeroOrdinaryUserCustomPrivileges \/ FlushCache \/ WriteVersion \/ UpgradeDone \/ UpgradeEnds

SServer ==
  \/ StartServer \/ GetByType \/ SaveCacheFile \/ ServerStops
  \/ \E v \in memory : EntriesExpire(v)
  \/ \E t \in Savable : SaveSetting(t)

SNext == SUpgrade \/ SServer
SSpec == SInit /\ [][SNext]_sVars

-----------------------------------------------------------------------------
Told(f) == ValueIn(Home[f], f)

(* Whatever upgrades begin, break off anywhere and begin again, from the
   current version or an older one, and whatever is saved between them: where
   this release has a row for a setting, the row tells what the administrator,
   or a migration on purpose, set last; where it has none yet, the older row
   still does.  The gaps of the code are left out where they have bitten. *)
SettingsKept ==
  \A f \in SettingNames \ spoilt :
    wanted[f] = IF Has(Home[f]) \/ dbVersion >= 4 THEN Told(f) ELSE ValueIn(KeptAt(f), f)

(* The server of an upgraded site has no entry in its cache from before the
   upgrade, unless the upgrade ended with its flushed cache not saved. *)
NoOldEntries ==
  process.pc = "server" /\ dbVersion = ExpectedVersion /\ ~flushLost =>
    memory \subseteq {ExpectedVersion}
=============================================================================
