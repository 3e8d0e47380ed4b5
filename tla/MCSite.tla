------------------------------- MODULE MCSite -------------------------------
(* Instances for TLC of the identity of one WeCom member and of the settings  *)
(* of the site.  They share no state, so that one run checks both: part says  *)
(* which of them moves in a behaviour, and the other stays as it begins.      *)
EXTENDS MCIdentity, SiteSettings

VARIABLE part

siteVars == <<part, vars, sVars>>

(* What may be there at the beginning is tried for the part that moves. *)
SiteInit ==
  /\ part \in {"identity", "settings"}
  /\ Init
  /\ SInit
  /\ part # "settings" => dbVersion = ExpectedVersion /\ cacheFile = {}

-----------------------------------------------------------------------------
Id(A) == part = "identity" /\ A /\ UNCHANGED <<part, sVars>>

IdArrives(r) ==
  \/ Id(BeginLogin(r)) \/ Id(BeginSync(r)) \/ Id(BeginDismiss(r))
  \/ \E u \in Requests : Id(BeginRemove(r, u)) \/ Id(BeginNotify(r, u))

IdSteps(r) ==
  \/ Id(FetchUserProfile(r)) \/ Id(ResolveRead(r)) \/ Id(ResolveInsert(r)) \/ Id(ResolveWrite(r))
  \/ Id(FindLink(r)) \/ Id(ReadUser(r)) \/ Id(MakeUsername(r)) \/ Id(AddUser(r)) \/ Id(AddLink(r))
  \/ Id(ProfileLink(r)) \/ Id(ProfileGet(r)) \/ Id(ProfileUpdate(r)) \/ Id(ProfileInsert(r))
  \/ Id(StatusRead(r)) \/ Id(StatusWrite(r)) \/ Id(RemoveRow(r)) \/ Id(RemoveLink(r))
  \/ Id(ReadAuthor(r)) \/ Id(Lookup(r)) \/ Id(SendMessage(r))
  \/ Id(Fail(r)) \/ Id(FailUsername(r))

Se(A) == part = "settings" /\ A /\ UNCHANGED <<part, vars>>

SeMoves ==
  \/ \E from \in 0..dbVersion : Se(StartUpgrade(from))
  \/ Se(NextMigration) \/ Se(MoveUserConfigToInterface) \/ Se(InsertSplit) \/ Se(StripRow)
  \/ Se(AddAPIKey) \/ Se(ZeroOrdinaryUserCustomPrivileges) \/ Se(FlushCache) \/ Se(WriteVersion)
  \/ Se(UpgradeDone) \/ Se(UpgradeEnds)
  \/ Se(StartServer) \/ Se(GetByType) \/ Se(SaveCacheFile) \/ Se(ServerStops)
  \/ \E v \in memory : Se(EntriesExpire(v))
  \/ \E t \in Savable : Se(SaveSetting(t))

SiteNext ==
  \/ \E r \in Requests : IdArrives(r) \/ IdSteps(r)
  \/ Id(Leave) \/ Id(Rejoin)
  \/ SeMoves

SiteSpec == SiteInit /\ [][SiteNext]_siteVars
=============================================================================
