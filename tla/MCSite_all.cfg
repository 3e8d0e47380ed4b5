SPECIFICATION SiteSpec
CONSTANTS
  Requests = {1, 2, 3, 4}
  Absent = absent
  Impatient = FALSE
  Kinds = {"login", "sync", "dismiss", "remove", "notify"}
  MaxConcurrent = 3
  MaxFailures = 1
  FirstVersions = {0, 8}
  Savable = {"security", "login", "users_settings", "ai"}
  MaxSaves = 1
  MaxUpgrades = 2
  MaxStops = 1
INVARIANTS
  DeactivationHolds
  TokenHasProfile
  OneAccount
  DismissedNotTold
  SettingsKept
  NoOldEntries
