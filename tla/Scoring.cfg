SPECIFICATION MCSpec
CONSTANTS
  NoValue = NoValue
  Entries = {1, 2}
  Keys <- MCKeys
  Reports <- MCReports
  KeptSightings = 1
  Presets <- MCPresets
  Processes = {1, 2}
  ForceFlags = {TRUE, FALSE}
  BatchLimits = {1, 2}
  Unscored = Unscored  NoEntry = NoEntry  Unexplained = Unexplained
  MaxMerges = 3
  MaxErrors = 1
  MaxCrashes = 1
  Scopes <- MCScopes
INVARIANTS TypeOK AloneExplained ScoreAndLevelAgree
PROPERTIES AloneFallsForAReason AloneIdempotent EveryEntryIsScored
