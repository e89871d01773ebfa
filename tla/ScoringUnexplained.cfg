SPECIFICATION MCSpec
CONSTANTS
  NoValue = NoValue
  Entries = {1}
  Keys <- MCKeys
  Reports <- MCReports
  KeptSightings = 1
  Presets <- MCPresets
  Processes = {1, 2}
  ForceFlags = {FALSE}
  BatchLimits = {2}
  Unscored = Unscored  NoEntry = NoEntry  Unexplained = Unexplained
  MaxMerges = 1
  MaxErrors = 0
  MaxCrashes = 0
  Scopes <- MCPairScopes
INVARIANTS ScoresAreExplained
