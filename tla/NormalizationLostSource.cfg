SPECIFICATION MCSpec
CONSTANTS
  c1 = c1  c2 = c2  None = None
  Rejected = Rejected  Unset = Unset  NoRow = NoRow  NoRaw = NoRaw
  ConnectorError = ConnectorError  NormalizationError = NormalizationError
  LinkLimit = 2
  Lexicon <- MCLexicon
  Workers = {1, 2}
  Raws = {1, 2, 3, 4, 5, 6, 7, 8}
  Contents = {c1, c2}
  Details = {60}
  Keys <- MCKeys
  Names <- MCNames
  Urls <- MCUrls
  SourceOf <- MCSourceOf
  Normalized <- MCNormalized
  BatchLimit = 2
  MaxCollections = 3
  MaxCrashes = 1
  MaxDbErrors = 1
  Scopes <- MCPairScopes
INVARIANTS SourcesAreComplete
