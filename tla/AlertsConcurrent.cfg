SPECIFICATION MCSpec
CONSTANTS
  nvd = nvd  cisa = cisa  feed = feed  page = page  mirror = mirror  cve = cve  acme = acme  tbox = tbox  radio = radio
  Entries = {1, 2, 3}
  Versions <- MCVersions
  Names = {nvd, cisa, feed}
  Urls = {page, mirror}
  KevNames = {cisa}
  Values = {cve, acme, tbox, radio}
  VehicleCritical = {tbox}
  None = None
  Evaluators = {api, script}
  Limits = {1, 3}
  ContextLimit = 2
  Lookback = 7
  MinItems = 3
  MaxCommits = 3
  MaxReviews = 1
  Scopes <- MCScopes
INVARIANTS TypeOK DuplicatesOverlap DueIsAlerted BurstsAreAlerted
SYMMETRY MCSymmetry
CHECK_DEADLOCK FALSE
