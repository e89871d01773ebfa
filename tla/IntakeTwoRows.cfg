SPECIFICATION Spec
CONSTANTS
  c1 = c1
  t1 = t1
  t2 = t2
  n1 = n1
  n2 = n2
  u1 = u1
  u2 = u2
  e1 = e1
  e2 = e2
  h1 = h1
  None = None
  Same = Same
  Hashes = {h1}
  Cves <- MCCves
  Titles <- MCTitles
  Names <- MCNames
  Urls <- MCUrls
  Ids <- MCIds
  Submissions <- MCSubmissions
  Changes <- MCChanges
  Payloads = {}
  Reports <- MCReports
  Spells <- MCSpells
  MaxRequests = 5
  MaxReports = 1
INVARIANTS OneRowPerCve
CHECK_DEADLOCK FALSE
