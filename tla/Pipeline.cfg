SPECIFICATION FairSpec
CONSTANTS
  Workers = {w1, w2}
  Items = {a, b}
  Rejected = {b}
  Jobs = {j}
  NoJob = NoJob
  BeatLimit = 1
  TriggerLimits = {2}
  OnceLimit = 3
  MaxQueue = 1
  MaxManual = 1
  MaxFaults = 1
INVARIANTS TypeOK
PROPERTIES RecentIsScored LoggedIsReported
