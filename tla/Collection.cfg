SPECIFICATION Spec
CONSTANTS
  feed = feed  off = off  i1 = i1  i2 = i2
  Workers = {w1, w2}
  Order <- MCOrder
  Items = {i1, i2}
  ItemsOf <- MCItemsOf
  Enabled = {feed}
  Registered = {feed}
  NoSource = NoSource  NoCursor = NoCursor
  MaxRuns = 3
  MaxPublishes = 2
  MaxErrors = 1
  MaxPatches = 1
SYMMETRY MCSymmetry
CHECK_DEADLOCK FALSE
INVARIANTS TypeOK FailuresMatchLog CursorMatchesLog CreatedOnce
PROPERTIES RawNeverGoesBack
