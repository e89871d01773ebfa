SPECIFICATION Spec
CONSTANTS
  feed = feed  off = off  i1 = i1  i2 = i2
  Workers = {w1}
  Order <- MCFeedOrder
  Items = {i1, i2}
  ItemsOf <- MCFeedItemsOf
  Enabled = {feed}
  Registered = {feed}
  NoSource = NoSource  NoCursor = NoCursor
  MaxRuns = 2
  MaxPublishes = 1
  MaxErrors = 0
  MaxPatches = 1
SYMMETRY MCSymmetry
CHECK_DEADLOCK FALSE
PROPERTIES DisabledIsNotCollected
