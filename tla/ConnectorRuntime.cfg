SPECIFICATION FairSpec
CONSTANTS
  NoConnector = NoConnector
  Sources <- MCSources
  ConnectorOf <- MCConnectorOf
  Enabled <- MCEnabled
  Orders <- MCOrders
  Endpoints <- MCEndpoints
  Items = {1, 2, 3, 4}
  PageSize = 1
  MaxPages = 2
  Window = 9
  Retries = 1
  Backoff = 1
  MaxBackoff = 1
  Interval = 1
  Published = {2, 3, 4}
  Bounds <- MCBounds
CHECK_DEADLOCK FALSE
INVARIANTS TypeOK NothingIsMissed CampaignsOnce
PROPERTIES EveryRunEnds RunsAreAtomic
