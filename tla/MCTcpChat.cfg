CONSTANTS
  x = x
  y = y
  Clients = {1, 2}
  Ids = {x, y}
  NoId = NoId
  Nobody = Nobody
  PING_TIMEOUT = 2
  Setups <- MCSetups
SPECIFICATION Spec
INVARIANTS TypeOK CountAgrees SocketsAreTheirs ReachesAddressee
PROPERTIES IsDirectory SilentAreDropped
CHECK_DEADLOCK FALSE
