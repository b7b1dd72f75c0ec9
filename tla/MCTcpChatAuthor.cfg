CONSTANTS
  x = x
  y = y
  Clients = {1, 2}
  Ids = {x, y}
  NoId = NoId
  Nobody = Nobody
  PING_TIMEOUT = 2
  Setups <- MCSetups
SPECIFICATION Spec
INVARIANT AttributedToAuthor
CHECK_DEADLOCK FALSE
