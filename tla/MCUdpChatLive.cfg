CONSTANTS
  a1 = a1
  a2 = a2
  x = x
  y = y
  z = z
  Addresses = {a1}
  IdsOf <- TheirIds
  NoId = NoId
  NoAddress = NoAddress
  NoRequest = NoRequest
  MAX_CLIENTS = 2
  PING_TIMEOUT = 2
  MaxStarts = 2
  MaxCommands = 0
  MaxCopies = 1
SPECIFICATION Spec
INVARIANT TypeOK
PROPERTIES AnsweringClientStays GhostsVanish
