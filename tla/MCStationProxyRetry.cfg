\* One client whose requestId is sent twice before it is answered.
SPECIFICATION ProxySpec
CONSTANTS
  Clients = {c1}
  Requests = {q1}
  StationIds = {i1}
  NoId = NoId
  Retries = TRUE
  MaxWire = 2
INVARIANTS ObservedBeforeCreated
CHECK_DEADLOCK FALSE
