\* local: a client of the edge, a Station hop, two sessions in turn.
\* shared: a Station hop, two sessions in turn, a run or stream request.
\* station: one client, two requests.  keys: two fetches that overtake each other.
\* catalog: three requests at once, a host of each file and one refused.
\* credentials: two, with two values, and three keys for two rotations.
\* alerts: two failing threads.  users: days of two hours, three days.
\* access: an FMU code and a Guacamole code, two exchanges of either.
SPECIFICATION Spec
CONSTANTS
  Conns = {c1, c2}
  Internal = {c2}
  Sessions = {s1, s2}
  Reservations = {r1}
  Jobs = {j1}
  Limit = 1
  None = None
  Gone = Gone
  Clients = {c1}
  Requests = {q1, q2}
  StationIds = {i1, i2}
  NoId = NoId
  Retries = FALSE
  MaxWire = 1
  Verifiers = {v1, v2}
  TTL = 1
  MaxStale = 3
  FetchTime = 1
  MaxClock = 7
  Threads = {t1, t2, t3}
  Hosts = {h1, h2, h3}
  Valid = {h1, h2}
  Static = {h1}
  NoThread = NoThread
  Refs = {a, b}
  Keys = {k1, k2, k3}
  FirstKey = k1
  Values = {x, y}
  Nothing = Nothing
  Recorders = {w1, w2}
  Threshold = 2
  Window = 1
  Cooldown = 2
  RetryAttempts = 1
  MaxAlertTime = 3
  MaxFailures = 2
  Users = {u1}
  Connections = {d1, d2}
  Day = 2
  MaxTime = 5
  NoDate = NoDate
  Codes = {g1, g2}
  Fmu = {g1}
  Exchanges = {e1, e2}
  NoCode = NoCode
  Slow = FALSE
INVARIANTS
  SlotsCoverSessions
  RegisteredWhileOpen
  OneRunner
  AttachedIsObserved
  ObservedBeforeCreated
  WithdrawnKeyDies
  OneValidCatalog
  CredentialsSurvive
  OutageIsAlerted
  ReservationKeepsUser
  RedeemedOnce
  LastsUntilRevoked
PROPERTIES
  ExpiredIsClosed
  DetachedIsReclaimed
  ImplementsGrant
CHECK_DEADLOCK FALSE
