SPECIFICATION FairSpec
CONSTANTS
  j1 = j1
  j2 = j2
  j3 = j3
  j4 = j4
  l1 = l1
  l2 = l2
  c1 = c1
  c2 = c2
  Jobs = {j1, j2, j3, j4}
  Labs = {l1, l2}
  Creds = {c1, c2}
  LabOf <- MCLabOf
  CredOf <- MCCredOf
  Streams = {j3}
  Limit = 1
  MayCancel = TRUE
  MayDisconnect = TRUE
INVARIANTS SlotsNotLeaked OvershootIsBounded LimitButFor ObservedBeforeWork
PROPERTIES SlotsReturn ImplementsSlots
CHECK_DEADLOCK FALSE
