SPECIFICATION FairSpec
CONSTANTS
  o1 = o1
  o2 = o2
  Obs = {o1, o2}
  NoRow = NoRow
  MaxAttempts = 2
  BatchSize = 1
  EntryPoint = "waitress"
  MaxIngests = 2
  MaxCrashes = 1
PROPERTIES PendingIsTakenUp
CHECK_DEADLOCK FALSE
