SPECIFICATION Spec
CONSTANTS
  N = 2
  h1 = h1
  Hosts = {h1}
  Unmapped = Unmapped
  HostOf <- OneHost
  Manual = TRUE
  MaxCrashes = 1
INVARIANTS StatusIsEarned CompletedIsClean
PROPERTIES StatusMovesForward
CHECK_DEADLOCK FALSE
