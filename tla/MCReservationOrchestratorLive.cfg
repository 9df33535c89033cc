SPECIFICATION FairSpec
CONSTANTS
  N = 2
  h1 = h1
  Hosts = {h1}
  Unmapped = Unmapped
  HostOf <- LastUnmapped
  Manual = FALSE
  MaxCrashes = 1
PROPERTIES EndedIsSettled ImplementsLifecycle
CHECK_DEADLOCK FALSE
