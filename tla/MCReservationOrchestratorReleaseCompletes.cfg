SPECIFICATION Spec
CONSTANTS
  N = 2
  h1 = h1
  Hosts = {h1}
  Unmapped = Unmapped
  HostOf <- OneHost
  Manual = FALSE
  MaxCrashes = 1
PROPERTIES ReleaseCompletes
CHECK_DEADLOCK FALSE
