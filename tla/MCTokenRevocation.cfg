\* One token: a retry, two deaths of the worker, two restarts of the edge.
SPECIFICATION FairSpec
CONSTANTS
  t1 = t1
  user = user
  Tokens = {t1}
  NoToken = NoToken
  Users = {user}
  UserOf <- OneUser
  MaxAttempts = 2
  MaxCrashes = 2
  MaxRestarts = 2
INVARIANTS TrackedUntilDead ObservedWasUsed
PROPERTIES NotCutEarly ExpiredIsRevoked UsedIsObserved
CHECK_DEADLOCK FALSE
