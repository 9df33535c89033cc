\* Two sessions: one may be released and the other inherit its counter.
SPECIFICATION FairSpec
CONSTANTS
  s1 = s1
  s2 = s2
  s3 = s3
  Sessions = {s1, s2}
  Nobody = Nobody
  TTL = 4
  MaxTunnels = 2
INVARIANTS CountedUntilLapse ExclusiveUntilEarly
PROPERTIES OverlapIsRevoked
