SPECIFICATION Spec
CONSTANTS
  Sinks = {s1, s2, s3}
  Std = {s3}
  Records = {r1, r2}
  s1 = s1
  s2 = s2
  s3 = s3
  r1 = r1
  r2 = r2
  Initial <- Pair
  Retries = 1
  MaxFaults = 1
  MaxEdits = 2
INVARIANTS
  TypeOK
  TargetsAreMembers
  FanOutIsHonest
  SyncCovers
PROPERTIES
  CloseReachesAll
