SPECIFICATION FairSpec
CONSTANTS
  None = None
  Records = {r1, r2, r3}
  Big = {r3}
  r1 = r1
  r2 = r2
  r3 = r3
  MaxSize = 4
  Compress = TRUE
  DeleteOriginal = TRUE
  MaxTime = 2
  MaxFaults = 1
  MaxCrashes = 1
INVARIANTS
  TypeOK
  NothingLost
  RotationBound
PROPERTIES
  BackupsAreCompressed
