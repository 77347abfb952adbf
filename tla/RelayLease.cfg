SPECIFICATION FairSpec
CONSTANTS
  r1 = r1
  r2 = r2
  Relay = {r1, r2}
  Bucket = {1, 2}
  TTL = 2
  None = None
  MaxClock = 4
  MaxEpoch = 2
INVARIANTS
  TypeOK
  FencedInTime
  NoOrphanDrain
  EndInSight
PROPERTIES
  OnlyClaimsTakeBuckets
  DrainsEnd
CHECK_DEADLOCK FALSE
