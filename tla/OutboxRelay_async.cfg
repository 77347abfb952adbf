SPECIFICATION Spec
CONSTANTS
  r1 = r1
  r2 = r2
  Relay = {r1, r2}
  Bucket = {1}
  Event = {1, 2}
  bucketOf <- OneBucket
  BatchSize = 2
  MaxAttempts = 1
  None = None
  ClocksAgree = TRUE
  Timely = FALSE
  MaxFaults = 1
  MaxReplays = 1
SYMMETRY RelaySymmetry
INVARIANTS
  TypeOK
  NothingLost
  NotPendingAndDead
  OrderKept
PROPERTIES
  OnlyHolderTouchesRows
  ImplementsQueue
