SPECIFICATION Spec
CONSTANTS
  r1 = r1
  r2 = r2
  Relay = {r1, r2}
  Bucket = {1}
  Event = {1, 2}
  bucketOf <- OneBucket
  BatchSize = 2
  MaxAttempts = 1
  None = None
  ClocksAgree = FALSE
  Timely = TRUE
  MaxFaults = 0
  MaxReplays = 0
SYMMETRY RelaySymmetry
INVARIANT OrderKept
