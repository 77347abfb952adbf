SPECIFICATION FairSpec
CONSTANTS
  r1 = r1
  r2 = r2
  Relay = {r1, r2}
  Bucket = {1}
  Event = {1, 2}
  bucketOf <- OneBucket
  BatchSize = 1
  MaxAttempts = 2
  None = None
  ClocksAgree = TRUE
  Timely = TRUE
  MaxFaults = 2
  MaxReplays = 0
INVARIANTS
  BudgetLeft
  SingleOwner
  FreshBatch
PROPERTIES
  EventuallySettled
