SPECIFICATION FairSpec
CONSTANTS
  r1 = r1
  r2 = r2
  Relay = {r1, r2}
  Bucket = {1, 2}
  Event = {1}
  bucketOf <- TwoBuckets
  BatchSize = 1
  MaxAttempts = 1
  None = None
  ClocksAgree = TRUE
  Timely = TRUE
  MaxFaults = 0
  MaxReplays = 0
PROPERTY QueueDivided
