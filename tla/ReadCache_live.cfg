SPECIFICATION FairSpec
CONSTANTS
  p1 = p1
  p2 = p2
  c1 = c1
  c2 = c2
  t1 = t1
  t2 = t2
  t3 = t3
  t4 = t4
  Proc = {p1, p2}
  Caller = {c1, c2}
  Home <- OneEach
  Codec <- TwoCodecs
  Token = {t1, t2, t3}
  None = None
  TTL = 1
  Lease = 1
  LoadTimeout = 1
  Outage = 0
  MaxVersion = 0
  MaxLate = 0
PROPERTIES
  EveryGetReturns
  LocksLapse
