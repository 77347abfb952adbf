SPECIFICATION Spec
CONSTANTS
  p1 = p1
  p2 = p2
  c1 = c1
  c2 = c2
  t1 = t1
  t2 = t2
  t3 = t3
  t4 = t4
  Proc = {p1}
  Caller = {c1, c2}
  Home <- Together
  Codec <- OneCodec
  Token = {t1, t2, t3}
  None = None
  TTL = 2
  Lease = 2
  LoadTimeout = 2
  Outage = 1
  MaxVersion = 2
  MaxLate = 1
SYMMETRY TokenSymmetry
INVARIANTS
  NeverOlderThanTTL
PROPERTY HitsAreFresh
