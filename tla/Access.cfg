SPECIFICATION AccessSpec
CONSTANTS
  Part = {"tokens", "keys", "deliveries"}
  p1 = p1
  p2 = p2
  s1 = s1
  s2 = s2
  None = None
  Caller = {p1, p2}
  TokenKey = {"k"}
  Flight = {s1, s2}
  MaxEntries = 1
  Lifetime = 2
  Early = {1}
  MaxTokens = 2
  Verifier = {p1, p2}
  Kid = {"x", "y"}
  NoKid = "none"
  TTL = 1
  Exchange = 1
  Delivery = {p1, p2}
  Window = 1
  ConsoleLeeway = 1
  McpLead = 1
  MaxLife = 2
  MaxItems = 1
  MaxValues = 1
  Asked <- Questions
  Skew = 1
  MaxTime = 4
SYMMETRY AccessSymmetry
INVARIANTS
  VerifiedCallsOnly
PROPERTIES
  TokensKeptInOrder
  KeysServedForCause
CHECK_DEADLOCK FALSE
