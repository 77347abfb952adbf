SPECIFICATION LiveSpec
CONSTANTS
  Part = {"tokens", "lifecycle", "observer", "calls", "sync", "tags"}
  p1 = p1
  p2 = p2
  k1 = k1
  s1 = s1
  s2 = s2
  None = None
  Caller = {p1, p2}
  TokenKey = {p1, p2}
  Flight = {s1}
  MaxEntries = 1
  Lifetime = 1
  Early = {1}
  MaxTokens = 1
  Installation = {p1, p2}
  EventID = {1, 2}
  NoInstallation = None
  MaxSequence = 2
  Verifier = {p1}
  Kid = {k1}
  NoKid = None
  TTL = 1
  Exchange = 1
  Job = {p1}
  OperationID = {s1}
  JobCalls = {}
  MaxLate = 0
  Release = {}
  NoRelease = None
  NoId = None
  DrainBucket = {p1, p2}
  QueueSize = 1
  MaxObserved = 2
  MaxKey = 0
  DefaultPage = 1
  MaxPage = 1
  MaxMoves = 0
  Client = {p1}
  RetryCount = 1
  MaxIds = 1
  MaxAstray = 1
  Editor = {p1}
  EditOperation = {s1}
  NoOperation = None
  Contract = {1}
  MaxRevision = 0
  MaxAdrift = 0
  Document <- OneDocument
  Path <- OnePath
  Literal = {"s"}
  Text = {"s"}
  Parsed = {"s"}
  MediaFile = {"m"}
  NoFile = "-"
  Foreign = {}
  MaxSteps = 0
  Delivery = {p1}
  Window = 1
  ConsoleLeeway = 1
  McpLead = 1
  MaxLife = 1
  MaxItems = 1
  MaxValues = 1
  Asked = {}
  Skew = 0
  MaxTime = 0
  Catalog <- OneCatalog
  Id = {"x"}
  MaxInputs = 1
  Replica = {p1}
  Manifest <- TwoManifests
  MaxAttempts = 3
  MaxPages = 1
  Reader = {p1}
  Tag = {"a", "b"}
  Tags <- BothTags
  MaxVersion = 1
  MaxChanges = 2
PROPERTIES
  StreamMovesForward
  ServicesEnd
CHECK_DEADLOCK FALSE
