SPECIFICATION IntegrationSpec
CONSTANTS
  Part = {"lifecycle", "lookups", "copies", "tags", "observer", "operator"}
  p1 = p1
  p2 = p2
  k1 = k1
  k2 = k2
  Installation = {k1, k2}
  EventID = {1, 2, 3}
  NoInstallation = NoInstallation
  MaxSequence = 3
  Catalog <- Catalogs
  Id = {"x", "y"}
  MaxInputs = 2
  Document <- Documents
  Path <- Paths
  Literal = {"s", "t", "n"}
  Text = {"s", "t"}
  Parsed = {"t"}
  MediaFile = {"m1", "m2"}
  NoFile = "-"
  Foreign <- ForeignReferences
  MaxSteps = 2
  Reader = {p1, p2}
  Tag = {k1, k2}
  Tags <- BothTags
  MaxVersion = 1
  MaxChanges = 2
  DrainBucket = {k1, k2}
  QueueSize = 2
  MaxObserved = 3
  MaxKey = 3
  DefaultPage = 1
  MaxPage = 2
  MaxMoves = 3
SYMMETRY IntegrationSymmetry
INVARIANTS
  ReceiverAtNewest
  OperatorNotMisled
  CopiesRestore
  LookupsWork
  TagsTypeOK
PROPERTIES
  ObservationsKept
  TaggedReadsAreCurrent
CHECK_DEADLOCK FALSE
