SPECIFICATION PlatformSpec
CONSTANTS
  Part = {"calls", "edits", "publication", "sync"}
  p1 = p1
  p2 = p2
  Client = {p1, p2}
  RetryCount = 1
  MaxIds = 1
  MaxAstray = 1
  Editor = {p1, p2}
  EditOperation = {"e"}
  NoOperation = NoOperation
  Contract = {1, 2}
  MaxRevision = 2
  MaxAdrift = 1
  Job = {p1, p2}
  OperationID = {1, 2}
  JobCalls <- Publications
  MaxLate = 1
  Release <- Releases
  NoRelease = NoRelease
  NoId = NoId
  Replica = {p1, p2}
  Manifest <- Manifests
  MaxAttempts = 2
  MaxPages = 1
SYMMETRY PlatformSymmetry
INVARIANTS
  CallsAnsweredTruly
  SyncedAsDeclared
PROPERTIES
  PublishedAsClaimed
  EditsKeptApart
CHECK_DEADLOCK FALSE
