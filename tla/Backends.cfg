SPECIFICATION Spec
CONSTANTS
  Buckets = {b1}
  Names = {n1, n2}
  NoFile = NoFile
  Outside = Outside
  Modes <- MCModes
  MaxChunk = 1
  MaxRequests = 3
  MaxSize = 4
  MaxChanges = 2
  inbox = inbox
  archive = archive
  r1 = r1
  r2 = r2
  FolderList <- MCFolderList
  Inbox = inbox
  Clients = {c1, c2}
  Recipients <- MCRecipients
  Refused = Refused
  PageSize = 1
  StartSize = 2
  MaxArrivals = 1
  MaxCalls = 2
  MaxSends = 3
SYMMETRY BackendSymmetry
INVARIANTS
  InStep
  ClientKnowsPosition
  CrashExplained
  PagesCover
  DeletesWhatWasNamed
  NotFoundIsTrue
  SentToAllOrNone
CHECK_DEADLOCK FALSE
