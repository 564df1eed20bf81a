SPECIFICATION Spec
CONSTANTS
  f1 = f1
  f2 = f2
  Files <- OneFile
  Names <- OneName
  NamePrefix <- NoPrefixes
  Grace = 1
  MaxAge = 1
  MaxCount = 1
  MaxTime = 2
  MaxDuration = 0
  MaxFailures = 0
  Modes = {"differential"}
  KeepFlags = {FALSE}
  SnapshotOwners = {"medusa"}
  Overlap = TRUE
  PurgeRunning = TRUE
  ConcurrentBackups = FALSE
  SortedListing = TRUE
  AtomicUploads = TRUE
  IndexLoss = FALSE
CHECK_DEADLOCK FALSE
INVARIANTS
  FreshUploadsSurvive
PROPERTIES
  GraceRespected
