SPECIFICATION FairSpec
CONSTANTS
  f1 = f1
  f2 = f2
  Files <- OneFile
  Names <- OneName
  NamePrefix <- NoPrefixes
  Grace = 1
  MaxAge = 0
  MaxCount = 1
  MaxTime = 1
  MaxDuration = 1
  MaxFailures = 1
  Modes = {"full", "differential"}
  KeepFlags = {TRUE, FALSE}
  SnapshotOwners = {"medusa", "operator"}
  Overlap = FALSE
  PurgeRunning = FALSE
  ConcurrentBackups = FALSE
  SortedListing = TRUE
  AtomicUploads = FALSE
  IndexLoss = TRUE
INVARIANTS
  ManifestIsLast
PROPERTIES
  CommandsEnd
