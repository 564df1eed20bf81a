SPECIFICATION Spec
CONSTANTS
  f1 = f1
  f2 = f2
  Files <- OneFile
  Names <- MCNames
  NamePrefix <- NoPrefixes
  Grace = 1
  MaxAge = 0
  MaxCount = 1
  MaxTime = 1
  MaxDuration = 1
  MaxFailures = 1
  Modes = {"differential"}
  KeepFlags = {FALSE}
  SnapshotOwners = {"medusa"}
  Overlap = FALSE
  PurgeRunning = FALSE
  ConcurrentBackups = FALSE
  SortedListing = TRUE
  AtomicUploads = TRUE
  IndexLoss = TRUE
PROPERTIES
  CleanupSparesIndexed
