SPECIFICATION FairSpec
CHECK_DEADLOCK FALSE
CONSTANTS
    Files <- MCFiles
    Contents <- MCContents
    Scenarios <- MCScenarios
    Providers = {"s3", "google", "azure", "local"}
    ConcurrentTransfers = 2
    MaxAttempts = 3
    SingleUploadSize = 2
    MultipartChunksize = 3
    PartSize = 2
    MultipartThreshold = 3
    MaxFaults = 3
INVARIANTS TransfersInvariant ReturnedIsDone FailsForAReason VerifyTells
PROPERTIES NoLateWrites CallsEnd
