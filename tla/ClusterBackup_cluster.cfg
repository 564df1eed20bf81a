SPECIFICATION FairSpec
CONSTANTS
  h1 = h1
  h2 = h2
  h3 = h3
  Hosts <- MCHosts
  Address <- MCAddress
  DataCentre <- OneCentre
  InitialRing <- AllButLast
  NumJobs = 2
  ParallelSnapshots = 1
  ParallelUploads = 2
  HandmadeOn <- NotOnLast
  Options <- PlainThenBoth
  OverlappingJobs = FALSE
  MaxFaults = 1
  MaxMoves = 1
CHECK_DEADLOCK FALSE
INVARIANTS
  SerialInvariant
  CompleteIsOneCut
  CleanedUp
PROPERTIES
  DoneIsComplete
  CutBeforeUpload
  OnlyGonePurged
  JobsEnd
