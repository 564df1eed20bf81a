SPECIFICATION FairSpec
CONSTANTS
  a1 = a1
  a2 = a2
  a3 = a3
  b1 = b1
  b2 = b2
  b3 = b3
  Nodes <- MCNodes
  Sections <- MCSections
  PeersTables = {"peers", "peers_v2"}
  Scenarios <- AllScenarios
  Confirmed <- Executed
  ParallelRestores = 3
  MaxRuns = 2
  MaxFaults = 2
CHECK_DEADLOCK FALSE
INVARIANTS
  BatchInvariant
  MappingSound
  DoneIsRestored
  UnrequestedKept
  FailsForAReason
PROPERTIES
  WipedOnlyWhenDown
  StartsWhole
  SeedsFirst
  RestoredOnce
  RestoreEnds
