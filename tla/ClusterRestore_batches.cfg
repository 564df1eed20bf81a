SPECIFICATION Spec
CONSTANTS
  a1 = a1
  a2 = a2
  a3 = a3
  b1 = b1
  b2 = b2
  b3 = b3
  Nodes <- MCNodes
  Sections <- MCSections
  PeersTables = {"peers", "peers_v2"}
  Scenarios <- OnlyRemote
  Confirmed <- OnlyRemote
  ParallelRestores = 1
  MaxRuns = 2
  MaxFaults = 0
CHECK_DEADLOCK FALSE
INVARIANT DoneIsRestored
