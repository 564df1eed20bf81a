SPECIFICATION Spec
CONSTANTS
  r1 = r1
  r2 = r2
  p1 = p1
  p2 = p2
  NoRun = NoRun
  Names = {"b1"}
  Runs <- TwoRuns
  Polls <- TwoPolls
  Kinds = {"async", "sync"}
  Deletes = FALSE
  MaxRestarts = 1
SYMMETRY RunSymmetry
INVARIANTS
  ServiceInvariant
  SuccessIsComplete
  PollTellsEnd
