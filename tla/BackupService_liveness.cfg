SPECIFICATION FairSpec
CONSTANTS
  r1 = r1
  r2 = r2
  p1 = p1
  p2 = p2
  NoRun = NoRun
  Names = {"b1"}
  Runs <- OneRun
  Polls <- OnePoll
  Kinds = {"async", "sync"}
  Deletes = TRUE
  MaxRestarts = 1
PROPERTIES
  RequestsEnd
