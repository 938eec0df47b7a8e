SPECIFICATION FairSpec
CONSTANTS
  x = x  y = y
  Builds = {"one", "two"}
  Paths = {x}
  Files <- MCShared
  RawWeights = {"one", "two"}
  Remote = {"one"}
  Killable = {"two"}
  Concurrency = 2
  Attempts = 2
  MaxVersion = 2
  MaxFailures = 2
CHECK_DEADLOCK FALSE
INVARIANT TypeOK
INVARIANT LayerIsCurrent
INVARIANT GroupComplete
INVARIANT LockInUse
PROPERTY EveryBuildReturns
