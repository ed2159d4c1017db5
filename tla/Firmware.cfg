SPECIFICATION FairSpec
CONSTANTS
  Chunks = 2
  Attempts = 2
  RepeatOk = TRUE
  Mappings = 1
  Replies = 2
  Overlapping = FALSE
  MaxCalls = 4
  MaxBuffered = 3
INVARIANT TypeOK AckedMeansStaged IntrusionBounded
PROPERTY KeepsPromise UpdateReturns
