SPECIFICATION FairSpec
CONSTANTS
  a = a
  b = b
  s = s
  None = None
  Boards = {a, b, s}
  Counted = {a, s}
  Skipped = {s}
  Script <- Alternating
  Polled <- PolledOne
  Retries = 2
  Window = 1
  MissThreshold = 2
  WritesMayFail = TRUE
  MaxBuffered = 2
INVARIANTS TypeOK StartedMeansApplied VirtualByChoice EarlyAbortIsExact
PROPERTY StartupEnds
CHECK_DEADLOCK FALSE
