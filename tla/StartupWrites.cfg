SPECIFICATION Spec
CONSTANTS
  a = a
  b = b
  s = s
  None = None
  Boards = {a, b, s}
  Counted = {a, s}
  Skipped = {s}
  Script <- Recurring
  Polled <- PolledOne
  Retries = 2
  Window = 1
  MissThreshold = 2
  WritesMayFail = TRUE
  MaxBuffered = 1
INVARIANT StartedMeansAppliedAlways
CHECK_DEADLOCK FALSE
