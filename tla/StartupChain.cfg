SPECIFICATION Spec
CONSTANTS
  a = a
  b = b
  s = s
  None = None
  Boards = {a, b, s}
  Counted = {a, s}
  Skipped = {s}
  Script <- Recurring
  Polled <- PolledAll
  Retries = 2
  Window = 1
  MissThreshold = 2
  WritesMayFail = FALSE
  MaxBuffered = 1
INVARIANT ChainSpansVirtualBoards
CHECK_DEADLOCK FALSE
