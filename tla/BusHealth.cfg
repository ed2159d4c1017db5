SPECIFICATION Spec
CONSTANTS
  miss = miss
  fault = fault
  hostThread = hostThread
  busThread = busThread
  Kinds = {miss, fault}
  ChainMiss = miss
  Threads = {hostThread, busThread}
  Bus = busThread
  Size = 3
  Interval = 2
  Threshold = 2
  MaxTime = 4
  MaxEvents = 5
INVARIANTS TypeOK Accounting RecentIsTail RateLimited HealthAddsUp
CHECK_DEADLOCK FALSE
