CONSTANTS
  Producers = {p1, p2}
  Flushers = {f}
  Stopper = s
  Capacity = 2
  Batch = 2
  MaxSpans = 6
SPECIFICATION FairSpec

INVARIANTS ShutdownFlushes
CHECK_DEADLOCK FALSE
