CONSTANTS
  Repositories = {r1, r2, r3}
  Producers = {p1, p2}
  Workers = {w1, w2}
  SignalCapacity = 2
SPECIFICATION FairSpec
PROPERTIES QueuedIsObserved ImplementsWorkQueue
CHECK_DEADLOCK FALSE
