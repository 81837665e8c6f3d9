\* One repository, two commits, every failure, a stop; it can go away for good.
CONSTANTS
  Paths = {p1}
  Commits = {c1, c2}
  Indexers = {i1, i2}
  Identity = TRUE
  Failures = TRUE
  MaxChanges = 2
  MaxRefreshes = 3
  MaxStops = 1
SPECIFICATION Spec
SYMMETRY Symmetry
CHECK_DEADLOCK FALSE
INVARIANTS SingleIndexer NoLostPending IndexingIsOwned ReadyMatchesShards
