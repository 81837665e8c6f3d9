\* Every pending repository is indexed.
CONSTANTS
  Paths = {p1}
  Commits = {c1, c2}
  Indexers = {i1, i2}
  Identity = FALSE
  Failures = FALSE
  MaxChanges = 2
  MaxRefreshes = 1
  MaxStops = 1
SPECIFICATION FairSpec

CHECK_DEADLOCK FALSE
PROPERTIES PendingIsIndexed
