\* A commit that arrives while an older one is indexed.
CONSTANTS
  Paths = {p1}
  Commits = {c1, c2}
  Indexers = {i1}
  Identity = FALSE
  Failures = FALSE
  MaxChanges = 1
  MaxRefreshes = 1
  MaxStops = 0
SPECIFICATION Spec

CHECK_DEADLOCK FALSE
INVARIANTS QuietIsCurrent
