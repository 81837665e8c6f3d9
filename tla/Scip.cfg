\* One repository, two workers, every failure, a retry, a restart and a sweep.
CONSTANTS
  Repositories = {r1}
  Commits = {c1, c2}
  Workers = {w1, w2}
  Callers = {k1}
  Failures = TRUE
  MaxReindexes = 2
  MaxRetries = 1
  MaxRestarts = 1
  MaxSweeps = 1
SPECIFICATION FairSpec
CHECK_DEADLOCK FALSE
INVARIANTS SettledIsCurrent
PROPERTIES ImplementsWorkQueue EventuallySettled
