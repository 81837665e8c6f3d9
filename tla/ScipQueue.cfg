\* Two repositories and two workers: what is asked for while it is listed or built.
CONSTANTS
  Repositories = {r1, r2}
  Commits = {c1}
  Workers = {w1, w2}
  Callers = {k1, k2}
  Failures = TRUE
  MaxReindexes = 2
  MaxRetries = 1
  MaxRestarts = 1
  MaxSweeps = 0
SPECIFICATION Spec
SYMMETRY Symmetry
CHECK_DEADLOCK FALSE
PROPERTIES ImplementsWorkQueue
