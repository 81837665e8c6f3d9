\* A sweep with a list that is older than the build.
CONSTANTS
  Repositories = {r1}
  Commits = {c1, c2}
  Workers = {w1}
  Callers = {k1}
  Failures = FALSE
  MaxReindexes = 2
  MaxRetries = 0
  MaxRestarts = 0
  MaxSweeps = 1
SPECIFICATION Spec
CHECK_DEADLOCK FALSE
INVARIANTS CurrentArtifactsPreserved
