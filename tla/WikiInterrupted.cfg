CONSTANTS
  Generators = {g}
  Readers = {r}
  Slugs = {overview, other}
  other = other
  Bootstrap = overview
  Asked <- AskedPages
  MaxHead = 2
  MaxRuns = 2
  MaxReads = 1
  MaxCrashes = 0
SPECIFICATION Spec
CHECK_DEADLOCK FALSE
PROPERTY ReadyWasNotInterrupted
