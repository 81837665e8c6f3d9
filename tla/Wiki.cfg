CONSTANTS
  Generators = {g, h}
  Readers = {r}
  Slugs = {overview, other}
  other = other
  Bootstrap = overview
  Asked <- AskedPages
  MaxHead = 2
  MaxRuns = 2
  MaxReads = 1
  MaxCrashes = 1
SPECIFICATION Spec
CHECK_DEADLOCK FALSE
INVARIANTS TypeOK ActiveIsLive SurveyReadyIsCurrent NeverAheadOfItsText
PROPERTY TextOutlivesPage
