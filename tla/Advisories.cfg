CONSTANTS
  p1 = p1
  p2 = p2
  a1 = a1
  a2 = a2
  a3 = a3
  Packages = {p1, p2}
  Advisories = {a1, a2, a3}
  Osv <- OsvAnswers
  Workers = {w1, w2}
  BatchSize = 2
  MaxPackages = 2
  MaxAdvisories = 3
  Star = 9
  Affected <- AffectedBy
  Name <- SameName
  Withdrawn = {a3}
  Inventories <- AskedInventories
  Questions <- AskedAdvisories
  Versions <- AskedVersions
SPECIFICATION FindingsSpec
INVARIANTS CompleteIsWhole ReadyIsClean
  FindingsAreTrue RangesAreExact
PROPERTIES RefreshEnds ExpiredIsRefreshed
