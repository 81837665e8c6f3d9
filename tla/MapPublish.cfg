CONSTANTS
  Observers = {o}
  Requests = {r}
  Signatures = {1, 2}
  FirstRow = 2
  MaxMoves = 1
SPECIFICATION FairSpec
INVARIANTS TypeOK PreparedIsServed SnapshotsCollected
CHECK_DEADLOCK FALSE
PROPERTIES OnlyCrossedHang
