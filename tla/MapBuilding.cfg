CONSTANTS
  Observers = {o}
  Requests = {r}
  Signatures = {1, 2}
  FirstRow = 2
  MaxMoves = 2
SPECIFICATION Spec
INVARIANTS BuildingIsUnderway
CHECK_DEADLOCK FALSE
