\* One repository of a provider, one of the user, and a crash.
CONSTANTS
  Owned = {g}
  Local = {l}
  Configured = {}
  Commits = {c1, c2}
  MaxMoves = 1
  MaxCrashes = 1
SPECIFICATION FairSpec
INVARIANTS NoOrphanCheckout ReadyMatchesCheckout ErrorHasCause
PROPERTIES OnlyRemovalUncatalogues EveryRowIsTried
CHECK_DEADLOCK FALSE
