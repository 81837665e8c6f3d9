------------------------- MODULE MCIndexCoordinator -------------------------
(* IndexCoordinator for TLC. *)
EXTENDS IndexCoordinator, TLC

Symmetry == Permutations(Paths) \cup Permutations(Commits) \cup Permutations(Indexers)
=============================================================================
