--------------------------- MODULE MCMapArtifacts ---------------------------
(* Finite instances of MapArtifacts. *)
EXTENDS MapArtifacts, TLC

Symmetry == Permutations(Observers) \cup Permutations(Requests)
=============================================================================
