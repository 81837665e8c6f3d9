--------------------------- MODULE MCDerivedQueue ---------------------------
(* Finite instances of DerivedQueue. *)
EXTENDS DerivedQueue, TLC

Symmetry ==
  Permutations(Repositories) \cup Permutations(Producers) \cup Permutations(Workers)
=============================================================================
