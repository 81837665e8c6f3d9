----------------------------- MODULE MCJavaScip -----------------------------
(* JavaScip for TLC. *)
EXTENDS JavaScip, TLC

Symmetry ==
  Permutations(Repositories) \cup Permutations(Commits)
    \cup Permutations(Workers) \cup Permutations(Callers)
=============================================================================
