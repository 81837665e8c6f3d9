--------------------------- MODULE MCConversations ---------------------------
(* Finite instances of Conversations. *)
EXTENDS Conversations, TLC

Symmetry == Permutations(Turns)
=============================================================================
