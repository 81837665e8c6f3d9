-------------------------- MODULE MCConversationFiles --------------------------
(* Finite instances of ConversationFiles. *)
EXTENDS ConversationFiles, TLC

Symmetry == Permutations(Appends) \cup Permutations(Conversations) \cup Permutations(Deletes)
=============================================================================
