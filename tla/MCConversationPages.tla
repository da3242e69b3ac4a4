------------------------- MODULE MCConversationPages -------------------------
(***************************************************************************)
(* ConversationPages with small sets for TLC.                              *)
(***************************************************************************)
EXTENDS ConversationPages, TLC

MCSymmetry == Permutations(Turn) \cup Permutations(Conversation)
=============================================================================
