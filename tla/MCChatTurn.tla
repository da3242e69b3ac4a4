------------------------------ MODULE MCChatTurn -----------------------------
(***************************************************************************)
(* ChatTurn with small sets for TLC.                                       *)
(***************************************************************************)
EXTENDS ChatTurn
=============================================================================
