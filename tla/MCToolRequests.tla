--------------------------- MODULE MCToolRequests ---------------------------
(***************************************************************************)
(* ToolRequests with small sets for TLC.                                   *)
(***************************************************************************)
EXTENDS ToolRequests

MCSymmetry == Permutations(Call) \cup Permutations(Value)
=============================================================================
