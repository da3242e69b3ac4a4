--------------------------- MODULE MCRollingSummary -------------------------
(***************************************************************************)
(* RollingSummary with small sets for TLC; requests and handlers are       *)
(* interchangeable.                                                        *)
(***************************************************************************)
EXTENDS RollingSummary, TLC

MCSymmetry == Permutations(Chat) \cup Permutations(Handler)
=============================================================================
