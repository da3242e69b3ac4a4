-------------------------- MODULE MCSummaryPipeline -------------------------
(***************************************************************************)
(* SummaryPipeline with small sets for TLC.                                *)
(***************************************************************************)
EXTENDS SummaryPipeline
=============================================================================
