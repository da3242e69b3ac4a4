----------------------------- MODULE MCJobQueue -----------------------------
(***************************************************************************)
(* JobQueue with small sets for TLC.  Runners and conversations are        *)
(* interchangeable; jobs are ordered and are not.                          *)
(***************************************************************************)
EXTENDS JobQueue, TLC

CONSTANTS w1, w2, c1, c2

MCWorker == {w1, w2}
MCConversation == {c1, c2}

MCSymmetry == Permutations(MCWorker) \cup Permutations(MCConversation)
=============================================================================
