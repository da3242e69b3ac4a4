---------------------------- MODULE MCApiProcess ----------------------------
(***************************************************************************)
(* ApiProcess with small sets for TLC.                                     *)
(***************************************************************************)
EXTENDS ApiProcess

CONSTANTS k1, k2

(* A parent of the tool's scope, a prefix of it only as text, and another  *)
(* system's.                                                               *)
MCAllowedScopes == {{<<"wms">>}, {<<"wms", ".", "inb">>}, {<<"odoo">>}}

(* One call may be any chat; the other lists, rates, or continues some     *)
(* conversation.                                                           *)
MCSends(c) ==
  IF c = k1 THEN Chats
  ELSE Others \cup Ratings
         \cup {b \in Chats : b.path = "chat" /\ ~b.isNew /\ b.question \in {{"inbound"}, {}}}
=============================================================================
