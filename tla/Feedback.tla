------------------------------ MODULE Feedback ------------------------------
(***************************************************************************)
(* POST /feedback: what FeedbackService.add refuses and what the table     *)
(* feedback takes (app/feedback/service.py, models.py; the constraints are *)
(* those of migration 0001).                                               *)
(***************************************************************************)

Null == "null"  \* Python's None, SQL's NULL

(* The reasons the table lists, of which one stands for all, the empty     *)
(* text and a text that is not listed.                                     *)
ListedReason == {"reasonOther"}
Reason == {Null, "", "unlisted"} \cup ListedReason
Rating == {"up", "down", "sideways"}

(* Mutant of ServiceAccepts: a reason is asked of every rating.            *)
ServiceAsksReason(rating, reason) ==
  rating \in {"up", "down"} /\ reason \notin {Null, ""}

(* The two checks that are answered with 400.                              *)
ServiceAccepts(rating, reason) ==
  /\ rating \in {"up", "down"}
  /\ rating = "down" => reason \notin {Null, ""}

(* The CHECKs of the table, and the foreign keys to a committed message    *)
(* and a committed conversation, which need not be the message's own.      *)
TableAccepts(rating, reason, message, messages, conversation, conversations) ==
  /\ rating \in {"up", "down"}
  /\ reason \in ListedReason \cup {Null}
  /\ rating = "up" \/ reason # Null
  /\ message \in messages /\ conversation \in conversations
=============================================================================
