----------------------------- MODULE TurnStore -----------------------------
(***************************************************************************)
(* What the storage of one conversation promises to its readers: its turns *)
(* are in one piece each, in an order that is never rearranged, each comes *)
(* at most once, in one step, and its rows of the tool log with it.        *)
(***************************************************************************)
CONSTANT Turn

VARIABLES
  turns,  \* the stored turns
  before, \* pairs of turns: something of the first is read before the second
  rows    \* the log rows of each turn

vars == <<turns, before, rows>>

(* Two turns that were interleaved would each be before the other.         *)
StrictOrders(S) ==
  {R \in SUBSET (S \X S) :
     /\ \A s, t \in S : s # t => (<<s, t>> \in R <=> <<t, s>> \notin R)
     /\ \A s \in S : <<s, s>> \notin R
     /\ \A s, t, u \in S : <<s, t>> \in R /\ <<t, u>> \in R => <<s, u>> \in R}

Init ==
  /\ turns \in {{}} \cup {{t} : t \in Turn}
  /\ before = {}
  /\ rows = [t \in Turn |-> {}]

(* The commit of t's request.                                              *)
Store(t) ==
  /\ t \notin turns
  /\ turns' = turns \cup {t}
  /\ before' \in StrictOrders(turns')
  /\ before' \cap (turns \X turns) = before
  /\ \A u \in Turn \ {t} : rows'[u] = rows[u]

Next == \E t \in Turn : Store(t)

Spec == Init /\ [][Next]_vars
=============================================================================
