------------------------------- MODULE Scopes -------------------------------
(***************************************************************************)
(* scope_grants of app/ai/tools/catalog.py.  A scope is the sequence of    *)
(* the pieces of its text that comparisons tell apart: <<"wms", ".",       *)
(* "inb", "ound">> has <<"wms">> above it, and <<"wms", ".", "inb">> is a  *)
(* prefix of it only as text.                                              *)
(***************************************************************************)
EXTENDS Naturals, Sequences

IsPrefixOf(s, t) == Len(s) <= Len(t) /\ SubSeq(t, 1, Len(s)) = s

(* Mutant of Grants: startswith(granted) without the dot.                  *)
GrantsAnyPrefix(granted, required) ==
  granted = <<"*">> \/ IsPrefixOf(granted, required)

(* scope_grants for one granted scope.                                     *)
Grants(granted, required) ==
  \/ granted = <<"*">>
  \/ granted = required
  \/ IsPrefixOf(Append(granted, "."), required)

ScopeGrants(allowed, required) == \E granted \in allowed : Grants(granted, required)
=============================================================================
