------------------------------ MODULE StubModel ------------------------------
(***************************************************************************)
(* The stand-in for the language model, settings.stub_claude_api           *)
(* (app/ai/llm/anthropic/stub.py), and the warehouse it asks for revenue.  *)
(*                                                                         *)
(* A question is the set of what the stub recognises in its text.  A reply *)
(* calls a tool or says something; WarehouseDown stands for the exception  *)
(* of a warehouse that cannot be reached.                                  *)
(***************************************************************************)
EXTENDS ToolCatalog

Odoo == <<"odoo">>

(* Only these combinations occur: canned questions and those about revenue *)
(* are matched as a whole.                                                 *)
Question == SUBSET {"rename", "inbound"} \cup {{"canned"}, {"revenue"}}

NoTool == "no tool"
NoResult == "no result"

Says(text) == [tool |-> NoTool, says |-> text]
CallsTool(name) == [tool |-> name, says |-> "please wait"]
WarehouseDown == [tool |-> NoTool, says |-> "exception"]

(* The texts for the first tool result of the last message.                *)
Answer ==
  [renamed |-> "renamed", NO_DATA |-> "nothing found", UPSTREAM_ERROR |-> "try later",
   SUCCESS |-> "a number", error |-> "an unknown number"]

(* Replies to a question no tool result follows yet.                       *)
FirstReplies(question, visible, allowed) ==
  IF "rename" \in question /\ "rename_conversation" \in visible
  THEN {CallsTool("rename_conversation")}
  ELSE IF "canned" \in question THEN {Says("canned")}
  ELSE IF "revenue" \in question /\ ScopeGrants(allowed, Odoo)
  THEN {Says("revenue"), WarehouseDown}
  ELSE IF "inbound" \in question /\ "get_inbound_count" \in visible
  THEN {CallsTool("get_inbound_count")}
  ELSE {Says("no answer")}

(* Mutant of StubReplies: looks for the question first.                    *)
StubRepliesAgain(question, last, visible, allowed) ==
  FirstReplies(question, visible, allowed)

(* create_stub_message: what it may return.                                *)
StubReplies(question, last, visible, allowed) ==
  IF last = NoResult THEN FirstReplies(question, visible, allowed)
  ELSE {Says(Answer[last])}
=============================================================================
