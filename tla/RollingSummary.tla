--------------------------- MODULE RollingSummary ---------------------------
(***************************************************************************)
(* One conversation, the chat requests that append turns to it             *)
(* (app/ai/chat/service.py) and the executions of summarize_conversation   *)
(* that fold its old messages into rolling_summary (app/jobs/handlers.py). *)
(* When handlers run is left open: any of them may start at any time, as   *)
(* often as it likes, and may raise at any time.  SummaryPipeline puts the *)
(* job queue in charge of that.                                            *)
(*                                                                         *)
(* A message is <<t, i>>, the i-th of the turn whose transaction began at  *)
(* time t.  Its created_at is now(), PostgreSQL's transaction start, so    *)
(* "order by created_at" is the order of t and not that of the commits.    *)
(* A summary is the sequence of the messages that were folded into it.     *)
(***************************************************************************)
EXTENDS Integers, Sequences

CONSTANTS
  Chat,       \* requests that may be in flight together
  Handler,    \* handler executions that may be in flight together
  Window,     \* settings.context_window_messages
  Trigger,    \* settings.summary_trigger_messages
  TurnSize,   \* how many messages a turn may store
  Reply,      \* what client.summarize may get: "text", "no_text"
  MaxTurns    \* bound: how many turns are ever begun

ASSUME RollingSummaryAssumption ==
  /\ Window \in Nat
  /\ Trigger \in Nat
  /\ TurnSize \subseteq Nat \ {0}
  /\ Reply \subseteq {"text", "no_text"}
  /\ MaxTurns \in Nat

VARIABLES
  messages,   \* committed rows of messages, in the order every reader sees
  summary,    \* column rolling_summary
  count,      \* column summarized_through_count
  deleted,    \* column deleted_at is set
  clock,      \* number of turns begun
  chat,       \* where each request is
  began,      \* start time of its transaction
  staleCount, \* conversation.summarized_through_count as _prepare loaded it
  handler,    \* where each handler execution is
  already,    \* its local variable already
  previous,   \* conversation.rolling_summary as it loaded it
  toFold,     \* its local variable to_fold
  disturbed   \* history: a turn went below an older one, or a reply had no text

rowVars == <<messages, summary, count, deleted>>
chatVars == <<clock, chat, began, staleCount>>
handlerVars == <<handler, already, previous, toFold>>
vars == <<rowVars, chatVars, handlerVars, disturbed>>

Message == (0..MaxTurns) \X Nat

TypeOK ==
  /\ messages \in Seq(Message)
  /\ summary \in Seq(Message)
  /\ count \in Nat
  /\ deleted \in BOOLEAN
  /\ clock \in 0..MaxTurns
  /\ chat \in [Chat -> {"idle", "asking", "committed", "enqueuing"}]
  /\ began \in [Chat -> 0..MaxTurns]
  /\ staleCount \in [Chat -> Nat]
  /\ handler \in [Handler -> {"idle", "started", "loaded", "asking", "returned"}]
  /\ already \in [Handler -> Nat]
  /\ previous \in [Handler -> Seq(Message)]
  /\ toFold \in [Handler -> Seq(Message)]
  /\ disturbed \in BOOLEAN

Init ==
  /\ messages = <<>>
  /\ summary = <<>>
  /\ count = 0
  /\ deleted = FALSE
  /\ clock = 0
  /\ chat = [c \in Chat |-> "idle"]
  /\ began = [c \in Chat |-> 0]
  /\ staleCount = [c \in Chat |-> 0]
  /\ handler = [h \in Handler |-> "idle"]
  /\ already = [h \in Handler |-> 0]
  /\ previous = [h \in Handler |-> <<>>]
  /\ toFold = [h \in Handler |-> <<>>]
  /\ disturbed = FALSE

-----------------------------------------------------------------------------
(* The definitions whose comment begins "Mutant" are deliberate mistakes:  *)
(* each, put in the place of the definition after it, must make one of the *)
(* properties fail.                                                        *)

(* The request's next place; its local variables end with it.              *)
Leave(c) ==
  /\ chat' = [chat EXCEPT ![c] = "idle"]
  /\ began' = [began EXCEPT ![c] = 0]
  /\ staleCount' = [staleCount EXCEPT ![c] = 0]

(* _prepare.  Only the request that creates a conversation knows it before *)
(* its first commit; later ones need it not to be deleted.  SELECT of the  *)
(* conversation: expire_on_commit=False keeps the loaded count.            *)
Prepare(c) ==
  /\ chat[c] = "idle"
  /\ clock < MaxTurns
  /\ ~deleted
  /\ messages = <<>> => \A d \in Chat : chat[d] = "idle"
  /\ clock' = clock + 1
  /\ chat' = [chat EXCEPT ![c] = "asking"]
  /\ began' = [began EXCEPT ![c] = clock + 1]
  /\ staleCount' = [staleCount EXCEPT ![c] = count]
  /\ UNCHANGED <<rowVars, handlerVars, disturbed>>

Turn(t, n) == [i \in 1..n |-> <<t, i>>]

(* p is where the turn begun at t belongs in the order of created_at.      *)
Precede(t, p) ==
  /\ \A i \in 1..p : messages[i][1] < t
  /\ \A i \in (p + 1)..Len(messages) : messages[i][1] > t

(* The model answered (run_chat_loop) and _finalize commits the turn.      *)
CommitTurn(c) ==
  /\ chat[c] = "asking"
  /\ \E n \in TurnSize : \E p \in 0..Len(messages) :
       /\ Precede(began[c], p)
       /\ messages' = SubSeq(messages, 1, p) \o Turn(began[c], n)
                        \o SubSeq(messages, p + 1, Len(messages))
       /\ disturbed' = (disturbed \/ p < Len(messages))
  /\ chat' = [chat EXCEPT ![c] = "committed"]
  /\ UNCHANGED <<summary, count, deleted, clock, began, staleCount, handlerVars>>

(* Mutant of NeedsFold: waits for a whole window beyond the summary.       *)
NeedsFoldLater(c) ==
  /\ Len(messages) > Trigger
  /\ Len(messages) - staleCount[c] > Window + Window

(* total is counted afresh, the summarized count is the loaded one.        *)
NeedsFold(c) ==
  /\ Len(messages) > Trigger
  /\ Len(messages) - staleCount[c] >= Window

(* _finalize after its commit, and the decision to enqueue.                *)
CountTotal(c) ==
  /\ chat[c] = "committed"
  /\ NeedsFold(c)
  /\ chat' = [chat EXCEPT ![c] = "enqueuing"]
  /\ UNCHANGED <<rowVars, clock, began, staleCount, handlerVars, disturbed>>

(* Or not to.                                                              *)
NoFoldNeeded(c) ==
  /\ chat[c] = "committed"
  /\ ~NeedsFold(c)
  /\ Leave(c)
  /\ UNCHANGED <<rowVars, clock, handlerVars, disturbed>>

(* The enqueue and its commit; the response is returned.                   *)
Enqueued(c) ==
  /\ chat[c] = "enqueuing"
  /\ Leave(c)
  /\ UNCHANGED <<rowVars, clock, handlerVars, disturbed>>

(* The request raises, its client goes away or its process dies.  Before   *)
(* the commit the turn is rolled back, after it only the enqueue is lost.  *)
AbortChat(c) ==
  /\ chat[c] # "idle"
  /\ Leave(c)
  /\ UNCHANGED <<rowVars, clock, handlerVars, disturbed>>

(* ConversationRepository.delete is a soft delete of a committed row.      *)
Delete ==
  /\ messages # <<>>
  /\ ~deleted
  /\ deleted' = TRUE
  /\ UNCHANGED <<messages, summary, count, chatVars, handlerVars, disturbed>>

-----------------------------------------------------------------------------
(* The handler's next place; its local variables end with its work.        *)
Goto(h, place) == handler' = [handler EXCEPT ![h] = place]

Forget(h) ==
  /\ already' = [already EXCEPT ![h] = 0]
  /\ previous' = [previous EXCEPT ![h] = <<>>]
  /\ toFold' = [toFold EXCEPT ![h] = <<>>]

Start(h) ==
  /\ handler[h] = "idle"
  /\ Goto(h, "started")
  /\ UNCHANGED <<rowVars, chatVars, already, previous, toFold, disturbed>>

(* get_by_id, first statement: the conversation row.                       *)
LoadConversation(h) ==
  /\ handler[h] = "started"
  /\ ~deleted
  /\ already' = [already EXCEPT ![h] = count]
  /\ previous' = [previous EXCEPT ![h] = summary]
  /\ Goto(h, "loaded")
  /\ UNCHANGED <<rowVars, chatVars, toFold, disturbed>>

(* get_by_id returned None.                                                *)
ConversationGone(h) ==
  /\ handler[h] = "started"
  /\ deleted
  /\ Goto(h, "returned")
  /\ UNCHANGED <<rowVars, chatVars, already, previous, toFold, disturbed>>

(* Mutant of FoldLimit: folds the window as well.                          *)
FoldEverything(h) == IF Len(messages) > already[h] THEN Len(messages) ELSE already[h]

(* max(len(messages) - window, already)                                    *)
FoldLimit(h) ==
  IF Len(messages) - Window > already[h] THEN Len(messages) - Window ELSE already[h]

(* get_by_id, second statement (selectinload), and the slice to_fold.      *)
LoadMessages(h) ==
  /\ handler[h] = "loaded"
  /\ FoldLimit(h) > already[h]
  /\ toFold' = [toFold EXCEPT ![h] = SubSeq(messages, already[h] + 1, FoldLimit(h))]
  /\ Goto(h, "asking")
  /\ UNCHANGED <<rowVars, chatVars, already, previous, disturbed>>

(* The slice is empty.                                                     *)
NothingToFold(h) ==
  /\ handler[h] = "loaded"
  /\ FoldLimit(h) = already[h]
  /\ Goto(h, "returned")
  /\ Forget(h)
  /\ UNCHANGED <<rowVars, chatVars, disturbed>>

(* Mutant of WriteBack: the count is advanced from the current row.        *)
WriteBackIncrement(h) ==
  /\ handler[h] = "asking"
  /\ summary' = previous[h] \o toFold[h]
  /\ count' = count + Len(toFold[h])
  /\ Goto(h, "returned")
  /\ Forget(h)
  /\ UNCHANGED <<messages, deleted, chatVars, disturbed>>

(* Mutant of WriteBack: the count is what the fold left behind.            *)
WriteBackNegated(h) ==
  /\ handler[h] = "asking"
  /\ summary' = previous[h] \o toFold[h]
  /\ count' = already[h] - Len(toFold[h])
  /\ Goto(h, "returned")
  /\ Forget(h)
  /\ UNCHANGED <<messages, deleted, chatVars, disturbed>>

(* client.summarize replied and the session commits.  The ORM writes the   *)
(* columns that differ from what was loaded.  A reply without text gives   *)
(* back the loaded summary, so only the count is written; before the first *)
(* fold that summary is NULL and "" is written in its place.               *)
WriteBack(h) ==
  /\ handler[h] = "asking"
  /\ \/ /\ "text" \in Reply
        /\ summary' = previous[h] \o toFold[h]
        /\ UNCHANGED disturbed
     \/ /\ "no_text" \in Reply
        /\ summary' = IF already[h] = 0 THEN <<>> ELSE summary
        /\ disturbed' = TRUE
  /\ count' = already[h] + Len(toFold[h])
  /\ Goto(h, "returned")
  /\ Forget(h)
  /\ UNCHANGED <<messages, deleted, chatVars>>

(* run_once settles the job: after a return with mark_done, after an       *)
(* exception with mark_failed; or the process dies, at any point.          *)
EndHandler(h) ==
  /\ handler[h] # "idle"
  /\ Goto(h, "idle")
  /\ Forget(h)
  /\ UNCHANGED <<rowVars, chatVars, disturbed>>

ChatStep(c) ==
  \/ Prepare(c)
  \/ CommitTurn(c)
  \/ CountTotal(c)
  \/ NoFoldNeeded(c)
  \/ Enqueued(c)
  \/ AbortChat(c)

HandlerStep(h) ==
  \/ Start(h)
  \/ LoadConversation(h)
  \/ ConversationGone(h)
  \/ LoadMessages(h)
  \/ NothingToFold(h)
  \/ WriteBack(h)
  \/ EndHandler(h)

Next ==
  \/ \E c \in Chat : ChatStep(c)
  \/ \E h \in Handler : HandlerStep(h)
  \/ Delete

Spec == Init /\ [][Next]_vars

-----------------------------------------------------------------------------
(* Of n summarized messages none is among the last Window.                 *)
LeavesWindow(n) == n > 0 => n <= Len(messages) - Window

(* The last Window messages are never counted as summarized, however many  *)
(* turns and handlers overlap and whichever of them commits last: the raw  *)
(* messages build_chat_context sends and the summary never overlap.        *)
CountKeepsWindow == LeavesWindow(count)

(* The strengthening that is inductive: a handler holds no larger count.   *)
HandlersKeepWindow ==
  \A h \in Handler :
    /\ LeavesWindow(already[h])
    /\ handler[h] = "asking" => LeavesWindow(already[h] + Len(toFold[h]))

(* The summary covers exactly the messages the count says: the first ones, *)
(* each once and in order, although handlers overlap, raise, are run again *)
(* and write in any order.  Only a turn that commits after a younger one   *)
(* or a reply without text can break this.                                 *)
SummaryIsPrefix == ~disturbed => summary = SubSeq(messages, 1, count)
=============================================================================
