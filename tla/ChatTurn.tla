------------------------------ MODULE ChatTurn ------------------------------
(***************************************************************************)
(* The chat requests of one conversation: the agent loop that asks the     *)
(* model and runs its tools (app/ai/chat/orchestration.py), the database   *)
(* transaction around it, and the event stream of POST /chat/stream, whose *)
(* generator reads from a queue what the loop, a task of its own, puts     *)
(* there (app/ai/chat/service.py).                                         *)
(*                                                                         *)
(* A step ends where the code awaits something outside the process: the    *)
(* model, a tool, the database, the client.  The session of a request      *)
(* shows its rows to nobody before _finalize commits.  Rolling summaries   *)
(* are written by another process; here one may appear at any time.        *)
(***************************************************************************)
EXTENDS Naturals, Sequences, FiniteSets

CONSTANTS
  Request,            \* the requests, each made at most once
  Streaming,          \* those made to /chat/stream, the others to /chat
  Window,             \* settings.context_window_messages
  MaxToolIterations,  \* MAX_TOOL_ITERATIONS
  MaxCalls,           \* bound: tool calls in one reply of the model
  Title,              \* titles somebody may give the conversation
  Earlier,            \* a request answered before all of these
  None                \* Python's None

ASSUME ChatTurnAssumption ==
  /\ Streaming \subseteq Request
  /\ Window \in Nat \ {0}
  /\ MaxToolIterations \in Nat \ {0}
  /\ MaxCalls \in Nat
  /\ None \notin Title \cup Request
  /\ Earlier \notin Request \cup {None}

VARIABLES
  history,    \* committed messages by created_at, each turn as inserted
  logs,       \* committed rows of tool_call_logs
  title,      \* column title
  summarized, \* is rolling_summary set?
  clock,      \* number of transactions begun by requests
  at,         \* where each request's call of run_chat_loop or _finalize is
  began,      \* start of its transaction, created_at of its messages
  isNew,      \* _ChatContext.is_new
  oldTitle,   \* conversation.title as _prepare loaded it
  context,    \* _ChatContext.history
  new,        \* new_messages
  todo,       \* tool_use blocks of the last reply still to be run
  renamed,    \* renamed_title
  pending,    \* tool_call_logs rows flushed but not committed
  generator,  \* where _stream_events is
  queue,      \* its queue of statuses, ended by None
  sent        \* events the client has got

storeVars == <<history, logs, title, summarized>>
loopVars == <<at, new, todo, renamed, pending, queue>>
requestVars == <<clock, began, isNew, oldTitle, context>>
streamVars == <<generator, sent>>
vars == <<storeVars, loopVars, requestVars, streamVars>>

Status == {"understanding", "fetching_data", "analyzing"}

(* A message of a turn.  stop is the stop_reason of the reply it came with *)
(* and is not stored by the program.  id stands for the ids of the tool    *)
(* calls in a reply, which their results repeat.                           *)
Message ==
  [turn : Request \cup {Earlier}, role : {"user", "assistant"}, id : Nat,
   stop : {"none", "end_turn", "tool_use", "max_tokens"},
   calls : Seq({"tool", "rename"}), results : Nat]

Question(r) ==
  [turn |-> r, role |-> "user", id |-> 0, stop |-> "none", calls |-> <<>>, results |-> 0]
Assistant(r, id, stop, calls) ==
  [turn |-> r, role |-> "assistant", id |-> id, stop |-> stop, calls |-> calls, results |-> 0]
Results(r, id, n) ==
  [turn |-> r, role |-> "user", id |-> id, stop |-> "none", calls |-> <<>>, results |-> n]

(* What a request gets to read of the conversation: is a summary in front, *)
(* and the messages, as a set, for the code fixes no order within a turn.  *)
Context == [summary : BOOLEAN, messages : SUBSET Message]
NoContext == [summary |-> FALSE, messages |-> {}]

(* A row of tool_call_logs.                                                *)
ToolCall == Request \X Nat \X Nat

TypeOK ==
  /\ history \in Seq(Message)
  /\ logs \subseteq ToolCall
  /\ title \in Title \cup {None}
  /\ summarized \in BOOLEAN
  /\ clock \in Nat
  /\ at \in [Request -> {"new", "prepared", "ready", "asking", "tools", "returned",
                         "raised", "committed", "answered", "closed"}]
  /\ began \in [Request -> Nat]
  /\ isNew \in [Request -> BOOLEAN]
  /\ oldTitle \in [Request -> Title \cup {None}]
  /\ context \in [Request -> Context]
  /\ new \in [Request -> Seq(Message)]
  /\ todo \in [Request -> Seq({"tool", "rename"})]
  /\ renamed \in [Request -> Title \cup {None}]
  /\ pending \in [Request -> SUBSET ToolCall]
  /\ generator \in [Request -> {"none", "created", "listening", "joining", "ended"}]
  /\ queue \in [Request -> Seq(Status \cup {"none"})]
  /\ sent \in [Request -> Seq(Status \cup {"done"})]

(* No conversation yet, or one of a single turn.                           *)
Init ==
  /\ history \in {<<>>, <<Question(Earlier), Assistant(Earlier, 1, "end_turn", <<>>)>>}
  /\ logs = {} /\ title = None /\ summarized = FALSE
  /\ clock = 0
  /\ at = [r \in Request |-> "new"]
  /\ began = [r \in Request |-> 0]
  /\ isNew = [r \in Request |-> FALSE]
  /\ oldTitle = [r \in Request |-> None]
  /\ context = [r \in Request |-> NoContext]
  /\ new = [r \in Request |-> <<>>]
  /\ todo = [r \in Request |-> <<>>]
  /\ renamed = [r \in Request |-> None]
  /\ pending = [r \in Request |-> {}]
  /\ generator = [r \in Request |-> "none"]
  /\ queue = [r \in Request |-> <<>>]
  /\ sent = [r \in Request |-> <<>>]

-----------------------------------------------------------------------------
(* Definitions whose comment begins "Mutant" are deliberate mistakes:      *)
(* each, put in the place of the definition after it, must make one of the *)
(* properties fail.                                                        *)

(* created_at: now(), the start of the transaction.                        *)
CreatedAt(message) == IF message.turn = Earlier THEN 0 ELSE began[message.turn]

StoredMessages == {history[i] : i \in 1..Len(history)}

(* The last n messages when they are ordered by created_at: of a turn that *)
(* is there only in part, any.                                             *)
Newest(n) ==
  {messages \in SUBSET StoredMessages :
     /\ Cardinality(messages) = n
     /\ \A m \in messages, k \in StoredMessages \ messages : CreatedAt(k) <= CreatedAt(m)}

(* Mutant of BuildChatContext: trims the history without a summary, too.   *)
BuildChatContextTrimmed ==
  IF Len(history) <= Window
  THEN {[summary |-> FALSE, messages |-> StoredMessages]}
  ELSE [summary : {summarized}, messages : Newest(Window)]

(* build_chat_context: the summary and the last Window messages, or all.   *)
BuildChatContext ==
  IF ~summarized \/ Len(history) <= Window
  THEN {[summary |-> FALSE, messages |-> StoredMessages]}
  ELSE [summary : {TRUE}, messages : Newest(Window)]

Stored(r) == \E i \in 1..Len(history) : history[i].turn = r

(* The request is over: its session is closed and its locals are gone,     *)
(* those of a stored turn excepted, which the properties speak of.         *)
Leave(r, how) ==
  /\ at' = [at EXCEPT ![r] = how]
  /\ pending' = [pending EXCEPT ![r] = {}]
  /\ new' = IF Stored(r) THEN new ELSE [new EXCEPT ![r] = <<>>]
  /\ todo' = [todo EXCEPT ![r] = <<>>]
  /\ renamed' = [renamed EXCEPT ![r] = None]
  /\ queue' = [queue EXCEPT ![r] = <<>>]
  /\ oldTitle' = [oldTitle EXCEPT ![r] = None]
  /\ context' = [context EXCEPT ![r] = NoContext]
  /\ began' = IF Stored(r) THEN began ELSE [began EXCEPT ![r] = 0]
  /\ isNew' = [isNew EXCEPT ![r] = FALSE]
  /\ UNCHANGED <<storeVars, clock>>

(* The session of r was closed under the loop's feet.                      *)
Abandoned(r) == r \in Streaming /\ generator[r] = "ended"

(* The id of a conversation is known to other requests once it is stored.  *)
OthersMayKnow(r) ==
  history = <<>> =>
    \A q \in Request \ {r} : at[q] \in {"new", "closed"} \/ Abandoned(q)

(* _prepare, up to the first await of run_chat_loop or, for a stream, to   *)
(* the response that will iterate the generator.                           *)
Prepare(r) ==
  /\ at[r] = "new"
  /\ OthersMayKnow(r)
  /\ clock' = clock + 1
  /\ began' = [began EXCEPT ![r] = clock + 1]
  /\ isNew' = [isNew EXCEPT ![r] = history = <<>>]
  /\ oldTitle' = [oldTitle EXCEPT ![r] = title]
  /\ \E c \in BuildChatContext : context' = [context EXCEPT ![r] = c]
  /\ IF r \in Streaming
     THEN /\ at' = [at EXCEPT ![r] = "prepared"]
          /\ generator' = [generator EXCEPT ![r] = "created"]
     ELSE /\ at' = [at EXCEPT ![r] = "ready"]
          /\ UNCHANGED generator
  /\ UNCHANGED <<storeVars, new, todo, renamed, pending, queue, sent>>

-----------------------------------------------------------------------------
(* run_chat_loop. *)

(* on_status: None for /chat, an unbounded queue for /chat/stream.         *)
Put(r, s) ==
  IF r \in Streaming THEN [queue EXCEPT ![r] = Append(@, s)] ELSE queue

(* Mutant of LoopEnds: the None is put only after a return.                *)
LoopEndsSilently(r, how) ==
  /\ at' = [at EXCEPT ![r] = how]
  /\ queue' = IF how = "returned" THEN Put(r, "none") ELSE queue

(* Mutant of LoopEnds: the queue is given the outcome instead of None.     *)
LoopEndsTelling(r, how) ==
  /\ at' = [at EXCEPT ![r] = how]
  /\ queue' = Put(r, how)

(* The loop is left; the finally clause of run() puts the None.            *)
LoopEnds(r, how) ==
  /\ at' = [at EXCEPT ![r] = how]
  /\ queue' = Put(r, "none")

Ask(r) ==
  /\ at[r] = "ready"
  /\ at' = [at EXCEPT ![r] = "asking"]
  /\ queue' = Put(r, IF new[r] = <<>> THEN "understanding" ELSE "analyzing")
  /\ UNCHANGED <<storeVars, new, todo, renamed, pending, requestVars, streamVars>>

(* The reply of which r's loop has just heard, the next of its messages.   *)
Reply(r, stop, calls) == Assistant(r, Len(new[r]) + 1, stop, calls)

(* The tool calls of one reply.  rename_conversation is offered only for a *)
(* conversation that exists.                                               *)
Calls(r) ==
  UNION {[1..n -> IF isNew[r] THEN {"tool"} ELSE {"tool", "rename"}] : n \in 1..MaxCalls}

(* The model asks for tools.                                               *)
ReplyToolUse(r) ==
  /\ at[r] = "asking"
  /\ \E calls \in Calls(r) :
       /\ new' = [new EXCEPT ![r] = Append(@, Reply(r, "tool_use", calls))]
       /\ todo' = [todo EXCEPT ![r] = calls]
  /\ at' = [at EXCEPT ![r] = "tools"]
  /\ queue' = Put(r, "fetching_data")
  /\ UNCHANGED <<storeVars, renamed, pending, requestVars, streamVars>>

(* Any other stop_reason ends the loop: an answer, or a reply that ran out *)
(* of MAX_TOKENS within tool_use blocks that nobody will run.              *)
ReplyFinal(r) ==
  /\ at[r] = "asking"
  /\ \/ new' = [new EXCEPT ![r] = Append(@, Reply(r, "end_turn", <<>>))]
     \/ \E calls \in Calls(r) :
          new' = [new EXCEPT ![r] = Append(@, Reply(r, "max_tokens", calls))]
  /\ LoopEnds(r, "returned")
  /\ UNCHANGED <<storeVars, todo, renamed, pending, requestVars, streamVars>>

ModelRaises(r) ==
  /\ at[r] = "asking"
  /\ LoopEnds(r, "raised")
  /\ UNCHANGED <<storeVars, new, todo, renamed, pending, requestVars, streamVars>>

(* rename_conversation is answered by the loop itself and not logged; the  *)
(* input may lack a title.                                                 *)
RunRename(r) ==
  /\ at[r] = "tools" /\ todo[r] # <<>> /\ Head(todo[r]) = "rename"
  /\ \E t \in Title \cup {None} : renamed' = [renamed EXCEPT ![r] = t]
  /\ todo' = [todo EXCEPT ![r] = Tail(@)]
  /\ UNCHANGED <<storeVars, at, new, pending, queue, requestVars, streamVars>>

(* The row record() writes for the call in hand: whose it is, and which    *)
(* call of which reply, which is what the properties tell apart.           *)
LogRow(r) == <<r, Len(new[r]), Len(todo[r])>>

(* Mutant of RunTool: the row of the log is committed at once.             *)
RunToolAutocommit(r) ==
  /\ at[r] = "tools" /\ todo[r] # <<>> /\ Head(todo[r]) = "tool"
  /\ ~(isNew[r] /\ Abandoned(r))
  /\ logs' = logs \cup {LogRow(r)}
  /\ todo' = [todo EXCEPT ![r] = Tail(@)]
  /\ UNCHANGED <<history, title, summarized, at, new, renamed, pending, queue,
                 requestVars, streamVars>>

(* execute_tool, then on_tool_call adds a row of the log to the session.   *)
(* A session that was closed begins another transaction, in which a        *)
(* conversation that was never committed does not exist.                   *)
RunTool(r) ==
  /\ at[r] = "tools" /\ todo[r] # <<>> /\ Head(todo[r]) = "tool"
  /\ ~(isNew[r] /\ Abandoned(r))
  /\ pending' = [pending EXCEPT ![r] = @ \cup {LogRow(r)}]
  /\ todo' = [todo EXCEPT ![r] = Tail(@)]
  /\ UNCHANGED <<storeVars, at, new, renamed, queue, requestVars, streamVars>>

(* Arguments the tool does not take, or a row the database refuses.        *)
ToolRaises(r) ==
  /\ at[r] = "tools" /\ todo[r] # <<>> /\ Head(todo[r]) = "tool"
  /\ LoopEnds(r, "raised")
  /\ UNCHANGED <<storeVars, new, todo, renamed, pending, requestVars, streamVars>>

ResultsNow(r) ==
  LET n == Len(new[r]) IN Results(r, n, Len(new[r][n].calls))

(* Mutant of AppendResults: at the limit the loop is left without them.    *)
AppendResultsUnlessLast(r) ==
  /\ at[r] = "tools" /\ todo[r] = <<>>
  /\ IF Len(new[r]) + 1 < 2 * MaxToolIterations
     THEN /\ new' = [new EXCEPT ![r] = Append(@, ResultsNow(r))]
          /\ at' = [at EXCEPT ![r] = "ready"]
          /\ UNCHANGED queue
     ELSE LoopEnds(r, "returned") /\ UNCHANGED new
  /\ UNCHANGED <<storeVars, todo, renamed, pending, requestVars, streamVars>>

(* All tools have run; the iteration ends, and at the limit the loop.      *)
AppendResults(r) ==
  /\ at[r] = "tools" /\ todo[r] = <<>>
  /\ new' = [new EXCEPT ![r] = Append(@, ResultsNow(r))]
  /\ IF Len(new'[r]) < 2 * MaxToolIterations
     THEN at' = [at EXCEPT ![r] = "ready"] /\ UNCHANGED queue
     ELSE LoopEnds(r, "returned")
  /\ UNCHANGED <<storeVars, todo, renamed, pending, requestVars, streamVars>>

LoopStep(r) ==
  \/ Ask(r)
  \/ ReplyToolUse(r)
  \/ ReplyFinal(r)
  \/ ModelRaises(r)
  \/ RunRename(r)
  \/ RunTool(r)
  \/ ToolRaises(r)
  \/ AppendResults(r)

-----------------------------------------------------------------------------
(* _finalize and the responses. *)

(* Mutant of Insert: created_at is the time of the INSERT: the answer goes *)
(* to the end, the question stays where the turn began.                    *)
InsertAtEnd(r, p) ==
  SubSeq(history, 1, p) \o <<Question(r)>>
    \o SubSeq(history, p + 1, Len(history)) \o new[r]

(* The turn of r after the first p messages.  Its own messages have one    *)
(* created_at; they are kept as they were inserted, and no reader takes    *)
(* their order for granted.                                                *)
Insert(r, p) ==
  SubSeq(history, 1, p) \o <<Question(r)>> \o new[r]
    \o SubSeq(history, p + 1, Len(history))

(* p is where messages of r's transaction belong in created_at order.      *)
Place(r, p) ==
  /\ \A i \in 1..p : CreatedAt(history[i]) < began[r]
  /\ \A i \in (p + 1)..Len(history) : CreatedAt(history[i]) > began[r]

(* Mutant of MayFinalize: the loop's task commits on its own.              *)
MayFinalizeAlone(r) == at[r] = "returned"

MayFinalize(r) ==
  /\ at[r] = "returned"
  /\ r \in Streaming => generator[r] = "joining"

(* Mutant of Finalize: the title is written back as it was loaded.         *)
FinalizeWritesBack(r) ==
  /\ MayFinalize(r)
  /\ \E p \in 0..Len(history) : Place(r, p) /\ history' = Insert(r, p)
  /\ logs' = logs \cup pending[r]
  /\ pending' = [pending EXCEPT ![r] = {}]
  /\ title' = IF renamed[r] = None THEN oldTitle[r] ELSE renamed[r]
  /\ at' = [at EXCEPT ![r] = "committed"]
  /\ UNCHANGED <<summarized, new, todo, renamed, queue, requestVars, streamVars>>

(* _finalize up to its commit.  The ORM writes the title if it differs     *)
(* from the one that was loaded.                                           *)
Finalize(r) ==
  /\ MayFinalize(r)
  /\ \E p \in 0..Len(history) : Place(r, p) /\ history' = Insert(r, p)
  /\ logs' = logs \cup pending[r]
  /\ pending' = [pending EXCEPT ![r] = {}]
  /\ title' = IF renamed[r] \in {None, oldTitle[r]} THEN title ELSE renamed[r]
  /\ at' = [at EXCEPT ![r] = "committed"]
  /\ UNCHANGED <<summarized, new, todo, renamed, queue, requestVars, streamVars>>

(* The ChatResponse of /chat, or the event that ends a stream.             *)
Respond(r) ==
  /\ at[r] = "committed"
  /\ IF r \in Streaming
     THEN /\ generator[r] = "joining"
          /\ generator' = [generator EXCEPT ![r] = "ended"]
          /\ sent' = [sent EXCEPT ![r] = Append(@, "done")]
     ELSE UNCHANGED streamVars
  /\ Leave(r, "answered")

(* The loop raised, or something between the commit and the response did:  *)
(* the session is closed.                                                  *)
Fail(r) ==
  /\ at[r] \in {"raised", "committed"}
  /\ IF r \in Streaming
     THEN /\ generator[r] = "joining"
          /\ generator' = [generator EXCEPT ![r] = "ended"]
     ELSE UNCHANGED generator
  /\ Leave(r, "closed")
  /\ UNCHANGED sent

-----------------------------------------------------------------------------
(* _stream_events. *)

(* The response asks for the first event: the task is created.             *)
StartStream(r) ==
  /\ at[r] = "prepared"
  /\ generator[r] = "created"
  /\ at' = [at EXCEPT ![r] = "ready"]
  /\ generator' = [generator EXCEPT ![r] = "listening"]
  /\ UNCHANGED <<storeVars, new, todo, renamed, pending, queue, requestVars, sent>>

SendStatus(r) ==
  /\ generator[r] = "listening"
  /\ queue[r] # <<>> /\ Head(queue[r]) # "none"
  /\ sent' = [sent EXCEPT ![r] = Append(@, Head(queue[r]))]
  /\ queue' = [queue EXCEPT ![r] = Tail(@)]
  /\ UNCHANGED <<storeVars, at, new, todo, renamed, pending, requestVars, generator>>

(* Mutant of Join: the generator stops listening as soon as the task is    *)
(* done.                                                                   *)
JoinEarly(r) ==
  /\ generator[r] = "listening"
  /\ at[r] \in {"returned", "raised"}
  /\ generator' = [generator EXCEPT ![r] = "joining"]
  /\ UNCHANGED <<storeVars, loopVars, requestVars, sent>>

(* The None: await task.                                                   *)
Join(r) ==
  /\ generator[r] = "listening"
  /\ queue[r] # <<>> /\ Head(queue[r]) = "none"
  /\ queue' = [queue EXCEPT ![r] = Tail(@)]
  /\ generator' = [generator EXCEPT ![r] = "joining"]
  /\ UNCHANGED <<storeVars, at, new, todo, renamed, pending, requestVars, sent>>

(* The client goes away: the generator is cancelled where it waits and the *)
(* session is closed.  The task runs on.                                   *)
Disconnect(r) ==
  /\ generator[r] \in {"created", "listening", "joining"}
  /\ generator' = [generator EXCEPT ![r] = "ended"]
  /\ IF at[r] \in {"prepared", "returned", "raised", "committed"}
     THEN Leave(r, "closed")
     ELSE /\ pending' = [pending EXCEPT ![r] = {}]
          /\ UNCHANGED <<storeVars, at, new, todo, renamed, queue, requestVars>>
  /\ UNCHANGED sent

(* The process of the request dies.                                        *)
Kill(r) ==
  /\ at[r] \notin {"new", "answered", "closed"}
  /\ generator' = IF r \in Streaming THEN [generator EXCEPT ![r] = "ended"] ELSE generator
  /\ Leave(r, "closed")
  /\ UNCHANGED sent

-----------------------------------------------------------------------------
(* Other parts of the program. *)

(* ConversationService.rename.                                             *)
Rename ==
  /\ history # <<>>
  /\ \E t \in Title : title' = t
  /\ UNCHANGED <<history, logs, summarized, loopVars, requestVars, streamVars>>

(* The handler of summarize_conversation: see RollingSummary.              *)
Summarize ==
  /\ ~summarized
  /\ Len(history) > Window
  /\ summarized' = TRUE
  /\ UNCHANGED <<history, logs, title, loopVars, requestVars, streamVars>>

RequestStep(r) ==
  \/ Prepare(r)
  \/ StartStream(r)
  \/ LoopStep(r)
  \/ SendStatus(r)
  \/ Join(r)
  \/ Finalize(r)
  \/ Respond(r)
  \/ Fail(r)

Next ==
  \/ \E r \in Request : RequestStep(r) \/ Disconnect(r) \/ Kill(r)
  \/ Rename
  \/ Summarize

Spec == Init /\ [][Next]_vars

(* A request that has begun goes on: the SDK and httpx end every call by a *)
(* timeout.  Task and generator are scheduled apart from each other.       *)
Fairness ==
  \A r \in Request :
    /\ WF_vars(LoopStep(r))
    /\ WF_vars(StartStream(r) \/ SendStatus(r) \/ Join(r))
    /\ WF_vars(Finalize(r) \/ Respond(r) \/ Fail(r))

FairSpec == Spec /\ Fairness

-----------------------------------------------------------------------------
Logged(r) == {e \in logs : e[1] = r}

(* What the tool-running replies of r's turn asked for, renames aside.     *)
LoggedCalls(r) ==
  {e \in {r} \X (1..Len(new[r])) \X (1..MaxCalls) :
     LET reply == new[r][e[2]]
         n == Len(reply.calls)
     IN reply.stop = "tool_use" /\ e[3] <= n /\ reply.calls[n + 1 - e[3]] = "tool"}

(* However requests overlap, fail, or lose their client, a turn is stored  *)
(* whole and in one piece or not at all, and with it exactly one log row   *)
(* for each tool it ran.                                                   *)
TurnsAreWhole ==
  \A r \in Request :
    IF Stored(r)
    THEN /\ \E p \in 0..(Len(history) - 1 - Len(new[r])) :
              /\ {history[i] : i \in (p + 1)..(p + 1 + Len(new[r]))}
                   = {Question(r)} \cup {new[r][i] : i \in 1..Len(new[r])}
              /\ \A i \in 1..Len(history) :
                   history[i].turn = r => i \in (p + 1)..(p + 1 + Len(new[r]))
         /\ Logged(r) = LoggedCalls(r)
    ELSE Logged(r) = {}

StoredTurns == {history[i].turn : i \in 1..Len(history)}

(* Pairs of turns of which some message of the first is read before some   *)
(* message of the second.                                                  *)
TurnOrder ==
  {e \in StoredTurns \X StoredTurns :
     /\ e[1] # e[2]
     /\ \E i, j \in 1..Len(history) :
          i < j /\ history[i].turn = e[1] /\ history[j].turn = e[2]}

Store == INSTANCE TurnStore WITH
  Turn <- Request \cup {Earlier},
  turns <- StoredTurns,
  before <- TurnOrder,
  rows <- [r \in Request \cup {Earlier} |-> Logged(r)]

(* The requests of a conversation implement the store of its turns: later  *)
(* commits insert whole turns and never move, split or repeat one.         *)
ImplementsTurnStore == Store!Spec

(* A commit of r's turn that finds no rename among the calls its replies   *)
(* ran leaves the title alone, whatever the user made of it since the      *)
(* request loaded the conversation: no rename by the user is lost to a     *)
(* turn whose model did not ask for another one.                           *)
RenamesSurvive ==
  [][\A r \in Request :
       ~Stored(r) /\ Stored(r)' /\ title' # title =>
         \E i \in 1..Len(new[r]) :
           new[r][i].stop = "tool_use" /\ \E k \in 1..Len(new[r][i].calls) :
             new[r][i].calls[k] = "rename"]_vars

(* The messages stored with the turn of m.                                 *)
TurnOf(m) == {k \in StoredMessages : k.turn = m.turn}

(* k has the results of the calls in m.                                    *)
Answers(k, m) == k.turn = m.turn /\ k.id = m.id /\ k.results = Len(m.calls)

(* Whatever turns are committed while a request waits for the model, and   *)
(* whichever order the database reads a turn in, the context it goes on    *)
(* sending is made of whole turns: only the oldest of them may lack        *)
(* messages, and only behind a summary.  In a whole turn the calls of      *)
(* every reply that stopped for tools have their results, at the iteration *)
(* limit as well, and there are no results without calls; in the           *)
(* request's own turn the results come right after the calls.              *)
ContextsHoldWholeTurns ==
  \A r \in Request :
    at[r] = "asking" =>
      LET read == context[r].messages IN
      /\ \A m \in read :
           \/ context[r].summary /\ \A k \in read : CreatedAt(m) <= CreatedAt(k)
           \/ /\ TurnOf(m) \subseteq read
              /\ m.stop = "tool_use" => \E k \in read : Answers(k, m)
              /\ m.results > 0 => \E k \in read : Answers(m, k)
      /\ \A i \in 1..Len(new[r]) :
           new[r][i].stop = "tool_use" => i < Len(new[r]) /\ Answers(new[r][i + 1], new[r][i])

(* The statuses run_chat_loop emits for a turn of these messages.          *)
Statuses(messages) ==
  [i \in 1..Len(messages) |->
     IF i % 2 = 0 THEN "fetching_data"
     ELSE IF i = 1 THEN "understanding" ELSE "analyzing"]

(* The event "done" is the last of the stream, comes after every status of *)
(* the turn, in order and none lost, and speaks of a turn that is stored.  *)
DoneIsComplete ==
  \A r \in Streaming :
    \A i \in 1..Len(sent[r]) :
      sent[r][i] = "done" =>
        /\ i = Len(sent[r])
        /\ Stored(r)
        /\ SubSeq(sent[r], 1, i - 1) = Statuses(new[r])

(* Once the client of a stream is gone, the task that runs on without it   *)
(* changes nothing that others can see.                                    *)
AbandonedStoresNothing ==
  [][\A r \in Streaming :
       Abandoned(r) => (Stored(r)' = Stored(r) /\ Logged(r)' = Logged(r))]_vars

(* A stream that began to listen ends, whatever its loop does: the queue   *)
(* always gets its None.                                                   *)
StreamEnds == \A r \in Streaming : generator[r] = "listening" ~> generator[r] = "ended"
=============================================================================
