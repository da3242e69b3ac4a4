----------------------------- MODULE ApiProcess -----------------------------
(***************************************************************************)
(* One process of the API: calls of POST /chat, /chat/stream, /chat/title, *)
(* /feedback and GET /tools that come with tokens, share the pool of       *)
(* database connections, and reach the outside world through tools.        *)
(*                                                                         *)
(* ChatTurn has the storage and the events of a chat; here a chat is where *)
(* it stands, which model replies and tool results it has had, and whether *)
(* its session holds a connection.  A session takes one with its first     *)
(* statement and gives it back with the commit or when it is closed.       *)
(* A reply asks for one tool at most (bound).                              *)
(***************************************************************************)
EXTENDS StubModel, Feedback, Integers, FiniteSets

CONSTANTS
  Call,              \* the calls, each made at most once
  PoolSize,          \* connections of the engine's pool
  MaxToolIterations, \* MAX_TOOL_ITERATIONS
  Lifetime,          \* settings.jwt_expires_minutes
  AllowedScopes,     \* the scope sets somebody may have a token for
  Sends(_),          \* bound: what may be sent as each call
  None               \* an id nobody was given

ASSUME ApiProcessAssumption ==
  /\ IsFiniteSet(Call)
  /\ PoolSize \in Nat \ {0}
  /\ MaxToolIterations \in Nat \ {0}
  /\ Lifetime \in Nat \ {0}
  /\ AllowedScopes \subseteq SUBSET Seq(STRING)
  /\ None \notin Call

VARIABLES
  settings,  \* settings.stub_claude_api; are WMS URL and key set?
  at,        \* where each call is
  body,      \* what it was sent
  token,     \* the token it came with
  reply,     \* the last reply of the model
  replies,   \* how many it had
  last,      \* result of the last tool it ran
  conn,      \* does its session hold a connection?
  orphan,    \* is its client gone while the loop runs on?
  lost,      \* did it fail for want of a connection?
  stored,    \* chats whose turn is committed; their final message_id
  announced, \* those whose client was given that id
  reached    \* history: systems outside that a call made use of

entryVars == <<body, token>>
loopVars == <<reply, replies, last>>
storeVars == <<stored, announced>>
vars == <<settings, at, entryVars, loopVars, conn, orphan, lost, storeVars, reached>>

(* Bodies.  A chat may start a conversation; rename_conversation is then   *)
(* not offered.  A rating names messages and conversations by their chats. *)
Chats == [path : {"chat", "stream"}, question : Question, isNew : BOOLEAN]
Ratings == [path : {"feedback"}, message : Call \cup {None}, conversation : Call \cup {None},
            rating : Rating, reason : Reason]
Others == [path : {"tools", "title"}]
NoBody == [path |-> "none"]

(* A token when it arrives: its scopes and the minutes to its expiry.      *)
Token == [scopes : AllowedScopes, left : Int]
NoToken == [scopes |-> {}, left |-> 0]

Result == DOMAIN Answer \cup {NoResult}
ToolName == AllTools \cup {"rename_conversation", "made_up"}
Text == {"nothing yet", "text", "please wait", "canned", "revenue", "no answer"}
          \cup {Answer[result] : result \in DOMAIN Answer}
NoReply == Says("nothing yet")

Ended == {"answered", "refused", "failed", "gone"}

(* The last conjunct is the pool's: no more connections than it has.       *)
TypeOK ==
  /\ settings \in [stub : BOOLEAN, wms : BOOLEAN]
  /\ at \in [Call -> {"new", "arrived", "asking", "tools", "logging", "looped",
                      "committed", "counted", "rating"} \cup Ended]
  /\ body \in [Call -> Chats \cup Ratings \cup Others \cup {NoBody}]
  /\ token \in [Call -> Token \cup {NoToken}]
  /\ reply \in [Call -> [tool : ToolName \cup {NoTool}, says : Text]]
  /\ replies \in [Call -> 0..MaxToolIterations]
  /\ last \in [Call -> Result]
  /\ conn \in [Call -> BOOLEAN]
  /\ orphan \in [Call -> BOOLEAN]
  /\ lost \in [Call -> BOOLEAN]
  /\ announced \subseteq stored /\ stored \subseteq Call
  /\ reached \subseteq Call \X {"wms", "odoo"}
  /\ Cardinality({c \in Call : conn[c]}) <= PoolSize

Init ==
  /\ settings \in [stub : BOOLEAN, wms : BOOLEAN]
  /\ at = [c \in Call |-> "new"]
  /\ body = [c \in Call |-> NoBody]
  /\ token = [c \in Call |-> NoToken]
  /\ reply = [c \in Call |-> NoReply]
  /\ replies = [c \in Call |-> 0]
  /\ last = [c \in Call |-> NoResult]
  /\ conn = [c \in Call |-> FALSE]
  /\ orphan = [c \in Call |-> FALSE]
  /\ lost = [c \in Call |-> FALSE]
  /\ stored = {} /\ announced = {} /\ reached = {}

-----------------------------------------------------------------------------
(* Definitions whose comment begins "Mutant" are deliberate mistakes:      *)
(* each, put in the place of the definition after it, must make one of the *)
(* properties fail.                                                        *)

(* mint_token and encode_token, age minutes before the token is used.      *)
EncodeToken(scopes, age) == [scopes |-> scopes, left |-> Lifetime - age]

Minted == {EncodeToken(scopes, age) : scopes \in AllowedScopes, age \in 0..(Lifetime + 1)}

(* Mutant of DecodeToken: good for the last minute, too.                   *)
DecodeLateToken(t) == t.left >= 0

(* decode_token: is the answer not 401?                                    *)
DecodeToken(t) == t.left > 0

IsChat(c) == body[c].path \in {"chat", "stream"}

(* Mutant of Free: one connection more.                                    *)
FreeAndOne == Cardinality({c \in Call : conn[c]}) <= PoolSize

Free == Cardinality({c \in Call : conn[c]}) < PoolSize

(* The call is over; a session it had is closed, but not under an orphan.  *)
(* Its locals are gone, those excepted of which the properties speak.      *)
End(c, how) ==
  /\ at' = [at EXCEPT ![c] = how]
  /\ conn' = [conn EXCEPT ![c] = orphan[c] /\ @]
  /\ reply' = [reply EXCEPT ![c] = NoReply]
  /\ last' = [last EXCEPT ![c] = NoResult]
  /\ body' = IF IsChat(c) THEN [body EXCEPT ![c] = NoBody] ELSE body
  /\ token' = IF body[c].path = "tools" THEN token ELSE [token EXCEPT ![c] = NoToken]
  /\ reached' = {e \in reached : e[1] # c}
  /\ UNCHANGED <<settings, orphan>>

(* What clients send: of ids, those that they were given.                  *)
Bodies(c) ==
  {b \in Sends(c) \cap Chats : settings.stub \/ b.question = {}}
    \cup {b \in Sends(c) \cap Ratings : {b.message, b.conversation} \subseteq announced \cup {None}}
    \cup (Sends(c) \cap Others)

(* get_current_claims runs before any handler.                             *)
Arrive(c) ==
  /\ at[c] = "new"
  /\ \E t \in Minted :
       IF DecodeToken(t)
       THEN /\ token' = [token EXCEPT ![c] = t]
            /\ \E b \in Bodies(c) : body' = [body EXCEPT ![c] = b]
            /\ at' = [at EXCEPT ![c] = "arrived"]
       ELSE /\ at' = [at EXCEPT ![c] = "refused"]
            /\ UNCHANGED entryVars
  /\ UNCHANGED <<settings, loopVars, conn, orphan, lost, storeVars, reached>>

-----------------------------------------------------------------------------
(* Chats. *)

(* Mutant of Prepare: commits the question and gives the connection back.  *)
PrepareAndCommit(c) ==
  /\ at[c] = "arrived" /\ IsChat(c) /\ Free
  /\ at' = [at EXCEPT ![c] = "asking"]
  /\ UNCHANGED <<settings, entryVars, loopVars, conn, orphan, lost, storeVars, reached>>

(* _prepare: the connection is held from here through the model's replies. *)
Prepare(c) ==
  /\ at[c] = "arrived" /\ IsChat(c) /\ Free
  /\ at' = [at EXCEPT ![c] = "asking"]
  /\ conn' = [conn EXCEPT ![c] = TRUE]
  /\ UNCHANGED <<settings, entryVars, loopVars, orphan, lost, storeVars, reached>>

(* No such conversation, or not this user's, or deleted.                   *)
NotFound(c) ==
  /\ at[c] = "arrived" /\ IsChat(c) /\ Free
  /\ ~body[c].isNew
  /\ End(c, "refused")
  /\ UNCHANGED <<replies, lost, storeVars>>

(* The tools argument of create_message.                                   *)
Offered(c) ==
  ToolsForScopes(token[c].scopes)
    \cup (IF body[c].isNew THEN {} ELSE {"rename_conversation"})

(* A real model may say anything, and name tools it was not offered.       *)
Replies(c) ==
  IF settings.stub
  THEN StubReplies(body[c].question, last[c], Offered(c), token[c].scopes)
  ELSE {Says("text")} \cup {CallsTool(name) : name \in ToolName}

(* One iteration of the loop up to the reply: a tool is asked for, or the  *)
(* loop is left.                                                           *)
Ask(c) ==
  /\ at[c] = "asking"
  /\ \E r \in Replies(c) \ {WarehouseDown} :
       /\ reply' = [reply EXCEPT ![c] = r]
       /\ at' = [at EXCEPT ![c] = IF r.tool # NoTool THEN "tools" ELSE "looped"]
       /\ reached' = IF r = Says("revenue") THEN reached \cup {<<c, "odoo">>} ELSE reached
  /\ replies' = [replies EXCEPT ![c] = @ + 1]
  /\ UNCHANGED <<settings, entryVars, last, conn, orphan, lost, storeVars>>

(* Nobody waits for an orphan's result.                                    *)
Vanish(c) ==
  /\ at[c] = "looped" /\ orphan[c]
  /\ End(c, "gone")
  /\ UNCHANGED <<replies, lost, storeVars>>

(* Mutant of Raise: an exception leaves the session open.                  *)
RaiseOnly(c) ==
  /\ \/ at[c] = "asking"
     \/ at[c] = "tools" /\ reply[c].tool \in AllTools /\ ~settings.stub
  /\ at' = [at EXCEPT ![c] = "failed"]
  /\ UNCHANGED <<settings, entryVars, loopVars, conn, orphan, lost, storeVars, reached>>

(* The model or the warehouse cannot be reached; or the model left out an  *)
(* argument of the tool.                                                   *)
Raise(c) ==
  /\ \/ at[c] = "asking" /\ (settings.stub => WarehouseDown \in Replies(c))
     \/ /\ at[c] = "tools" /\ ~settings.stub /\ reply[c].tool \in AllTools
        /\ ScopeGrants(token[c].scopes, ToolScopes[reply[c].tool])
  /\ End(c, IF orphan[c] THEN "gone" ELSE "failed")
  /\ UNCHANGED <<replies, lost, storeVars>>

(* Mutant of Iterate: only replies that ran a tool of the catalog count.   *)
IterateFreely(c) ==
  /\ at' = [at EXCEPT ![c] = IF replies[c] = MaxToolIterations THEN "looped" ELSE "asking"]
  /\ replies' = [replies EXCEPT ![c] =
                   IF reply[c].tool = "rename_conversation" THEN @ - 1 ELSE @]

(* for iteration in range(MAX_TOOL_ITERATIONS).                            *)
Iterate(c) ==
  /\ at' = [at EXCEPT ![c] = IF replies[c] = MaxToolIterations THEN "looped" ELSE "asking"]
  /\ UNCHANGED replies

RunRename(c) ==
  /\ at[c] = "tools" /\ reply[c].tool = "rename_conversation"
  /\ last' = [last EXCEPT ![c] = "renamed"]
  /\ Iterate(c)
  /\ UNCHANGED <<settings, entryVars, reply, conn, orphan, lost, storeVars, reached>>

RunTool(c) ==
  /\ at[c] = "tools" /\ reply[c].tool # "rename_conversation"
  /\ at' = [at EXCEPT ![c] = "logging"]
  /\ last' = [last EXCEPT ![c] = ExecuteTool(reply[c].tool, token[c].scopes, settings.wms)]
  /\ reached' = IF last'[c] = "error" THEN reached ELSE reached \cup {<<c, "wms">>}
  /\ UNCHANGED <<settings, entryVars, reply, replies, conn, orphan, lost, storeVars>>

(* on_tool_call flushes a row of the log.  The session of an orphan was    *)
(* closed and takes a connection again; if the conversation was new it was *)
(* rolled back, the foreign key refuses the row and the loop is left.      *)
Log(c) ==
  /\ at[c] = "logging"
  /\ conn[c] \/ Free
  /\ conn' = [conn EXCEPT ![c] = TRUE]
  /\ IF orphan[c] /\ body[c].isNew
     THEN at' = [at EXCEPT ![c] = "looped"] /\ UNCHANGED replies
     ELSE Iterate(c)
  /\ UNCHANGED <<settings, entryVars, reply, last, orphan, lost, storeVars, reached>>

(* Mutant of Commit: the response overtakes the transaction.               *)
CommitLater(c) ==
  /\ at[c] = "looped"
  /\ announced' = announced \cup {c}
  /\ at' = [at EXCEPT ![c] = "counted"]
  /\ UNCHANGED <<settings, entryVars, loopVars, conn, orphan, lost, stored, reached>>

(* _finalize: the commit gives the connection back ...                     *)
Commit(c) ==
  /\ at[c] = "looped" /\ ~orphan[c]
  /\ stored' = stored \cup {c}
  /\ at' = [at EXCEPT ![c] = "committed"]
  /\ conn' = [conn EXCEPT ![c] = FALSE]
  /\ UNCHANGED <<settings, entryVars, loopVars, orphan, lost, announced, reached>>

(* ... and the count of the messages takes one again.                      *)
Count(c) ==
  /\ at[c] = "committed" /\ Free
  /\ at' = [at EXCEPT ![c] = "counted"]
  /\ conn' = [conn EXCEPT ![c] = TRUE]
  /\ UNCHANGED <<settings, entryVars, loopVars, orphan, lost, storeVars, reached>>

Respond(c) ==
  /\ at[c] = "counted"
  /\ announced' = announced \cup {c}
  /\ End(c, "answered")
  /\ UNCHANGED <<replies, lost, stored>>

(* The client of a stream goes away: its session is closed; a loop that is *)
(* running runs on.                                                        *)
Disconnect(c) ==
  /\ body[c].path = "stream" /\ ~orphan[c]
  /\ IF at[c] \in {"asking", "tools", "logging"}
     THEN /\ orphan' = [orphan EXCEPT ![c] = TRUE]
          /\ conn' = [conn EXCEPT ![c] = FALSE]
          /\ UNCHANGED <<settings, at, entryVars, reply, last, reached>>
     ELSE /\ at[c] \in {"looped", "committed", "counted"}
          /\ End(c, "gone")
  /\ UNCHANGED <<replies, lost, storeVars>>

(* The session an orphan left is collected, and with it its connection.    *)
Collect(c) ==
  /\ at[c] = "gone" /\ conn[c]
  /\ conn' = [conn EXCEPT ![c] = FALSE]
  /\ UNCHANGED <<settings, at, entryVars, loopVars, orphan, lost, storeVars, reached>>

-----------------------------------------------------------------------------
(* The other endpoints. *)

AnswerTools(c) ==
  /\ at[c] = "arrived" /\ body[c].path = "tools"
  /\ End(c, "answered")
  /\ UNCHANGED <<replies, lost, storeVars>>

(* generate_title: one call of the model, no session.                      *)
AnswerTitle(c) ==
  /\ at[c] = "arrived" /\ body[c].path = "title"
  /\ End(c, "answered") \/ (~settings.stub /\ End(c, "failed"))
  /\ UNCHANGED <<replies, lost, storeVars>>

Accepted(c) == ServiceAccepts(body[c].rating, body[c].reason)

RefuseRating(c) ==
  /\ at[c] = "arrived" /\ body[c].path = "feedback" /\ ~Accepted(c)
  /\ End(c, "refused")
  /\ UNCHANGED <<replies, lost, storeVars>>

(* The flush of the new row: if the table refuses it nobody handles that.  *)
InsertRating(c) ==
  /\ at[c] = "arrived" /\ body[c].path = "feedback" /\ Accepted(c)
  /\ Free
  /\ IF TableAccepts(body[c].rating, body[c].reason, body[c].message, stored,
                     body[c].conversation, stored)
     THEN /\ at' = [at EXCEPT ![c] = "rating"]
          /\ conn' = [conn EXCEPT ![c] = TRUE]
          /\ UNCHANGED <<settings, entryVars, reply, last, orphan, reached>>
     ELSE End(c, "failed")
  /\ UNCHANGED <<replies, lost, storeVars>>

CommitRating(c) ==
  /\ at[c] = "rating"
  /\ End(c, "answered")
  /\ UNCHANGED <<replies, lost, storeVars>>

(* The next statement of the call needs a connection it does not have.     *)
Waits(c) ==
  /\ ~conn[c]
  /\ \/ at[c] = "arrived" /\ IsChat(c)
     \/ at[c] = "arrived" /\ body[c].path = "feedback" /\ Accepted(c)
     \/ at[c] \in {"logging", "committed"}

(* The pool's timeout: TimeoutError, unhandled.                            *)
PoolTimeout(c) ==
  /\ Waits(c) /\ ~Free
  /\ lost' = [lost EXCEPT ![c] = TRUE]
  /\ End(c, IF orphan[c] THEN "gone" ELSE "failed")
  /\ UNCHANGED <<replies, storeVars>>

(* What the process does for a call once it has come.                      *)
Serve(c) ==
  \/ Prepare(c)
  \/ NotFound(c)
  \/ Ask(c)
  \/ Raise(c)
  \/ RunRename(c)
  \/ RunTool(c)
  \/ Log(c)
  \/ Vanish(c)
  \/ Commit(c)
  \/ Count(c)
  \/ Respond(c)
  \/ AnswerTools(c)
  \/ AnswerTitle(c)
  \/ RefuseRating(c)
  \/ InsertRating(c)
  \/ CommitRating(c)
  \/ PoolTimeout(c)

Next ==
  \/ \E c \in Call : Arrive(c) \/ Serve(c) \/ Disconnect(c) \/ Collect(c)

Spec == Init /\ [][Next]_vars

(* Calls to the model and the warehouse end by a timeout, waiting for the  *)
(* pool does too, and the garbage collector runs.                          *)
Fairness == \A c \in Call : WF_vars(Serve(c)) /\ WF_vars(Collect(c))

FairSpec == Spec /\ Fairness
-----------------------------------------------------------------------------
(* Safety. *)

(* Scopes that cover a system outside, by the tree they form.              *)
Covering ==
  [wms |-> {<<"*">>, <<"wms">>, <<"wms", ".", "inb", "ound">>}, odoo |-> {<<"*">>, <<"odoo">>}]

(* Whatever tools the model names, in whichever iteration, the WMS and the *)
(* warehouse are only reached for calls that came with a token that was    *)
(* then valid and has a scope that covers them.                            *)
OutsideIsGranted ==
  \A e \in reached :
    /\ token[e[1]].left > 0
    /\ token[e[1]].scopes \cap Covering[e[2]] # {}

(* The stub's conversations settle: the answer comes with the second reply *)
(* at the latest, is never the empty one of the iteration limit and never  *)
(* has to make do with a tool that would not run: what tools_for_scopes    *)
(* offers, execute_tool executes.                                          *)
StubSettles ==
  settings.stub =>
    \A c \in Call :
      /\ replies[c] <= 2
      /\ at[c] \in {"looped", "committed", "counted"} /\ ~orphan[c] =>
           reply[c].tool = NoTool /\ reply[c].says # "an unknown number"

(* A tool that GET /tools showed to the bearer of some scopes does run in  *)
(* any chat with the same scopes.                                          *)
ShownIsRunnable ==
  \A c, d \in Call :
    at[c] = "answered" /\ body[c].path = "tools" /\ token[c].scopes = token[d].scopes
      /\ at[d] = "logging" /\ last[d] = "error"
    => reply[d].tool \notin ListTools(token[c].scopes, "wms")

(* A rating that the table takes if its message and conversation are there *)
Storable(b) ==
  TableAccepts(b.rating, b.reason, b.message, {b.message}, b.conversation, {b.conversation})

(* A rating with ids the client was given, of a message and a conversation *)
(* that need not be the same chat's, and with values the table takes, is   *)
(* stored unless there is no connection: the service never refuses it, and *)
(* both are there.                                                         *)
RatingsReachTheTable ==
  \A c \in Call :
    LET b == body[c] IN
    b.path = "feedback" /\ None \notin {b.message, b.conversation}
      /\ at[c] \in {"refused", "failed"} /\ ~lost[c]
      => ~Storable(b)

(* A chat that fails for want of a connection has not asked the model yet, *)
(* or has its turn stored: no reply is lost to a full pool.                *)
NoReplyIsLostToThePool ==
  \A c \in Call : at[c] = "failed" /\ lost[c] => replies[c] = 0 \/ c \in stored

-----------------------------------------------------------------------------
(* Liveness. *)

(* Every call that came is answered, refused or given up.                  *)
CallsEnd == \A c \in Call : at[c] = "arrived" ~> at[c] \in Ended

(* However calls end, every connection comes back to the pool.             *)
ConnectionsComeBack == \A c \in Call : conn[c] ~> ~conn[c]
=============================================================================
