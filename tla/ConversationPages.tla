-------------------------- MODULE ConversationPages --------------------------
(***************************************************************************)
(* GET /conversations and GET /conversations/{id}/messages, read page by   *)
(* page (app/conversations/service.py, repository.py) while turns of       *)
(* chats are committed and conversations deleted.                          *)
(*                                                                         *)
(* Both lists are ordered by a time and an id, latest first.  The cursor   *)
(* the client hands back is the id of the last row it got; its place is    *)
(* looked up again for the next page.  Every SELECT is a step of its own.  *)
(* A row's id is a random UUID: rank tells how it compares with the ids of *)
(* the rows of the same time.                                              *)
(***************************************************************************)
EXTENDS Naturals, Sequences

CONSTANTS
  Conversation, \* the conversations of one user
  Turn,         \* requests to /chat, each made at most once
  Limits,       \* values of limit that the client may choose
  None          \* Python's None

Id == Conversation \cup (Turn \X {1, 2})
Row == [id : Id, at : Nat, rank : Nat, shown : BOOLEAN]

ASSUME PagesAssumption ==
  /\ Limits \subseteq Nat \ {0}
  /\ None \notin Id \cup Row
  /\ "conversations" \notin Conversation

VARIABLES
  clock,      \* the time, as often as somebody looks at it
  lastActive, \* column last_active_at, 0 until the conversation is stored
  deleted,    \* conversations with a deleted_at
  messages,   \* committed messages of each conversation
  turn,       \* "new", "open" (in its transaction) or "over"
  chat,       \* the conversation of each turn
  began,      \* start of its transaction: created_at of its messages
  reader,     \* where the client's requests for pages are
  list,       \* what it reads: "conversations", or one conversation
  after,      \* next_cursor of the last response
  bound,      \* the cursor's row as looked up for this request
  got,        \* rows the client has got, in that order
  due,        \* ids of the rows to be shown that were there when it began
  touched     \* conversations committed to or deleted since it began

storeVars == <<clock, lastActive, deleted, messages, turn, chat, began>>
readerVars == <<reader, list, after, bound, got, due>>
vars == <<storeVars, readerVars, touched>>

TypeOK ==
  /\ clock \in Nat
  /\ lastActive \in [Conversation -> Nat]
  /\ deleted \subseteq Conversation
  /\ messages \in [Conversation -> SUBSET Row]
  /\ turn \in [Turn -> {"new", "open", "over"}]
  /\ chat \in [Turn -> Conversation \cup {None}]
  /\ began \in [Turn -> Nat]
  /\ reader \in {"idle", "asking", "allowed", "reading", "done", "refused"}
  /\ list \in Conversation \cup {"conversations"}
  /\ after \in Id \cup {None}
  /\ bound \in Row \cup {None}
  /\ got \in Seq(Row)
  /\ due \subseteq Id
  /\ touched \subseteq Conversation

Init ==
  /\ clock = 0
  /\ lastActive = [c \in Conversation |-> 0]
  /\ deleted = {}
  /\ messages = [c \in Conversation |-> {}]
  /\ turn = [t \in Turn |-> "new"]
  /\ chat = [t \in Turn |-> None]
  /\ began = [t \in Turn |-> 0]
  /\ reader = "idle"
  /\ list = "conversations"
  /\ after = None
  /\ bound = None
  /\ got = <<>>
  /\ due = {}
  /\ touched = {}

-----------------------------------------------------------------------------
(* Writers. *)

Listed == {c \in Conversation : lastActive[c] > 0} \ deleted

(* _prepare: the chat of a stored conversation or of a new one, whose id   *)
(* no other request can know.                                              *)
BeginTurn(t, c) ==
  /\ turn[t] = "new"
  /\ c \in Listed \/ (lastActive[c] = 0 /\ \A u \in Turn : chat[u] # c)
  /\ turn' = [turn EXCEPT ![t] = "open"]
  /\ chat' = [chat EXCEPT ![t] = c]
  /\ clock' = clock + 1
  /\ began' = [began EXCEPT ![t] = clock + 1]
  /\ UNCHANGED <<lastActive, deleted, messages, readerVars, touched>>

(* Definitions whose comment begins "Mutant" are deliberate mistakes:      *)
(* each, put in the place of the definition after it, must make one of the *)
(* properties fail.                                                        *)

(* Mutant of TurnRows: created_at is left NULL.                            *)
TurnRowsUndated(t, rank, answerShown) ==
  {[id |-> <<t, i>>, at |-> None, rank |-> rank[i],
    shown |-> i = 1 \/ answerShown] : i \in {1, 2}}

(* A question and its answer, which share a created_at.  An answer without *)
(* text is stored and not shown.                                           *)
TurnRows(t, rank, answerShown) ==
  {[id |-> <<t, i>>, at |-> began[t], rank |-> rank[i],
    shown |-> i = 1 \/ answerShown] : i \in {1, 2}}

(* _finalize: it does not ask whether the conversation was deleted.        *)
CommitTurn(t) ==
  /\ turn[t] = "open"
  /\ turn' = [turn EXCEPT ![t] = "over"]
  /\ \E rank \in {<<1, 2>>, <<2, 1>>}, answerShown \in BOOLEAN :
       messages' = [messages EXCEPT ![chat[t]] = @ \cup TurnRows(t, rank, answerShown)]
  /\ clock' = clock + 1
  /\ lastActive' = [lastActive EXCEPT ![chat[t]] = clock + 1]
  /\ touched' = touched \cup {chat[t]}
  /\ UNCHANGED <<deleted, chat, began, readerVars>>

AbortTurn(t) ==
  /\ turn[t] = "open"
  /\ turn' = [turn EXCEPT ![t] = "over"]
  /\ UNCHANGED <<clock, lastActive, deleted, messages, chat, began, readerVars, touched>>

Delete(c) ==
  /\ c \in Listed
  /\ deleted' = deleted \cup {c}
  /\ touched' = touched \cup {c}
  /\ UNCHANGED <<clock, lastActive, messages, turn, chat, began, readerVars>>

-----------------------------------------------------------------------------
Rows ==
  IF list = "conversations"
  THEN {[id |-> c, at |-> lastActive[c], rank |-> 0, shown |-> TRUE] : c \in Listed}
  ELSE messages[list]

(* Mutant of Below: the time alone is compared.                            *)
BelowByTime(r, b) == b = None \/ r.at < b.at

(* Mutant of Below: the row of the cursor is taken again.                  *)
BelowOrEqual(r, b) ==
  \/ b = None
  \/ r.at < b.at
  \/ r.at = b.at /\ r.rank <= b.rank

(* (at, id) < cursor, if there is one.                                     *)
Below(r, b) ==
  \/ b = None
  \/ r.at < b.at
  \/ r.at = b.at /\ r.rank < b.rank

Later(q, r) == q.at > r.at \/ (q.at = r.at /\ q.rank > r.rank)

(* Sequences of at most n of these rows, each after those that are later.  *)
Sorted(rows, n) ==
  {s \in UNION {[1..k -> rows] : k \in 0..n} :
     \A i, j \in DOMAIN s : i < j => Later(s[i], s[j])}

RowsOf(s) == {s[i] : i \in DOMAIN s}

(* WHERE (at, id) < cursor ORDER BY at DESC, id DESC LIMIT n: rows are left *)
(* out only by a full page, and only such as come after it.                *)
Page(n) ==
  LET rows == {r \in Rows : Below(r, bound)}
  IN {s \in Sorted(rows, n) :
        \A r \in rows \ RowsOf(s) : Len(s) = n /\ \A q \in RowsOf(s) : Later(q, r)}

(* The rows of a page that are shown, in the same order.                   *)
Shown(page) ==
  LET rows == {r \in RowsOf(page) : r.shown}
  IN {s \in Sorted(rows, Len(page)) : RowsOf(s) = rows}

(* Mutant of NextCursor: rows are counted after those not shown are gone.  *)
NextCursorOfShown(page, n) ==
  IF Len(page) = n /\ \A r \in RowsOf(page) : r.shown THEN page[n].id ELSE None

(* A full page may not be the last one.                                    *)
NextCursor(page, n) == IF Len(page) = n THEN page[Len(page)].id ELSE None

(* The client asks for the first page of the conversations or of the       *)
(* messages of one.                                                        *)
StartReading(l) ==
  /\ reader = "idle"
  /\ reader' = "asking"
  /\ list' = l
  /\ due' = IF l = "conversations" THEN Listed ELSE {r.id : r \in {m \in messages[l] : m.shown}}
  /\ touched' = {}
  /\ UNCHANGED <<storeVars, after, bound, got>>

(* exists_owned, for messages only; otherwise 404.                         *)
CheckOwned ==
  /\ reader = "asking"
  /\ reader' = IF list \in Listed \cup {"conversations"} THEN "allowed" ELSE "refused"
  /\ UNCHANGED <<storeVars, list, after, bound, got, due, touched>>

(* get_conversation_cursor or get_message_cursor.                          *)
ReadCursor ==
  /\ reader = "allowed"
  /\ IF after = None
     THEN bound' = None
     ELSE \E r \in Rows : r.id = after /\ bound' = r
  /\ reader' = "reading"
  /\ UNCHANGED <<storeVars, list, after, got, due, touched>>

(* The cursor's row is no longer listed: 400.                              *)
CursorGone ==
  /\ reader = "allowed"
  /\ after # None
  /\ \A r \in Rows : r.id # after
  /\ reader' = "refused"
  /\ UNCHANGED <<storeVars, list, after, bound, got, due, touched>>

(* list_for_user_page or list_messages_page, and the response.             *)
ReadPage(n) ==
  /\ reader = "reading"
  /\ \E page \in Page(n) :
       /\ \E rows \in Shown(page) : got' = got \o rows
       /\ after' = NextCursor(page, n)
  /\ reader' = IF after' = None THEN "done" ELSE "asking"
  /\ UNCHANGED <<storeVars, list, bound, due, touched>>

Next ==
  \/ \E t \in Turn :
       \/ \E c \in Conversation : BeginTurn(t, c)
       \/ CommitTurn(t)
       \/ AbortTurn(t)
  \/ \E c \in Conversation : Delete(c)
  \/ \E l \in Conversation \cup {"conversations"} :
       (l = "conversations" \/ l \in Listed) /\ StartReading(l)
  \/ CheckOwned
  \/ ReadCursor
  \/ CursorGone
  \/ \E n \in Limits : ReadPage(n)

Spec == Init /\ [][Next]_vars

-----------------------------------------------------------------------------
GotIds == {got[i].id : i \in 1..Len(got)}
GotOnce == \A i, j \in 1..Len(got) : got[i].id = got[j].id => i = j

(* Reading messages page by page, whatever limits the client chooses and   *)
(* whichever turns are committed meanwhile, in whatever order: no message  *)
(* comes twice, and when there is no next_cursor every message that could  *)
(* be shown when the reading began has come.                               *)
MessagesComeOnce ==
  list # "conversations" =>
    /\ GotOnce
    /\ reader = "done" => due \subseteq GotIds

(* Reading conversations: one that is neither deleted nor committed to in  *)
(* the meantime is not left out, and none comes twice unless a             *)
(* conversation the client already had was.                                *)
UntouchedAreListed ==
  list = "conversations" =>
    /\ reader = "done" => (due \ touched) \subseteq GotIds
    /\ GotOnce \/ GotIds \cap touched # {}

(* Messages come latest first, the answer of a turn before its question:   *)
(* tests/test_conversations.py:173 expects the reverse of the order in     *)
(* which they were added.                                                  *)
AnswerComesFirst ==
  \A i, j \in 1..Len(got) :
    (list # "conversations" /\ i < j /\ got[i].id[1] = got[j].id[1]) =>
      got[i].id[2] > got[j].id[2]
=============================================================================
