----------------------- MODULE ConversationPagesProofs -----------------------
(***************************************************************************)
(* Proofs about ConversationPages, for any conversations, turns and limits *)
(* the client may choose.                                                  *)
(*                                                                         *)
(* The inductive invariant says of the rows the client has got that they   *)
(* are a prefix of the list it reads, down to the cursor: what is due and  *)
(* has not come is below the cursor.  A list of messages only grows, so    *)
(* this is about all its rows; in the list of conversations rows move, and *)
(* it is about those that stayed where they were.                          *)
(***************************************************************************)
EXTENDS ConversationPages, SequenceTheorems, TLAPS

(* Times are unique to their turn or conversation.                         *)
TimesInv ==
  /\ \A t \in Turn : turn[t] # "new" => chat[t] \in Conversation /\ began[t] \in 1..clock
  /\ \A t, u \in Turn : turn[t] # "new" /\ turn[u] # "new" /\ began[t] = began[u] => t = u
  /\ \A c \in Conversation : lastActive[c] \in 0..clock
  /\ \A c, d \in Conversation : lastActive[c] = lastActive[d] /\ lastActive[c] > 0 => c = d

StoredOf(m) ==
  \E t \in Turn, i \in {1, 2} : m.id = <<t, i>> /\ turn[t] = "over" /\ m.at = began[t]

(* Rows of a conversation differ in their ids and in their places.         *)
Unique(rows) ==
  \A m, q \in rows : (m.id = q.id \/ (m.at = q.at /\ m.rank = q.rank)) => m = q

MessageRowsInv ==
  \A c \in Conversation : (\A m \in messages[c] : StoredOf(m)) /\ Unique(messages[c])

Descending(s) == \A i, j \in 1..Len(s) : i < j => Later(s[i], s[j])

ReaderInv ==
  /\ reader = "idle" => list = "conversations" /\ due = {} /\ after = None
  /\ after = None /\ reader # "done" => got = <<>>
  /\ reader = "done" => after = None
  /\ reader = "reading" /\ after = None => bound = None

(* A message that is still to come.                                        *)
ToCome(m) ==
  /\ reader # "done"
  /\ after = None \/ \E q \in messages[list] : q.id = after /\ Later(q, m)

MessagesInv ==
  list # "conversations" =>
    /\ RowsOf(got) \subseteq messages[list]
    /\ Descending(got)
    /\ after # None =>
         \E q \in messages[list] : q.id = after /\ \A r \in RowsOf(got) : r = q \/ Later(r, q)
    /\ reader = "reading" /\ after # None => bound \in messages[list] /\ bound.id = after
    /\ \A id \in due :
         \E m \in messages[list] : m.id = id /\ m.shown /\ (m \in RowsOf(got) \/ ToCome(m))

(* A conversation nobody touched that is still to come.                    *)
Awaited(c) ==
  /\ reader # "done"
  /\ \/ after = None
     \/ /\ lastActive[c] < lastActive[after]
        /\ reader = "reading" => lastActive[c] < bound.at

(* What the client has got is the list from its top, as long as nobody     *)
(* touched any of it.                                                      *)
TopOfList ==
  /\ Descending(got)
  /\ \A r \in RowsOf(got) : r.at = lastActive[r.id]
  /\ after # None => \A r \in RowsOf(got) : r.at >= lastActive[after]
  /\ reader = "reading" /\ after # None => bound.at = lastActive[after]

ConversationsInv ==
  list = "conversations" =>
    /\ due \subseteq Conversation
    /\ \A r \in RowsOf(got) : r.id \in Conversation /\ r.rank = 0
    /\ after # None => after \in Conversation /\ after \in GotIds
    /\ reader = "reading" /\ after # None => bound # None /\ bound.rank = 0
    /\ \A c \in due \ touched : c \in Listed /\ (c \in GotIds \/ Awaited(c))
    /\ GotIds \cap touched = {} => TopOfList

IndInv ==
  /\ TypeOK
  /\ TimesInv
  /\ MessageRowsInv
  /\ ReaderInv
  /\ MessagesInv
  /\ ConversationsInv

-----------------------------------------------------------------------------
(* Places in a list. *)

LEMMA LaterIsOrder ==
  ASSUME NEW q \in Row, NEW r \in Row, NEW s \in Row
  PROVE  /\ ~Later(q, q)
         /\ Later(q, r) => ~Later(r, q)
         /\ Later(q, r) /\ Later(r, s) => Later(q, s)
         /\ Later(q, r) => q # r
BY DEF Row, Later

(* The rows after a cursor.                                                *)
LEMMA BelowIs ==
  ASSUME NEW r \in Row, NEW b \in Row
  PROVE  b # None /\ (Below(r, b) <=> Later(b, r))
BY PagesAssumption DEF Row, Below, Later

LEMMA RowsAre ==
  ASSUME NEW S, NEW s \in Seq(S)
  PROVE  /\ Len(s) \in Nat
         /\ RowsOf(s) = {s[i] : i \in 1..Len(s)}
         /\ RowsOf(s) \subseteq S
BY DEF RowsOf

LEMMA SortedIs ==
  ASSUME NEW S, NEW n \in Nat, NEW s \in Sorted(S, n)
  PROVE  s \in Seq(S) /\ Len(s) \in 0..n /\ Descending(s)
<1>1. PICK k \in 0..n : s \in [1..k -> S]
  BY DEF Sorted
<1>2. s \in Seq(S) /\ Len(s) = k /\ DOMAIN s = 1..k
  BY <1>1
<1> QED
  BY <1>2 DEF Sorted, Descending

(* One list, and another whose rows come after all of it.                  *)
LEMMA DescendingJoined ==
  ASSUME NEW s \in Seq(Row), NEW t \in Seq(Row), Descending(s), Descending(t),
         \A x \in RowsOf(s), y \in RowsOf(t) : Later(x, y)
  PROVE  /\ s \o t \in Seq(Row)
         /\ Descending(s \o t)
         /\ RowsOf(s \o t) = RowsOf(s) \cup RowsOf(t)
<1> DEFINE u == s \o t
<1>1. /\ u \in Seq(Row) /\ Len(u) = Len(s) + Len(t)
      /\ \A i \in 1..(Len(s) + Len(t)) : u[i] = IF i <= Len(s) THEN s[i] ELSE t[i - Len(s)]
  BY ConcatProperties
<1>2. Len(s) \in Nat /\ Len(t) \in Nat
  OBVIOUS
<1> HIDE DEF u
<1>3. \A i \in 1..Len(s) : i \in 1..Len(u) /\ u[i] = s[i]
  BY <1>1, <1>2
<1>4. ASSUME NEW i \in 1..Len(t)
      PROVE  Len(s) + i \in 1..Len(u) /\ u[Len(s) + i] = t[i]
  <2>1. Len(s) + i \in 1..(Len(s) + Len(t)) /\ ~(Len(s) + i <= Len(s))
        /\ (Len(s) + i) - Len(s) = i
    BY <1>2
  <2> QED
    BY <1>1, <2>1
<1>5. ASSUME NEW i \in 1..Len(u)
      PROVE  \/ i \in 1..Len(s) /\ u[i] = s[i]
             \/ i > Len(s) /\ i - Len(s) \in 1..Len(t) /\ u[i] = t[i - Len(s)]
  BY <1>1, <1>2
<1>6. /\ RowsOf(s) = {s[i] : i \in 1..Len(s)}
      /\ RowsOf(t) = {t[i] : i \in 1..Len(t)}
      /\ RowsOf(u) = {u[i] : i \in 1..Len(u)}
  BY <1>1, RowsAre
<1>7. RowsOf(u) = RowsOf(s) \cup RowsOf(t)
  <2>1. ASSUME NEW x \in RowsOf(u)
        PROVE  x \in RowsOf(s) \cup RowsOf(t)
    BY <1>5, <1>6
  <2>2. ASSUME NEW x \in RowsOf(s) \cup RowsOf(t)
        PROVE  x \in RowsOf(u)
    BY <1>3, <1>4, <1>6
  <2> QED
    BY <2>1, <2>2
<1>8. ASSUME NEW i \in 1..Len(u), NEW j \in 1..Len(u), i < j
      PROVE  Later(u[i], u[j])
  <2>1. CASE j \in 1..Len(s) /\ u[j] = s[j]
    <3>1. i \in 1..Len(s) /\ u[i] = s[i]
      BY <1>2, <1>3, <1>8, <2>1
    <3> QED
      BY <1>8, <2>1, <3>1 DEF Descending
  <2>2. CASE /\ i \in 1..Len(s) /\ u[i] = s[i]
             /\ j - Len(s) \in 1..Len(t) /\ u[j] = t[j - Len(s)]
    BY <1>6, <2>2
  <2>3. CASE /\ i - Len(s) \in 1..Len(t) /\ u[i] = t[i - Len(s)]
             /\ j - Len(s) \in 1..Len(t) /\ u[j] = t[j - Len(s)]
    <3>1. i - Len(s) < j - Len(s)
      BY <1>2, <1>8
    <3> QED
      BY <2>3, <3>1 DEF Descending
  <2> QED
    BY <1>5, <2>1, <2>2, <2>3
<1> QED
  BY <1>1, <1>7, <1>8 DEF u, Descending

(* Rows are told apart by their places.                                    *)
LEMMA DescendingOnce ==
  ASSUME NEW s \in Seq(Row), Descending(s), NEW i \in 1..Len(s), NEW j \in 1..Len(s),
         s[i] = s[j]
  PROVE  i = j
<1>1. \A k \in 1..Len(s) : s[k] \in Row
  OBVIOUS
<1>2. ~(i < j) /\ ~(j < i)
  BY <1>1, LaterIsOrder DEF Descending
<1> QED
  BY <1>2

-----------------------------------------------------------------------------
(* Pages. *)

LEMMA RowsTyped ==
  ASSUME TypeOK
  PROVE  /\ Rows \subseteq Row
         /\ list # "conversations" => Rows = messages[list]
<1>1. CASE list = "conversations"
  <2>1. \A c \in Listed :
          [id |-> c, at |-> lastActive[c], rank |-> 0, shown |-> TRUE] \in Row
    BY DEF Listed, Row, Id, TypeOK
  <2> QED
    BY <1>1, <2>1 DEF Rows
<1>2. CASE list # "conversations"
  BY <1>2 DEF Rows, TypeOK
<1> QED
  BY <1>1, <1>2

(* A page is the top of what is below the cursor; what it leaves out comes *)
(* after a full page.                                                      *)
LEMMA PageIs ==
  ASSUME TypeOK, NEW n \in Limits, NEW page \in Page(n)
  PROVE  /\ page \in Seq(Row) /\ Len(page) \in Nat /\ n \in Nat \ {0}
         /\ Descending(page)
         /\ RowsOf(page) = {page[i] : i \in 1..Len(page)}
         /\ \A r \in RowsOf(page) : r \in Rows /\ r \in Row /\ Below(r, bound)
         /\ \A r \in Rows : Below(r, bound) =>
              \/ r \in RowsOf(page)
              \/ Len(page) = n /\ \A q \in RowsOf(page) : Later(q, r)
<1> DEFINE rows == {r \in Rows : Below(r, bound)}
<1>1. n \in Nat \ {0}
  BY PagesAssumption
<1>2. page \in Sorted(rows, n)
  BY DEF Page
<1>3. \A r \in rows \ RowsOf(page) : Len(page) = n /\ \A q \in RowsOf(page) : Later(q, r)
  BY DEF Page
<1>4. rows \subseteq Row
  BY RowsTyped
<1> HIDE DEF rows
<1>5. page \in Seq(rows) /\ Len(page) \in Nat /\ Descending(page)
  BY <1>1, <1>2, SortedIs
<1>6. RowsOf(page) \subseteq rows /\ RowsOf(page) = {page[i] : i \in 1..Len(page)}
  BY <1>5, RowsAre
<1>7. page \in Seq(Row)
  BY <1>4, <1>5
<1> QED
  BY <1>1, <1>3, <1>5, <1>6, <1>7, RowsTyped DEF rows

LEMMA ShownAre ==
  ASSUME NEW page \in Seq(Row), NEW s \in Shown(page)
  PROVE  /\ s \in Seq(Row)
         /\ Descending(s)
         /\ RowsOf(s) = {r \in RowsOf(page) : r.shown}
<1> DEFINE rows == {r \in RowsOf(page) : r.shown}
<1>1. s \in Sorted(rows, Len(page)) /\ RowsOf(s) = rows
  BY DEF Shown
<1>2. rows \subseteq Row /\ Len(page) \in Nat
  BY RowsAre
<1> HIDE DEF rows
<1>3. s \in Seq(rows) /\ Descending(s)
  BY <1>1, <1>2, SortedIs
<1>4. s \in Seq(Row)
  BY <1>2, <1>3
<1> QED
  BY <1>1, <1>3, <1>4 DEF rows

(* The cursor is the last row of a full page.                              *)
LEMMA CursorIs ==
  ASSUME TypeOK, NEW n \in Limits, NEW page \in Page(n)
  PROVE  LET c == NextCursor(page, n)
         IN  /\ c = None <=> Len(page) # n
             /\ c # None =>
                  /\ page[n] \in RowsOf(page) /\ c = page[n].id
                  /\ \A r \in RowsOf(page) : r = page[n] \/ Later(r, page[n])
<1>1. /\ page \in Seq(Row) /\ Len(page) \in Nat /\ n \in Nat \ {0} /\ Descending(page)
      /\ RowsOf(page) = {page[i] : i \in 1..Len(page)}
  BY PageIs
<1>2. CASE Len(page) # n
  BY <1>2 DEF NextCursor
<1>3. CASE Len(page) = n
  <2>1. NextCursor(page, n) = page[n].id
    BY <1>3 DEF NextCursor
  <2>2. n \in 1..Len(page) /\ page[n] \in Row
    BY <1>1, <1>3
  <2>3. page[n].id # None
    BY <2>2, PagesAssumption DEF Row
  <2>4. \A i \in 1..Len(page) : i = n \/ Later(page[i], page[n])
    BY <1>1, <1>3, <2>2 DEF Descending
  <2> QED
    BY <1>1, <1>3, <2>1, <2>2, <2>3, <2>4
<1> QED
  BY <1>2, <1>3

-----------------------------------------------------------------------------
(* Types. *)

LEMMA TurnRowsTyped ==
  ASSUME TypeOK, NEW t \in Turn, NEW rank \in {<<1, 2>>, <<2, 1>>}, NEW answerShown \in BOOLEAN
  PROVE  TurnRows(t, rank, answerShown) \subseteq Row
<1>1. ASSUME NEW i \in {1, 2}
      PROVE  [id |-> <<t, i>>, at |-> began[t], rank |-> rank[i],
              shown |-> i = 1 \/ answerShown] \in Row
  <2>1. rank[i] \in Nat /\ began[t] \in Nat /\ <<t, i>> \in Id
    BY DEF TypeOK, Id
  <2>2. (i = 1 \/ answerShown) \in BOOLEAN
    OBVIOUS
  <2> QED
    BY <2>1, <2>2 DEF Row
<1> QED
  BY <1>1 DEF TurnRows

LEMMA TypeKept ==
  ASSUME TypeOK, TimesInv, [Next]_vars
  PROVE  TypeOK'
<1> USE DEF storeVars, readerVars
<1>1. ASSUME NEW t \in Turn, NEW c \in Conversation, BeginTurn(t, c)
      PROVE  TypeOK'
  BY <1>1 DEF BeginTurn, TypeOK
<1>2. ASSUME NEW t \in Turn, CommitTurn(t)
      PROVE  TypeOK'
  <2>1. PICK rank \in {<<1, 2>>, <<2, 1>>}, answerShown \in BOOLEAN :
          messages' = [messages EXCEPT ![chat[t]] = @ \cup TurnRows(t, rank, answerShown)]
    BY <1>2 DEF CommitTurn
  <2> DEFINE S == SUBSET Row
             new == TurnRows(t, rank, answerShown)
  <2>2. messages' \in [Conversation -> S]
    <3>1. new \in S
      BY TurnRowsTyped
    <3>2. messages \in [Conversation -> S]
      BY DEF TypeOK
    <3>3. \A c \in Conversation : messages[c] \cup new \in S
      BY <3>1, <3>2
    <3> HIDE DEF S, new
    <3>4. [messages EXCEPT ![chat[t]] = @ \cup new] \in [Conversation -> S]
      BY <3>2, <3>3
    <3> QED
      BY <2>1, <3>4 DEF new
  <2>3. clock' \in Nat /\ clock + 1 \in Nat
    BY <1>2 DEF CommitTurn, TypeOK
  <2>4. lastActive' \in [Conversation -> Nat]
    BY <1>2, <2>3 DEF CommitTurn, TypeOK
  <2>5. turn' \in [Turn -> {"new", "open", "over"}]
    BY <1>2 DEF CommitTurn, TypeOK
  <2>6. touched' \subseteq Conversation
    <3>1. chat[t] \in Conversation
      BY <1>2 DEF CommitTurn, TimesInv
    <3> QED
      BY <1>2, <3>1 DEF CommitTurn, TypeOK
  <2> QED
    BY <1>2, <2>2, <2>3, <2>4, <2>5, <2>6 DEF CommitTurn, TypeOK
<1>3. ASSUME NEW t \in Turn, AbortTurn(t)
      PROVE  TypeOK'
  BY <1>3 DEF AbortTurn, TypeOK
<1>4. ASSUME NEW c \in Conversation, Delete(c)
      PROVE  TypeOK'
  BY <1>4 DEF Delete, TypeOK
<1>5. ASSUME NEW l \in Conversation \cup {"conversations"}, StartReading(l)
      PROVE  TypeOK'
  <2>1. due' \subseteq Id
    BY <1>5 DEF StartReading, TypeOK, Listed, Row, Id
  <2> QED
    BY <1>5, <2>1 DEF StartReading, TypeOK
<1>6. CASE CheckOwned
  BY <1>6 DEF CheckOwned, TypeOK
<1>7. CASE ReadCursor
  <2>1. bound' \in Row \cup {None}
    BY <1>7, RowsTyped DEF ReadCursor
  <2> QED
    BY <1>7, <2>1 DEF ReadCursor, TypeOK
<1>8. CASE CursorGone
  BY <1>8 DEF CursorGone, TypeOK
<1>9. ASSUME NEW n \in Limits, ReadPage(n)
      PROVE  TypeOK'
  <2>1. PICK page \in Page(n) :
          /\ \E rows \in Shown(page) : got' = got \o rows
          /\ after' = NextCursor(page, n)
    BY <1>9 DEF ReadPage
  <2>2. PICK rows \in Shown(page) : got' = got \o rows
    BY <2>1
  <2>3. page \in Seq(Row) /\ RowsOf(page) \subseteq Row
    BY PageIs
  <2>4. rows \in Seq(Row)
    BY <2>3, ShownAre
  <2>5. got' \in Seq(Row)
    BY <2>2, <2>4 DEF TypeOK
  <2>6. after' \in Id \cup {None}
    BY <2>1, <2>3, CursorIs DEF Row
  <2> QED
    BY <1>9, <2>5, <2>6 DEF ReadPage, TypeOK
<1>10. CASE UNCHANGED vars
  BY <1>10 DEF vars, TypeOK
<1> QED
  BY <1>1, <1>2, <1>3, <1>4, <1>5, <1>6, <1>7, <1>8, <1>9, <1>10 DEF Next

-----------------------------------------------------------------------------
(* Writers. *)

LEMMA TimesKept ==
  ASSUME TypeOK, TimesInv, [Next]_vars
  PROVE  TimesInv'
<1> USE DEF storeVars, readerVars
<1>1. clock \in Nat
  BY DEF TypeOK
<1>2. ASSUME NEW t \in Turn, NEW c \in Conversation, BeginTurn(t, c)
      PROVE  TimesInv'
  <2>1. /\ clock' = clock + 1 /\ lastActive' = lastActive
        /\ turn'[t] = "open" /\ chat'[t] = c /\ began'[t] = clock + 1
        /\ \A u \in Turn \ {t} :
             turn'[u] = turn[u] /\ chat'[u] = chat[u] /\ began'[u] = began[u]
    BY <1>2 DEF BeginTurn, TypeOK
  <2>2. \A u \in Turn : turn'[u] # "new" => chat'[u] \in Conversation /\ began'[u] \in 1..clock'
    BY <1>1, <2>1 DEF TimesInv
  <2>3. \A u, v \in Turn :
          turn'[u] # "new" /\ turn'[v] # "new" /\ began'[u] = began'[v] => u = v
    BY <1>1, <2>1 DEF TimesInv
  <2>4. \A d \in Conversation : lastActive'[d] \in 0..clock'
    BY <1>1, <2>1 DEF TimesInv
  <2> QED
    BY <2>1, <2>2, <2>3, <2>4 DEF TimesInv
<1>3. ASSUME NEW t \in Turn, CommitTurn(t)
      PROVE  TimesInv'
  <2>1. chat[t] \in Conversation /\ turn[t] = "open"
    BY <1>3 DEF CommitTurn, TimesInv
  <2>2. /\ clock' = clock + 1 /\ UNCHANGED <<chat, began>>
        /\ lastActive'[chat[t]] = clock + 1
        /\ \A d \in Conversation \ {chat[t]} : lastActive'[d] = lastActive[d]
        /\ \A u \in Turn : turn'[u] # "new" => turn[u] # "new"
    BY <1>3, <2>1 DEF CommitTurn, TypeOK
  <2>3. \A d \in Conversation : lastActive'[d] \in 0..clock'
    BY <1>1, <2>2 DEF TimesInv
  <2>4. \A c, d \in Conversation : lastActive'[c] = lastActive'[d] /\ lastActive'[c] > 0 => c = d
    <3>1. \A d \in Conversation \ {chat[t]} : lastActive'[d] < clock + 1
      BY <1>1, <2>2 DEF TimesInv
    <3>2. \A c, d \in Conversation \ {chat[t]} :
            lastActive'[c] = lastActive'[d] /\ lastActive'[c] > 0 => c = d
      BY <2>2 DEF TimesInv
    <3>3. \A d \in Conversation : lastActive'[d] = clock + 1 => d = chat[t]
      BY <1>1, <2>2, <3>1
    <3> QED
      BY <2>2, <3>2, <3>3
  <2>5. \A u \in Turn : turn'[u] # "new" => chat'[u] \in Conversation /\ began'[u] \in 1..clock'
    BY <1>1, <2>2 DEF TimesInv
  <2>6. \A u, v \in Turn :
          turn'[u] # "new" /\ turn'[v] # "new" /\ began'[u] = began'[v] => u = v
    BY <2>2 DEF TimesInv
  <2> QED
    BY <2>3, <2>4, <2>5, <2>6 DEF TimesInv
<1>4. ASSUME NEW t \in Turn, AbortTurn(t)
      PROVE  TimesInv'
  <2>1. /\ UNCHANGED <<clock, lastActive, chat, began>>
        /\ \A u \in Turn : turn'[u] # "new" => turn[u] # "new"
    BY <1>4 DEF AbortTurn, TypeOK
  <2> QED
    BY <2>1 DEF TimesInv
<1>5. CASE UNCHANGED <<clock, lastActive, turn, chat, began>>
  BY <1>5 DEF TimesInv
<1> QED
  BY <1>2, <1>3, <1>4, <1>5
     DEF Next, Delete, StartReading, CheckOwned, ReadCursor, CursorGone, ReadPage, vars

LEMMA CommittedRows ==
  ASSUME TypeOK, TimesInv, MessageRowsInv, NEW t \in Turn, CommitTurn(t)
  PROVE  /\ chat[t] \in Conversation
         /\ MessageRowsInv'
         /\ \A c \in Conversation : messages[c] \subseteq messages'[c]
<1>1. PICK rank \in {<<1, 2>>, <<2, 1>>}, answerShown \in BOOLEAN :
        messages' = [messages EXCEPT ![chat[t]] = @ \cup TurnRows(t, rank, answerShown)]
  BY DEF CommitTurn
<1>2. chat[t] \in Conversation /\ turn[t] = "open"
  BY DEF CommitTurn, TimesInv
<1> DEFINE new == TurnRows(t, rank, answerShown)
           c0 == chat[t]
<1>3. /\ \A m \in new : \E i \in {1, 2} :
           m = [id |-> <<t, i>>, at |-> began[t], rank |-> rank[i],
                shown |-> i = 1 \/ answerShown]
      /\ rank[1] # rank[2]
  BY DEF TurnRows
<1>4. /\ messages'[c0] = messages[c0] \cup new
      /\ \A c \in Conversation \ {c0} : messages'[c] = messages[c]
  BY <1>1, <1>2 DEF TypeOK
<1>5. /\ turn'[t] = "over" /\ began' = began
      /\ \A u \in Turn : turn[u] = "over" => turn'[u] = "over"
  BY DEF CommitTurn, TypeOK
<1>6. \A m \in new : (\E i \in {1, 2} : m.id = <<t, i>>) /\ m.at = began[t]
  BY <1>3
<1>7. \A m, q \in new : (m.id = q.id \/ m.rank = q.rank) => m = q
  BY <1>3
<1> HIDE DEF new, c0
<1>8. ASSUME NEW m \in messages[c0], NEW q \in new
      PROVE  m.id # q.id /\ m.at # q.at
  <2>1. PICK u \in Turn, i \in {1, 2} : m.id = <<u, i>> /\ turn[u] = "over" /\ m.at = began[u]
    BY <1>2 DEF MessageRowsInv, StoredOf, c0
  <2>2. u # t /\ began[u] # began[t]
    BY <1>2, <2>1 DEF TimesInv
  <2> QED
    BY <1>6, <2>1, <2>2
<1>9. ASSUME NEW c \in Conversation, NEW m \in messages[c]
      PROVE  StoredOf(m)'
  <2>1. PICK u \in Turn, i \in {1, 2} : m.id = <<u, i>> /\ turn[u] = "over" /\ m.at = began[u]
    BY DEF MessageRowsInv, StoredOf
  <2> QED
    BY <1>5, <2>1 DEF StoredOf
<1>10. \A m \in new : StoredOf(m)'
  BY <1>5, <1>6 DEF StoredOf
<1>11. Unique(messages[c0] \cup new)
  <2>1. Unique(messages[c0])
    BY <1>2 DEF MessageRowsInv, c0
  <2> SUFFICES ASSUME NEW m \in messages[c0] \cup new, NEW q \in messages[c0] \cup new,
                      m.id = q.id \/ (m.at = q.at /\ m.rank = q.rank)
               PROVE  m = q
    BY DEF Unique
  <2>2. CASE m \in messages[c0] /\ q \in messages[c0]
    BY <2>1, <2>2 DEF Unique
  <2>3. CASE m \in new /\ q \in new
    BY <1>7, <2>3
  <2> QED
    BY <1>8, <2>2, <2>3
<1>12. ASSUME NEW c \in Conversation
       PROVE  (\A m \in messages'[c] : StoredOf(m)') /\ Unique(messages'[c])
  <2>1. CASE c = c0
    BY <1>4, <1>9, <1>10, <1>11, <2>1
  <2>2. CASE c # c0
    <3>1. messages'[c] = messages[c]
      BY <1>4, <2>2
    <3> QED
      BY <1>9, <3>1 DEF MessageRowsInv
  <2> QED
    BY <2>1, <2>2
<1>13. MessageRowsInv'
  BY <1>12 DEF MessageRowsInv, Unique
<1> QED
  BY <1>2, <1>4, <1>13

LEMMA MessageRowsKept ==
  ASSUME TypeOK, TimesInv, MessageRowsInv, [Next]_vars
  PROVE  MessageRowsInv'
<1> USE DEF storeVars, readerVars
<1>1. ASSUME NEW t \in Turn, turn[t] # "over" \/ turn'[t] = "over",
             UNCHANGED messages,
             \A u \in Turn \ {t} : turn'[u] = turn[u] /\ began'[u] = began[u],
             turn[t] = "over" => began'[t] = began[t]
      PROVE  MessageRowsInv'
  BY <1>1 DEF MessageRowsInv, StoredOf, Unique
<1>2. ASSUME NEW t \in Turn, NEW c \in Conversation, BeginTurn(t, c)
      PROVE  MessageRowsInv'
  BY <1>1, <1>2 DEF BeginTurn, TypeOK
<1>3. ASSUME NEW t \in Turn, AbortTurn(t)
      PROVE  MessageRowsInv'
  BY <1>1, <1>3 DEF AbortTurn, TypeOK
<1>4. CASE UNCHANGED <<messages, turn, began>>
  BY <1>4 DEF MessageRowsInv, StoredOf, Unique
<1> QED
  BY <1>2, <1>3, <1>4, CommittedRows
     DEF Next, Delete, StartReading, CheckOwned, ReadCursor, CursorGone, ReadPage, vars

-----------------------------------------------------------------------------
(* The reader. *)

LEMMA ReaderKept ==
  ASSUME TypeOK, ReaderInv, [Next]_vars
  PROVE  ReaderInv'
<1> USE DEF storeVars, readerVars
<1>1. ASSUME NEW n \in Limits, ReadPage(n)
      PROVE  ReaderInv'
  BY <1>1 DEF ReadPage, ReaderInv
<1>2. CASE ReadCursor \/ CursorGone \/ CheckOwned
  BY <1>2 DEF ReadCursor, CursorGone, CheckOwned, ReaderInv
<1>3. ASSUME NEW l \in Conversation \cup {"conversations"}, StartReading(l)
      PROVE  ReaderInv'
  BY <1>3 DEF StartReading, ReaderInv
<1>4. CASE UNCHANGED readerVars
  BY <1>4 DEF ReaderInv
<1> QED
  BY <1>1, <1>2, <1>3, <1>4 DEF Next, BeginTurn, CommitTurn, AbortTurn, Delete, vars

(* New messages do not matter to those that were there.                    *)
LEMMA MessagesFrame ==
  ASSUME TypeOK, MessagesInv, UNCHANGED readerVars,
         \A c \in Conversation : messages[c] \subseteq messages'[c]
  PROVE  MessagesInv'
<1> SUFFICES ASSUME list # "conversations"
             PROVE  MessagesInv'
  BY DEF MessagesInv, readerVars
<1>1. messages[list] \subseteq messages'[list] /\ UNCHANGED readerVars
  BY DEF TypeOK
<1>2. RowsOf(got) \subseteq messages'[list] /\ Descending(got)
  BY <1>1 DEF MessagesInv
<1>3. after # None =>
        \E q \in messages'[list] : q.id = after /\ \A r \in RowsOf(got) : r = q \/ Later(r, q)
  BY <1>1 DEF MessagesInv
<1>4. reader = "reading" /\ after # None => bound \in messages'[list] /\ bound.id = after
  BY <1>1 DEF MessagesInv
<1>5. ASSUME NEW m \in messages[list], ToCome(m)
      PROVE  ToCome(m)'
  BY <1>1, <1>5 DEF ToCome, readerVars
<1>6. ASSUME NEW id \in due
      PROVE  \E m \in messages'[list] :
               m.id = id /\ m.shown /\ (m \in RowsOf(got) \/ ToCome(m)')
  <2>1. PICK m \in messages[list] :
          m.id = id /\ m.shown /\ (m \in RowsOf(got) \/ ToCome(m))
    BY DEF MessagesInv
  <2>2. m \in RowsOf(got) \/ ToCome(m)'
    BY <1>5, <2>1
  <2>3. m \in messages'[list]
    BY <1>1
  <2> QED
    BY <2>1, <2>2, <2>3
<1>7. got' = got /\ list' = list /\ after' = after /\ reader' = reader /\ bound' = bound
      /\ due' = due
  BY DEF readerVars
<1> QED
  BY <1>2, <1>3, <1>4, <1>6, <1>7 DEF MessagesInv, RowsOf, Descending

LEMMA StartMessages ==
  ASSUME TypeOK, ReaderInv, NEW l \in Conversation \cup {"conversations"}, StartReading(l)
  PROVE  MessagesInv'
<1> SUFFICES ASSUME l # "conversations"
             PROVE  MessagesInv'
  BY DEF StartReading, MessagesInv
<1>1. /\ got' = <<>> /\ after' = None /\ reader' = "asking" /\ list' = l
      /\ messages' = messages
      /\ due' = {r.id : r \in {m \in messages[l] : m.shown}}
  BY DEF StartReading, ReaderInv, storeVars
<1>2. RowsOf(got') = {} /\ Descending(got')
  <2>1. Len(<<>>) = 0 /\ DOMAIN <<>> = {}
    OBVIOUS
  <2> QED
    BY <1>1, <2>1 DEF RowsOf, Descending
<1>3. \A m : ToCome(m)'
  BY <1>1 DEF ToCome
<1>4. \A id \in due' : \E m \in messages'[list'] : m.id = id /\ m.shown /\ ToCome(m)'
  BY <1>1, <1>3
<1>5. RowsOf(got)' = RowsOf(got') /\ Descending(got)' = Descending(got')
  BY DEF RowsOf, Descending
<1> QED
  BY <1>1, <1>2, <1>4, <1>5 DEF MessagesInv

LEMMA CheckMessages ==
  ASSUME TypeOK, MessagesInv, CheckOwned \/ CursorGone \/ ReadCursor
  PROVE  MessagesInv'
<1> USE DEF storeVars
<1>1. /\ UNCHANGED <<messages, list, after, got, due>>
      /\ reader # "done" /\ reader' # "done"
  BY DEF CheckOwned, CursorGone, ReadCursor
<1>2. \A m : ToCome(m)' <=> ToCome(m)
  BY <1>1 DEF ToCome
<1>3. list # "conversations" /\ reader' = "reading" /\ after # None =>
        bound' \in messages[list] /\ bound'.id = after
  BY RowsTyped DEF CheckOwned, CursorGone, ReadCursor
<1>4. RowsOf(got)' = RowsOf(got) /\ Descending(got)' = Descending(got)
  BY <1>1 DEF RowsOf, Descending
<1> QED
  BY <1>1, <1>2, <1>3, <1>4 DEF MessagesInv

(* The next page goes on where the last one ended.                         *)
LEMMA PageMessages ==
  ASSUME TypeOK, MessageRowsInv, ReaderInv, MessagesInv, NEW n \in Limits, ReadPage(n)
  PROVE  MessagesInv'
<1> USE DEF storeVars
<1> SUFFICES ASSUME list # "conversations"
             PROVE  MessagesInv'
  BY DEF ReadPage, MessagesInv
<1>1. /\ reader = "reading" /\ UNCHANGED <<messages, list, due>>
      /\ reader' = IF after' = None THEN "done" ELSE "asking"
  BY DEF ReadPage
<1>2. PICK page \in Page(n) :
        /\ \E rows \in Shown(page) : got' = got \o rows
        /\ after' = NextCursor(page, n)
  BY DEF ReadPage
<1>3. PICK rows \in Shown(page) : got' = got \o rows
  BY <1>2
<1> DEFINE M == messages[list]
<1>4. Rows = M /\ M \subseteq Row /\ Unique(M) /\ got \in Seq(Row)
  BY RowsTyped DEF TypeOK, MessageRowsInv
<1> HIDE DEF M
<1>5. /\ page \in Seq(Row)
      /\ \A r \in RowsOf(page) : r \in M /\ r \in Row /\ Below(r, bound)
      /\ \A r \in M : Below(r, bound) =>
           \/ r \in RowsOf(page)
           \/ Len(page) = n /\ \A q \in RowsOf(page) : Later(q, r)
  BY <1>4, PageIs
<1>6. /\ rows \in Seq(Row) /\ Descending(rows)
      /\ RowsOf(rows) = {r \in RowsOf(page) : r.shown}
  BY <1>5, ShownAre
<1>7. RowsOf(got) \subseteq M /\ Descending(got)
  BY DEF MessagesInv, M
<1>8. /\ \A x \in RowsOf(got), y \in RowsOf(page) : Later(x, y)
      /\ \A m \in M : ToCome(m) => Below(m, bound)
  <2>1. CASE after = None
    <3>1. got = <<>> /\ bound = None
      BY <1>1, <2>1 DEF ReaderInv
    <3>2. RowsOf(got) = {}
      BY <3>1 DEF RowsOf
    <3> QED
      BY <3>1, <3>2 DEF Below
  <2>2. CASE after # None
    <3>1. PICK q \in M : q.id = after /\ \A r \in RowsOf(got) : r = q \/ Later(r, q)
      BY <2>2 DEF MessagesInv, M
    <3>2. bound \in M /\ bound.id = after
      BY <1>1, <2>2 DEF MessagesInv, M
    <3>3. q = bound
      BY <1>4, <3>1, <3>2 DEF Unique
    <3>4. \A r \in Row : Below(r, bound) <=> Later(bound, r)
      BY <1>4, <3>2, BelowIs
    <3>5. ASSUME NEW x \in RowsOf(got), NEW y \in RowsOf(page)
          PROVE  Later(x, y)
      <4>1. x \in Row /\ y \in Row /\ bound \in Row
        BY <1>4, <1>5, <1>7, <3>2
      <4>2. Later(bound, y)
        BY <1>5, <3>4
      <4> QED
        BY <3>1, <3>3, <4>1, <4>2, LaterIsOrder
    <3>6. ASSUME NEW m \in M, ToCome(m)
          PROVE  Below(m, bound)
      <4>1. PICK k \in M : k.id = after /\ Later(k, m)
        BY <2>2, <3>6 DEF ToCome, M
      <4>2. k = bound
        BY <1>4, <3>2, <4>1 DEF Unique
      <4> QED
        BY <1>4, <3>4, <4>1, <4>2
    <3> QED
      BY <3>5, <3>6
  <2> QED
    BY <2>1, <2>2
<1>9. Descending(got') /\ RowsOf(got') = RowsOf(got) \cup RowsOf(rows)
  BY <1>3, <1>4, <1>6, <1>7, <1>8, DescendingJoined
<1>10. /\ after' = None <=> Len(page) # n
       /\ after' # None =>
            /\ page[n] \in RowsOf(page) /\ after' = page[n].id
            /\ \A r \in RowsOf(page) : r = page[n] \/ Later(r, page[n])
  BY <1>2, CursorIs
<1>11. RowsOf(got') \subseteq M
  BY <1>5, <1>6, <1>7, <1>9
<1>12. after' # None =>
         \E q \in M : q.id = after' /\ \A r \in RowsOf(got') : r = q \/ Later(r, q)
  BY <1>5, <1>6, <1>8, <1>9, <1>10
<1>13. reader' # "reading"
  BY <1>1
<1>14. ASSUME NEW id \in due
       PROVE  \E m \in M : m.id = id /\ m.shown /\ (m \in RowsOf(got') \/ ToCome(m)')
  <2>1. PICK m \in M : m.id = id /\ m.shown /\ (m \in RowsOf(got) \/ ToCome(m))
    BY DEF MessagesInv, M
  <2>2. CASE m \in RowsOf(got)
    BY <1>9, <2>1, <2>2
  <2>3. CASE ToCome(m)
    <3>1. Below(m, bound)
      BY <1>8, <2>3
    <3>2. CASE m \in RowsOf(page)
      BY <1>6, <1>9, <2>1, <3>2
    <3>3. CASE Len(page) = n /\ \A q \in RowsOf(page) : Later(q, m)
      <4>1. after' # None /\ page[n] \in M /\ after' = page[n].id /\ Later(page[n], m)
        BY <1>5, <1>10, <3>3
      <4>2. reader' # "done"
        BY <1>1, <4>1
      <4>3. messages'[list'] = M
        BY <1>1 DEF M
      <4>4. ToCome(m)'
        BY <4>1, <4>2, <4>3 DEF ToCome
      <4> QED
        BY <2>1, <4>4
    <3> QED
      BY <1>5, <3>1, <3>2, <3>3
  <2> QED
    BY <2>1, <2>2, <2>3
<1>15. /\ RowsOf(got)' = RowsOf(got') /\ Descending(got)' = Descending(got')
       /\ messages'[list'] = M /\ due' = due
  BY <1>1 DEF RowsOf, Descending, M
<1> QED
  BY <1>9, <1>11, <1>12, <1>13, <1>14, <1>15 DEF MessagesInv

-----------------------------------------------------------------------------
(* The list of conversations. *)

LEMMA GotIdsAre ==
  ASSUME TypeOK
  PROVE  GotIds = {r.id : r \in RowsOf(got)} /\ RowsOf(got) \subseteq Row
<1>1. got \in Seq(Row)
  BY DEF TypeOK
<1> QED
  BY <1>1, RowsAre DEF GotIds

(* Conversations that others write to or delete only move up or go.        *)
LEMMA WritersConversations ==
  ASSUME TypeOK, ConversationsInv, UNCHANGED readerVars,
         touched \subseteq touched',
         \A c \in Conversation : lastActive'[c] \in Nat /\ lastActive'[c] >= lastActive[c],
         \A c \in Conversation \ touched' :
           lastActive'[c] = lastActive[c] /\ (c \in deleted' <=> c \in deleted)
  PROVE  ConversationsInv'
<1> SUFFICES ASSUME list = "conversations"
             PROVE  ConversationsInv'
  BY DEF ConversationsInv, readerVars
<1>1. /\ got' = got /\ list' = list /\ after' = after /\ reader' = reader
      /\ bound' = bound /\ due' = due
  BY DEF readerVars
<1>2. RowsOf(got)' = RowsOf(got) /\ GotIds' = GotIds /\ Descending(got)' = Descending(got)
  BY <1>1 DEF RowsOf, GotIds, Descending
<1>3. GotIds = {r.id : r \in RowsOf(got)} /\ lastActive \in [Conversation -> Nat]
  BY GotIdsAre DEF TypeOK
<1>4. /\ due \subseteq Conversation
      /\ \A r \in RowsOf(got) : r.id \in Conversation /\ r.rank = 0
      /\ after # None => after \in Conversation /\ after \in GotIds
      /\ reader = "reading" /\ after # None => bound # None /\ bound.rank = 0
  BY DEF ConversationsInv
<1>5. ASSUME NEW c \in due \ touched'
      PROVE  c \in Listed' /\ (c \in GotIds \/ Awaited(c)')
  <2>1. c \in Listed /\ (c \in GotIds \/ Awaited(c)) /\ c \in Conversation
    BY <1>4 DEF ConversationsInv
  <2>2. lastActive'[c] = lastActive[c] /\ (c \in deleted' <=> c \in deleted)
    BY <2>1
  <2>3. c \in Listed'
    BY <2>1, <2>2 DEF Listed
  <2>4. ASSUME Awaited(c)
        PROVE  Awaited(c)'
    <3>1. after # None => lastActive'[after] >= lastActive[after] /\ after \in Conversation
      BY <1>4
    <3>2. after # None /\ lastActive[c] < lastActive[after] =>
            lastActive'[c] < lastActive'[after]
      BY <1>3, <2>1, <2>2, <3>1
    <3> QED
      BY <1>1, <2>2, <2>4, <3>2 DEF Awaited
  <2> QED
    BY <2>1, <2>3, <2>4
<1>6. ASSUME GotIds \cap touched' = {}
      PROVE  TopOfList'
  <2>1. TopOfList
    BY <1>6 DEF ConversationsInv
  <2>2. \A r \in RowsOf(got) : lastActive'[r.id] = lastActive[r.id]
    BY <1>3, <1>4, <1>6
  <2>3. after # None => lastActive'[after] = lastActive[after]
    BY <1>4, <1>6
  <2> QED
    BY <1>1, <1>2, <2>1, <2>2, <2>3 DEF TopOfList
<1> QED
  BY <1>1, <1>2, <1>4, <1>5, <1>6 DEF ConversationsInv

LEMMA StartConversations ==
  ASSUME TypeOK, ReaderInv, NEW l \in Conversation \cup {"conversations"}, StartReading(l)
  PROVE  ConversationsInv'
<1> SUFFICES ASSUME l = "conversations"
             PROVE  ConversationsInv'
  BY DEF StartReading, ConversationsInv
<1>1. /\ got' = <<>> /\ after' = None /\ reader' = "asking" /\ due' = Listed
      /\ UNCHANGED <<lastActive, deleted>>
  BY DEF StartReading, ReaderInv, storeVars
<1>2. RowsOf(got') = {} /\ Descending(got')
  <2>1. Len(<<>>) = 0 /\ DOMAIN <<>> = {}
    OBVIOUS
  <2> QED
    BY <1>1, <2>1 DEF RowsOf, Descending
<1>3. RowsOf(got)' = RowsOf(got') /\ Descending(got)' = Descending(got')
  BY DEF RowsOf, Descending
<1>4. Listed' = Listed /\ Listed \subseteq Conversation
  BY <1>1 DEF Listed
<1>5. \A c : Awaited(c)'
  BY <1>1 DEF Awaited
<1>6. TopOfList'
  BY <1>1, <1>2, <1>3 DEF TopOfList
<1> QED
  BY <1>1, <1>2, <1>3, <1>4, <1>5, <1>6 DEF ConversationsInv

LEMMA CheckConversations ==
  ASSUME TypeOK, ConversationsInv, CheckOwned \/ CursorGone \/ ReadCursor
  PROVE  ConversationsInv'
<1> SUFFICES ASSUME list = "conversations"
             PROVE  ConversationsInv'
  BY DEF CheckOwned, CursorGone, ReadCursor, ConversationsInv
<1>1. /\ UNCHANGED <<lastActive, deleted, list, after, got, due, touched>>
      /\ reader # "done" /\ reader' # "done"
  BY DEF CheckOwned, CursorGone, ReadCursor, storeVars
<1>2. reader' = "reading" /\ after # None =>
        bound' # None /\ bound'.rank = 0 /\ bound'.at = lastActive[after]
  <2> SUFFICES ASSUME ReadCursor, after # None
               PROVE  bound' # None /\ bound'.rank = 0 /\ bound'.at = lastActive[after]
    BY DEF CheckOwned, CursorGone
  <2>1. bound' \in Rows /\ bound'.id = after
    BY DEF ReadCursor
  <2>2. bound' \in Row
    BY <2>1, RowsTyped
  <2> QED
    BY <2>1, <2>2, PagesAssumption DEF Rows
<1>3. /\ RowsOf(got)' = RowsOf(got) /\ GotIds' = GotIds /\ Listed' = Listed
      /\ Descending(got)' = Descending(got)
  BY <1>1 DEF RowsOf, GotIds, Listed, Descending
<1>4. ASSUME NEW c, Awaited(c)
      PROVE  Awaited(c)'
  BY <1>1, <1>2, <1>4 DEF Awaited
<1>5. ASSUME TopOfList
      PROVE  TopOfList'
  BY <1>1, <1>2, <1>3, <1>5 DEF TopOfList
<1> QED
  BY <1>1, <1>2, <1>3, <1>4, <1>5 DEF ConversationsInv

LEMMA PageConversations ==
  ASSUME TypeOK, TimesInv, ReaderInv, ConversationsInv, NEW n \in Limits, ReadPage(n)
  PROVE  ConversationsInv'
<1> SUFFICES ASSUME list = "conversations"
             PROVE  ConversationsInv'
  BY DEF ReadPage, ConversationsInv
<1>1. /\ reader = "reading" /\ UNCHANGED <<lastActive, deleted, list, due, touched>>
      /\ reader' = IF after' = None THEN "done" ELSE "asking"
  BY DEF ReadPage, storeVars
<1>2. PICK page \in Page(n) :
        /\ \E rows \in Shown(page) : got' = got \o rows
        /\ after' = NextCursor(page, n)
  BY DEF ReadPage
<1>3. PICK rows \in Shown(page) : got' = got \o rows
  BY <1>2
<1> DEFINE RowOf(c) == [id |-> c, at |-> lastActive[c], rank |-> 0, shown |-> TRUE]
<1>4. Rows = {RowOf(c) : c \in Listed} /\ Rows \subseteq Row /\ got \in Seq(Row)
  BY RowsTyped DEF TypeOK, Rows
<1>5. /\ \A r \in Rows : /\ r.id \in Conversation /\ r.rank = 0 /\ r.shown
                         /\ r.at = lastActive[r.id] /\ r.at \in Nat
      /\ \A c \in Listed : /\ RowOf(c) \in Rows /\ RowOf(c) \in Row
                           /\ RowOf(c).at = lastActive[c] /\ RowOf(c).rank = 0
                           /\ RowOf(c).id = c
  <2>1. \A c : RowOf(c).at = lastActive[c] /\ RowOf(c).rank = 0 /\ RowOf(c).id = c
                /\ RowOf(c).shown
    OBVIOUS
  <2>2. \A c \in Listed : c \in Conversation /\ lastActive[c] \in Nat
    BY DEF Listed, TypeOK
  <2> HIDE DEF RowOf
  <2>3. \A c \in Listed : RowOf(c) \in Rows /\ RowOf(c) \in Row
    BY <1>4
  <2> QED
    BY <1>4, <2>1, <2>2, <2>3
<1> HIDE DEF RowOf
<1>6. /\ page \in Seq(Row)
      /\ \A r \in RowsOf(page) : r \in Rows /\ Below(r, bound)
      /\ \A r \in Rows : Below(r, bound) =>
           \/ r \in RowsOf(page)
           \/ Len(page) = n /\ \A q \in RowsOf(page) : Later(q, r)
  BY PageIs
<1>7. rows \in Seq(Row) /\ Descending(rows) /\ RowsOf(rows) = RowsOf(page)
  <2>1. RowsOf(rows) = {r \in RowsOf(page) : r.shown}
    BY <1>6, ShownAre
  <2> QED
    BY <1>5, <1>6, <2>1, ShownAre
<1>8. /\ after' = None <=> Len(page) # n
      /\ after' # None =>
           /\ page[n] \in RowsOf(page) /\ after' = page[n].id
           /\ \A r \in RowsOf(page) : r = page[n] \/ Later(r, page[n])
  BY <1>2, CursorIs
<1>9. RowsOf(got') = RowsOf(got) \cup RowsOf(page)
  <2>1. got' \in Seq(Row) /\ Len(got') = Len(got) + Len(rows)
        /\ \A i \in 1..Len(got') : got'[i] = IF i <= Len(got) THEN got[i] ELSE rows[i - Len(got)]
    <3>1. /\ got \o rows \in Seq(Row) /\ Len(got \o rows) = Len(got) + Len(rows)
          /\ \A i \in 1..(Len(got) + Len(rows)) :
               (got \o rows)[i] = IF i <= Len(got) THEN got[i] ELSE rows[i - Len(got)]
      BY <1>4, <1>7, ConcatProperties
    <3> QED
      BY <1>3, <3>1, Zenon
  <2>2. /\ RowsOf(got) = {got[i] : i \in 1..Len(got)}
        /\ RowsOf(rows) = {rows[i] : i \in 1..Len(rows)}
        /\ RowsOf(got') = {got'[i] : i \in 1..Len(got')}
        /\ Len(got) \in Nat /\ Len(rows) \in Nat
    BY <1>4, <1>7, <2>1, RowsAre
  <2> DEFINE g == got
             h == got'
  <2> HIDE DEF g, h
  <2>3. \A i \in 1..Len(g) : i \in 1..Len(h) /\ h[i] = g[i]
    BY <2>1, <2>2 DEF g, h
  <2>4. ASSUME NEW i \in 1..Len(rows)
        PROVE  Len(g) + i \in 1..Len(h) /\ h[Len(g) + i] = rows[i]
    <3>1. Len(g) + i \in 1..Len(h) /\ ~(Len(g) + i <= Len(g)) /\ (Len(g) + i) - Len(g) = i
      BY <2>1, <2>2 DEF g, h
    <3> QED
      BY <2>1, <3>1 DEF g, h
  <2>5. \A i \in 1..Len(h) : \/ i \in 1..Len(g) /\ h[i] = g[i]
                             \/ i - Len(g) \in 1..Len(rows) /\ h[i] = rows[i - Len(g)]
    BY <2>1, <2>2 DEF g, h
  <2>6. \A x : x \in RowsOf(h) <=> x \in RowsOf(g) \cup RowsOf(rows)
    BY <2>2, <2>3, <2>4, <2>5 DEF g, h
  <2> QED
    BY <1>7, <2>6 DEF g, h
<1>10. /\ GotIds = {r.id : r \in RowsOf(got)}
       /\ GotIds' = GotIds \cup {r.id : r \in RowsOf(page)}
  <2>1. GotIds = {r.id : r \in RowsOf(got)}
    BY GotIdsAre
  <2>2. GotIds' = {r.id : r \in RowsOf(got')}
    <3>1. got' \in Seq(Row)
      BY <1>3, <1>4, <1>7
    <3>2. RowsOf(got') = {got'[i] : i \in 1..Len(got')}
      BY <3>1, RowsAre
    <3> QED
      BY <3>2 DEF GotIds
  <2> QED
    BY <1>9, <2>1, <2>2
<1>11. /\ due \subseteq Conversation
       /\ \A r \in RowsOf(got) : r.id \in Conversation /\ r.rank = 0
       /\ after = None => got = <<>> /\ bound = None
       /\ after # None => bound # None /\ bound \in Row /\ bound.rank = 0
  BY <1>1 DEF ConversationsInv, ReaderInv, TypeOK
<1>12. \A r \in RowsOf(got') : r.id \in Conversation /\ r.rank = 0
  BY <1>5, <1>6, <1>9, <1>11
<1>13. after' # None =>
         after' \in Conversation /\ after' \in GotIds' /\ page[n].at = lastActive[after']
  BY <1>5, <1>6, <1>8, <1>10
<1>14. ASSUME NEW c \in due \ touched
       PROVE  c \in Listed /\ (c \in GotIds' \/ Awaited(c)')
  <2>1. c \in Listed /\ (c \in GotIds \/ Awaited(c))
    BY DEF ConversationsInv
  <2>2. CASE c \in GotIds
    BY <1>10, <2>1, <2>2
  <2>3. CASE Awaited(c)
    <3>1. Below(RowOf(c), bound)
      BY <1>1, <1>5, <1>11, <2>1, <2>3 DEF Awaited, Below
    <3>2. CASE RowOf(c) \in RowsOf(page)
      BY <1>5, <1>10, <2>1, <3>2
    <3>3. CASE Len(page) = n /\ \A q \in RowsOf(page) : Later(q, RowOf(c))
      <4>1. after' # None /\ page[n] \in RowsOf(page) /\ Later(page[n], RowOf(c))
        BY <1>8, <3>3
      <4>2. page[n] \in Rows
        BY <1>6, <4>1
      <4>3. lastActive[c] < lastActive[after']
        BY <1>5, <1>13, <2>1, <4>1, <4>2 DEF Later, Row
      <4>4. reader' = "asking"
        BY <1>1, <4>1
      <4> QED
        BY <1>1, <2>1, <4>3, <4>4 DEF Awaited
    <3> QED
      BY <1>5, <1>6, <2>1, <3>1, <3>2, <3>3
  <2> QED
    BY <2>1, <2>2, <2>3
<1>15. ASSUME GotIds' \cap touched = {}
       PROVE  TopOfList'
  <2>1. TopOfList
    BY <1>10, <1>15 DEF ConversationsInv
  <2>2. \A x \in RowsOf(got) : x \in Row /\ x.at = lastActive[x.id]
    BY <2>1, GotIdsAre DEF TopOfList
  <2>3. ASSUME NEW x \in RowsOf(got), NEW y \in RowsOf(page)
        PROVE  Later(x, y)
    <3>1. after # None
      <4>1. got = <<>> => RowsOf(got) = {}
        BY DEF RowsOf
      <4> QED
        BY <1>11, <4>1
    <3>2. x.at >= bound.at
      BY <1>1, <2>1, <3>1 DEF TopOfList
    <3>3. Below(y, bound) /\ y \in Rows /\ y \in Row
      BY <1>4, <1>6
    <3>4. y.at < bound.at
      BY <1>5, <1>11, <3>1, <3>3 DEF Below
    <3> QED
      BY <1>11, <2>2, <3>1, <3>2, <3>3, <3>4 DEF Later, Row
  <2>4. Descending(got')
    BY <1>3, <1>4, <1>7, <2>1, <2>3, DescendingJoined DEF TopOfList
  <2>5. \A r \in RowsOf(got') : r.at = lastActive[r.id]
    BY <1>5, <1>6, <1>9, <2>2
  <2>6. ASSUME after' # None, NEW r \in RowsOf(got')
        PROVE  r.at >= lastActive[after']
    <3>1. page[n] \in RowsOf(page) /\ page[n] \in Row
      BY <1>4, <1>6, <1>8, <2>6
    <3>2. r = page[n] \/ Later(r, page[n])
      BY <1>8, <1>9, <2>3, <2>6, <3>1
    <3>3. r \in Row
      BY <1>4, <1>6, <1>9, <2>2
    <3> QED
      BY <1>13, <2>6, <3>1, <3>2, <3>3 DEF Later, Row
  <2>7. RowsOf(got)' = RowsOf(got') /\ Descending(got)' = Descending(got')
    BY DEF RowsOf, Descending
  <2> QED
    BY <1>1, <2>4, <2>5, <2>6, <2>7 DEF TopOfList
<1>16. Listed' = Listed /\ RowsOf(got)' = RowsOf(got') /\ reader' # "reading"
  BY <1>1 DEF Listed, RowsOf
<1> QED
  BY <1>1, <1>11, <1>12, <1>13, <1>14, <1>15, <1>16 DEF ConversationsInv

-----------------------------------------------------------------------------
(* The invariant. *)

LEMMA InitIndInv == Init => IndInv
<1> SUFFICES ASSUME Init
             PROVE  IndInv
  OBVIOUS
<1>1. <<>> \in Seq(Row) /\ Len(<<>>) = 0 /\ DOMAIN <<>> = {}
  OBVIOUS
<1>2. TypeOK
  BY <1>1 DEF Init, TypeOK
<1>3. TimesInv /\ MessageRowsInv
  BY DEF Init, TimesInv, MessageRowsInv, Unique
<1>4. ReaderInv /\ MessagesInv
  BY DEF Init, ReaderInv, MessagesInv
<1>5. RowsOf(got) = {} /\ Descending(got) /\ GotIds = {}
  BY <1>1 DEF Init, RowsOf, Descending, GotIds
<1>6. ConversationsInv
  BY <1>5 DEF Init, ConversationsInv, TopOfList
<1> QED
  BY <1>2, <1>3, <1>4, <1>6 DEF IndInv

LEMMA StepIndInv == IndInv /\ [Next]_vars => IndInv'
<1> SUFFICES ASSUME IndInv, [Next]_vars
             PROVE  IndInv'
  OBVIOUS
<1> USE DEF IndInv
<1>1. TypeOK' /\ TimesInv' /\ MessageRowsInv' /\ ReaderInv'
  BY TypeKept, TimesKept, MessageRowsKept, ReaderKept
<1>2. ASSUME NEW t \in Turn, CommitTurn(t)
      PROVE  MessagesInv' /\ ConversationsInv'
  <2>1. UNCHANGED readerVars /\ deleted' = deleted /\ touched' = touched \cup {chat[t]}
    BY <1>2 DEF CommitTurn
  <2>2. MessagesInv'
    BY <1>2, <2>1, CommittedRows, MessagesFrame
  <2>3. chat[t] \in Conversation
    BY <1>2, CommittedRows
  <2>4. /\ lastActive'[chat[t]] = clock + 1
        /\ \A c \in Conversation \ {chat[t]} : lastActive'[c] = lastActive[c]
    BY <1>2, <2>3 DEF CommitTurn, TypeOK
  <2>5. \A c \in Conversation : lastActive'[c] \in Nat /\ lastActive'[c] >= lastActive[c]
    BY <2>4 DEF TypeOK, TimesInv
  <2>6. ConversationsInv'
    BY <2>1, <2>4, <2>5, WritersConversations
  <2> QED
    BY <2>2, <2>6
<1>3. ASSUME NEW c \in Conversation, Delete(c)
      PROVE  MessagesInv' /\ ConversationsInv'
  <2>1. /\ UNCHANGED <<lastActive, messages, readerVars>>
        /\ touched' = touched \cup {c} /\ deleted' = deleted \cup {c}
    BY <1>3 DEF Delete
  <2>2. \A d \in Conversation : lastActive'[d] \in Nat /\ lastActive'[d] >= lastActive[d]
    BY <2>1 DEF TypeOK
  <2>3. MessagesInv'
    BY <2>1, MessagesFrame
  <2> QED
    BY <2>1, <2>2, <2>3, WritersConversations
<1>4. ASSUME UNCHANGED <<lastActive, deleted, messages, readerVars, touched>>
      PROVE  MessagesInv' /\ ConversationsInv'
  <2>1. \A d \in Conversation : lastActive'[d] \in Nat /\ lastActive'[d] >= lastActive[d]
    BY <1>4 DEF TypeOK
  <2>2. MessagesInv'
    BY <1>4, MessagesFrame
  <2> QED
    BY <1>4, <2>1, <2>2, WritersConversations
<1>5. ASSUME NEW l \in Conversation \cup {"conversations"}, StartReading(l)
      PROVE  MessagesInv' /\ ConversationsInv'
  BY <1>5, StartMessages, StartConversations
<1>6. ASSUME CheckOwned \/ CursorGone \/ ReadCursor
      PROVE  MessagesInv' /\ ConversationsInv'
  BY <1>6, CheckMessages, CheckConversations
<1>7. ASSUME NEW n \in Limits, ReadPage(n)
      PROVE  MessagesInv' /\ ConversationsInv'
  BY <1>7, PageMessages, PageConversations
<1>8. MessagesInv' /\ ConversationsInv'
  BY <1>2, <1>3, <1>4, <1>5, <1>6, <1>7 DEF Next, BeginTurn, AbortTurn, vars, storeVars
<1> QED
  BY <1>1, <1>8

(* Whatever commits and is deleted between the pages, what the client got  *)
(* is the list down to its cursor, and what is due is below.               *)
THEOREM Invariance == Spec => []IndInv
BY InitIndInv, StepIndInv, PTL DEF Spec

(* The rows that are stored and those the client has keep their types.     *)
THEOREM TypeCorrect == Spec => []TypeOK
<1>1. IndInv => TypeOK
  BY DEF IndInv
<1> QED
  BY <1>1, Invariance, PTL

(* Page by page, whatever the limits and whichever turns are committed     *)
(* meanwhile, each message that was there comes, and none comes twice.     *)
THEOREM MessagesAllOnce == Spec => []MessagesComeOnce
<1>1. IndInv => MessagesComeOnce
  <2> SUFFICES ASSUME IndInv, list # "conversations"
               PROVE  GotOnce /\ (reader = "done" => due \subseteq GotIds)
    BY DEF MessagesComeOnce
  <2>1. TypeOK /\ MessageRowsInv /\ MessagesInv
    BY DEF IndInv
  <2>2. /\ got \in Seq(Row) /\ Descending(got) /\ RowsOf(got) \subseteq messages[list]
        /\ Unique(messages[list])
    BY <2>1 DEF TypeOK, MessagesInv, MessageRowsInv
  <2>3. RowsOf(got) = {got[i] : i \in 1..Len(got)}
    BY <2>2, RowsAre
  <2>4. GotOnce
    <3> SUFFICES ASSUME NEW i \in 1..Len(got), NEW j \in 1..Len(got), got[i].id = got[j].id
                 PROVE  i = j
      BY DEF GotOnce
    <3>1. got[i] = got[j]
      BY <2>2, <2>3 DEF Unique
    <3> QED
      BY <2>2, <3>1, DescendingOnce
  <2>5. ASSUME reader = "done", NEW id \in due
        PROVE  id \in GotIds
    <3>1. PICK m \in messages[list] : m.id = id /\ (m \in RowsOf(got) \/ ToCome(m))
      BY <2>1 DEF MessagesInv
    <3>2. m \in RowsOf(got)
      BY <2>5, <3>1 DEF ToCome
    <3> QED
      BY <2>1, <3>1, <3>2, GotIdsAre
  <2> QED
    BY <2>4, <2>5
<1> QED
  BY <1>1, Invariance, PTL

(* A conversation that stays where it is is not left out, and one that     *)
(* comes twice was moved after it came.                                    *)
THEOREM UntouchedCome == Spec => []UntouchedAreListed
<1>1. IndInv => UntouchedAreListed
  <2> SUFFICES ASSUME IndInv, list = "conversations"
               PROVE  /\ reader = "done" => (due \ touched) \subseteq GotIds
                      /\ GotOnce \/ GotIds \cap touched # {}
    BY DEF UntouchedAreListed
  <2>1. TypeOK /\ ConversationsInv
    BY DEF IndInv
  <2>2. reader = "done" => (due \ touched) \subseteq GotIds
    BY <2>1 DEF ConversationsInv, Awaited
  <2>3. ASSUME GotIds \cap touched = {}
        PROVE  GotOnce
    <3> SUFFICES ASSUME NEW i \in 1..Len(got), NEW j \in 1..Len(got), got[i].id = got[j].id
                 PROVE  i = j
      BY DEF GotOnce
    <3>1. TopOfList /\ got \in Seq(Row)
      BY <2>1, <2>3 DEF ConversationsInv, TypeOK
    <3>2. RowsOf(got) = {got[k] : k \in 1..Len(got)}
      BY <3>1, RowsAre
    <3>3. /\ got[i].at = got[j].at /\ got[i].rank = 0 /\ got[j].rank = 0
          /\ got[i] \in Row /\ got[j] \in Row
      BY <2>1, <3>1, <3>2 DEF ConversationsInv, TopOfList
    <3>4. ~Later(got[i], got[j]) /\ ~Later(got[j], got[i])
      BY <3>3 DEF Later, Row
    <3>5. ~(i < j) /\ ~(j < i)
      BY <3>1, <3>4 DEF TopOfList, Descending
    <3> QED
      BY <3>5
  <2> QED
    BY <2>2, <2>3
<1> QED
  BY <1>1, Invariance, PTL
=============================================================================
