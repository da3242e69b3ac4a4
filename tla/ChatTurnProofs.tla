--------------------------- MODULE ChatTurnProofs ---------------------------
(***************************************************************************)
(* Proofs about ChatTurn, for any requests, window, limit of iterations    *)
(* and tool calls in a reply.                                              *)
(*                                                                         *)
(* The inductive invariant says of the history that it consists of whole   *)
(* turns, and of each request how its messages, its log rows and what its  *)
(* client got hang together, depending on where it is.                     *)
(***************************************************************************)
EXTENDS ChatTurn, SequenceTheorems, TLAPS

(* Every tool call in s is answered by the next message and every result   *)
(* answers the one before it.                                              *)
Answered(s) ==
  \A i \in 1..Len(s) :
    /\ s[i].stop = "tool_use" => i < Len(s) /\ Answers(s[i + 1], s[i])
    /\ s[i].results > 0 => i > 1 /\ Answers(s[i], s[i - 1])

(* The messages of a turn stand next to each other.                        *)
InOnePiece(h) ==
  \A i, j, k \in 1..Len(h) :
    (i <= j /\ j <= k /\ h[i].turn = h[k].turn) => h[j].turn = h[i].turn

HistoryInv ==
  /\ \A i \in 1..Len(history) : history[i].turn \in Request \cup {Earlier}
  /\ InOnePiece(history)
  /\ Answered(history)
  /\ \A r \in Request : ~Stored(r) => Logged(r) = {}

(* What r's loop has of the turn so far.                                   *)
Looping == {"ready", "asking", "tools"}
Over == {"committed", "answered", "closed"}

Messages(r) ==
  /\ \A i \in 1..Len(new[r]) : new[r][i].turn = r
  /\ at[r] \in {"new", "prepared"} => new[r] = <<>> /\ pending[r] = {} /\ renamed[r] = None
  /\ at[r] \in {"ready", "asking"} => Len(new[r]) % 2 = 0
  /\ at[r] \notin {"tools", "raised"} => Answered(new[r])

(* The reply whose tools are being run.                                    *)
Running(r) ==
  at[r] = "tools" =>
    LET n == Len(new[r])
        calls == new[r][n].calls
    IN /\ n % 2 = 1
       /\ new[r][n].stop = "tool_use"
       /\ new[r][n].results = 0
       /\ new[r][n].id = n
       /\ Answered(SubSeq(new[r], 1, n - 1))
       /\ Len(calls) \in 1..MaxCalls
       /\ Len(todo[r]) <= Len(calls)
       /\ \A i \in 1..Len(todo[r]) : todo[r][i] = calls[Len(calls) - Len(todo[r]) + i]

(* What r read of the conversation is stored; of a turn that is there only *)
(* in part no other message is older.                                      *)
ContextInv(r) ==
  LET read == context[r].messages IN
  /\ read \subseteq StoredMessages
  /\ \A m \in read :
       \/ context[r].summary /\ \A k \in read : CreatedAt(m) <= CreatedAt(k)
       \/ TurnOf(m) \subseteq read

(* Whether a call of the loop's replies was a rename.                      *)
AskedRename(r) ==
  \E i \in 1..Len(new[r]) :
    new[r][i].stop = "tool_use" /\ \E k \in 1..Len(new[r][i].calls) :
      new[r][i].calls[k] = "rename"

RenameInv(r) == renamed[r] # None => AskedRename(r)

(* The tool calls that have been run and logged.                           *)
Executed(r) ==
  {e \in LoggedCalls(r) : at[r] = "tools" /\ e[2] = Len(new[r]) => e[3] > Len(todo[r])}

PendingInv(r) ==
  /\ \A e \in pending[r] : e[1] = r
  /\ at[r] \in Looping \cup {"returned"} /\ ~Abandoned(r) => pending[r] = Executed(r)

(* The messages of turn r in h are those of block, next to each other.     *)
Holds(h, r, block) ==
  \E p \in 0..(Len(h) - Len(block)) :
    /\ \A i \in 1..Len(block) : h[p + i] = block[i]
    /\ \A i \in 1..Len(h) : h[i].turn = r => i \in (p + 1)..(p + Len(block))

Block(r) == <<Question(r)>> \o new[r]

WholeTurn(r) == Holds(history, r, Block(r))

StoredInv(r) ==
  /\ Stored(r) => at[r] \in Over /\ WholeTurn(r) /\ Logged(r) = LoggedCalls(r)
  /\ at[r] \in {"committed", "answered"} => Stored(r)

(* The statuses of the first n steps of a loop, in the order they are put  *)
(* into the queue of a stream.                                             *)
Emitted(n) ==
  [i \in 1..n |->
     IF i % 2 = 0 THEN "fetching_data"
     ELSE IF i = 1 THEN "understanding" ELSE "analyzing"]

(* What the client of a stream got and is still to get.                    *)
Told(r) == sent[r] \o queue[r]

StreamInv(r) ==
  /\ at[r] = "new" => generator[r] = "none" /\ sent[r] = <<>> /\ queue[r] = <<>>
  /\ generator[r] = "created" => at[r] = "prepared" /\ sent[r] = <<>> /\ queue[r] = <<>>
  /\ at[r] = "prepared" => generator[r] = "created"
  /\ generator[r] = "listening" =>
       /\ at[r] \in Looping \cup {"returned", "raised"}
       /\ at[r] = "ready" => Told(r) = Emitted(Len(new[r]))
       /\ at[r] \in {"asking", "tools"} => Told(r) = Emitted(Len(new[r]) + 1)
       /\ at[r] = "returned" => Told(r) = Append(Emitted(Len(new[r])), "none")
  /\ generator[r] = "joining" =>
       /\ at[r] \in {"returned", "raised", "committed"}
       /\ at[r] \in {"returned", "committed"} => sent[r] = Emitted(Len(new[r]))
  /\ at[r] = "committed" => generator[r] = "joining"
  /\ at[r] = "answered" =>
       generator[r] = "ended" /\ sent[r] = Append(Emitted(Len(new[r])), "done")
  /\ at[r] # "answered" => sent[r] \in Seq(Status)

RequestInv(r) ==
  /\ Messages(r) /\ Running(r) /\ RenameInv(r) /\ PendingInv(r)
  /\ StoredInv(r)
  /\ r \in Streaming => StreamInv(r)

NoStreamOf(r) == generator[r] = "none"

IndInv ==
  /\ TypeOK
  /\ HistoryInv
  /\ \A r \in Request \ Streaming : NoStreamOf(r)
  /\ \A r \in Request : RequestInv(r)
  /\ \A r \in Request : ContextInv(r)

-----------------------------------------------------------------------------
(* Sequences. *)

(* Two sequences one after the other.                                      *)
LEMMA Joined ==
  ASSUME NEW S, NEW s \in Seq(S), NEW t \in Seq(S)
  PROVE  /\ s \o t \in Seq(S)
         /\ Len(s \o t) = Len(s) + Len(t)
         /\ \A i \in 1..Len(s) : (s \o t)[i] = s[i]
         /\ \A i \in 1..Len(t) : (s \o t)[Len(s) + i] = t[i]
         /\ \A i \in (Len(s) + 1)..(Len(s) + Len(t)) : (s \o t)[i] = t[i - Len(s)]
OBVIOUS

(* g is s, t, u and v, one behind the other.                               *)
Pieces(g, s, t, u, v) ==
  /\ Len(g) = Len(s) + Len(t) + Len(u) + Len(v)
  /\ \A i \in 1..Len(s) : g[i] = s[i]
  /\ \A i \in 1..Len(t) : g[Len(s) + i] = t[i]
  /\ \A i \in 1..Len(u) : g[Len(s) + Len(t) + i] = u[i]
  /\ \A i \in 1..Len(v) : g[Len(s) + Len(t) + Len(u) + i] = v[i]

LEMMA JoinedThrice ==
  ASSUME NEW S, NEW s \in Seq(S), NEW t \in Seq(S), NEW u \in Seq(S), NEW v \in Seq(S)
  PROVE  s \o t \o u \o v \in Seq(S) /\ Pieces(s \o t \o u \o v, s, t, u, v)
<1> DEFINE a == s \o t
           b == a \o u
           c == b \o v
<1>1. a \in Seq(S) /\ Len(a) = Len(s) + Len(t)
  OBVIOUS
<1>2. \A i \in 1..Len(s) : a[i] = s[i]
  OBVIOUS
<1>3. \A i \in 1..Len(t) : a[Len(s) + i] = t[i]
  OBVIOUS
<1> HIDE DEF a
<1>4. b \in Seq(S) /\ Len(b) = Len(a) + Len(u)
  BY <1>1, Joined, Zenon
<1>5. \A i \in 1..Len(a) : b[i] = a[i]
  BY <1>1
<1>6. \A i \in 1..Len(u) : b[Len(a) + i] = u[i]
  BY <1>1
<1> HIDE DEF b
<1>7. c \in Seq(S) /\ Len(c) = Len(b) + Len(v)
  BY <1>4, Joined, Zenon
<1>8. \A i \in 1..Len(b) : c[i] = b[i]
  BY <1>4
<1>9. \A i \in 1..Len(v) : c[Len(b) + i] = v[i]
  BY <1>4
<1> HIDE DEF c
<1>10. \A i \in 1..Len(s) : c[i] = s[i]
  BY <1>1, <1>2, <1>4, <1>5, <1>8
<1>11. \A i \in 1..Len(t) : c[Len(s) + i] = t[i]
  BY <1>1, <1>3, <1>4, <1>5, <1>8
<1>12. \A i \in 1..Len(u) : c[Len(s) + Len(t) + i] = u[i]
  BY <1>1, <1>4, <1>6, <1>8
<1>13. \A i \in 1..Len(v) : c[Len(s) + Len(t) + Len(u) + i] = v[i]
  BY <1>1, <1>4, <1>9
<1>14. c \in Seq(S) /\ Len(c) = Len(s) + Len(t) + Len(u) + Len(v)
  BY <1>1, <1>4, <1>7
<1> QED
  BY <1>10, <1>11, <1>12, <1>13, <1>14 DEF a, b, c, Pieces

(* g is h with block after its first p elements.                           *)
Inserted(g, h, p, block) ==
  /\ Len(g) = Len(h) + Len(block)
  /\ \A i \in 1..p : g[i] = h[i]
  /\ \A i \in 1..Len(block) : g[p + i] = block[i]
  /\ \A i \in (p + 1)..Len(h) : g[i + Len(block)] = h[i]

LEMMA PutIn ==
  ASSUME NEW S, NEW h \in Seq(S), NEW x \in S, NEW t \in Seq(S), NEW p \in 0..Len(h)
  PROVE  LET g == SubSeq(h, 1, p) \o <<x>> \o t \o SubSeq(h, p + 1, Len(h))
         IN  g \in Seq(S) /\ Inserted(g, h, p, <<x>> \o t)
<1> DEFINE a == SubSeq(h, 1, p)
           e == <<x>>
           m == e \o t
           c == SubSeq(h, p + 1, Len(h))
           g == a \o e \o t \o c
<1>1. a \in Seq(S) /\ c \in Seq(S) /\ e \in Seq(S)
  OBVIOUS
<1>2. Len(a) = p /\ Len(c) = Len(h) - p /\ Len(e) = 1 /\ e[1] = x
  OBVIOUS
<1>3. \A i \in 1..p : a[i] = h[i]
  OBVIOUS
<1>4. \A i \in 1..(Len(h) - p) : c[i] = h[p + i]
  OBVIOUS
<1>5. Len(m) = 1 + Len(t) /\ m[1] = x /\ \A i \in 1..Len(t) : m[1 + i] = t[i]
  OBVIOUS
<1> HIDE DEF a, c, e, m
<1>6. g \in Seq(S) /\ Pieces(g, a, e, t, c)
  BY <1>1, JoinedThrice, Zenon
<1> HIDE DEF g
<1>7. Len(h) \in Nat /\ Len(t) \in Nat
  OBVIOUS
<1>8. /\ \A i \in 1..p : g[i] = a[i]
      /\ g[p + 1] = x
      /\ \A i \in 1..Len(t) : g[p + 1 + i] = t[i]
      /\ \A i \in 1..(Len(h) - p) : g[p + 1 + Len(t) + i] = c[i]
  BY <1>2, <1>6, <1>7 DEF Pieces
<1>9. \A i \in 1..p : g[i] = h[i]
  BY <1>3, <1>8
<1>10. \A i \in 1..(1 + Len(t)) : g[p + i] = m[i]
  <2> SUFFICES ASSUME NEW i \in 1..(1 + Len(t))
               PROVE  g[p + i] = m[i]
    OBVIOUS
  <2>1. CASE i = 1
    BY <1>5, <1>8, <2>1
  <2>2. CASE i > 1
    <3> DEFINE k == i - 1
    <3>1. k \in 1..Len(t) /\ i = 1 + k /\ p + i = p + 1 + k
      BY <1>7, <2>2
    <3> HIDE DEF k
    <3> QED
      BY <1>5, <1>8, <3>1
  <2> QED
    BY <2>1, <2>2
<1>11. \A i \in (p + 1)..Len(h) : g[i + 1 + Len(t)] = h[i]
  <2> SUFFICES ASSUME NEW i \in (p + 1)..Len(h)
               PROVE  g[i + 1 + Len(t)] = h[i]
    OBVIOUS
  <2> DEFINE k == i - p
  <2>1. k \in 1..(Len(h) - p) /\ i = p + k /\ i + 1 + Len(t) = p + 1 + Len(t) + k
    BY <1>7
  <2> HIDE DEF k
  <2> QED
    BY <1>4, <1>8, <2>1
<1>12. Len(g) = Len(h) + 1 + Len(t)
  BY <1>2, <1>6, <1>7 DEF Pieces
<1>13. \A i \in (p + 1)..Len(h) : i + Len(m) = i + 1 + Len(t)
  BY <1>5, <1>7
<1>14. Len(g) = Len(h) + Len(m)
  BY <1>5, <1>7, <1>12
<1>15. Inserted(g, h, p, m)
  BY <1>5, <1>9, <1>10, <1>11, <1>13, <1>14 DEF Inserted
<1> QED
  BY <1>6, <1>15 DEF a, c, e, m, g

(* A reader takes from the front of a queue what it appends to what it     *)
(* has, a writer appends to the queue.                                     *)
LEMMA QueueMoves ==
  ASSUME NEW S, NEW s \in Seq(S), NEW q \in Seq(S)
  PROVE  /\ q # <<>> => Append(s, Head(q)) \o Tail(q) = s \o q
         /\ \A x \in S : s \o Append(q, x) = Append(s \o q, x)
<1>1. ASSUME q # <<>>
      PROVE  Append(s, Head(q)) \o Tail(q) = s \o q
  <2>1. Append(s, Head(q)) \in Seq(S) /\ Tail(q) \in Seq(S) /\ Len(q) > 0
    BY <1>1
  <2> QED
    BY <1>1, <2>1, \A i \in 1..(Len(s) + Len(q)) :
                     (Append(s, Head(q)) \o Tail(q))[i] = (s \o q)[i]
<1>2. ASSUME NEW x \in S
      PROVE  s \o Append(q, x) = Append(s \o q, x)
  OBVIOUS
<1> QED
  BY <1>1, <1>2

-----------------------------------------------------------------------------
(* Messages and their answers. *)

LEMMA Fields ==
  ASSUME NEW m \in Message
  PROVE  m.results \in Nat /\ m.calls \in Seq({"tool", "rename"}) /\ Len(m.calls) \in Nat
BY DEF Message

LEMMA OfTurn ==
  /\ \A r : /\ Question(r).turn = r /\ Question(r).stop = "none"
            /\ Question(r).results = 0 /\ Question(r).calls = <<>>
  /\ \A r, id, n :
       /\ Results(r, id, n).turn = r /\ Results(r, id, n).stop = "none"
       /\ Results(r, id, n).id = id /\ Results(r, id, n).results = n
  /\ \A r, id, stop, calls :
       /\ Assistant(r, id, stop, calls).turn = r /\ Assistant(r, id, stop, calls).stop = stop
       /\ Assistant(r, id, stop, calls).id = id
       /\ Assistant(r, id, stop, calls).calls = calls
       /\ Assistant(r, id, stop, calls).results = 0
BY DEF Question, Results, Assistant

LEMMA AreMessages ==
  ASSUME NEW r \in Request
  PROVE  /\ Question(r) \in Message
         /\ \A id \in Nat, n \in Nat : Results(r, id, n) \in Message
         /\ \A id \in Nat, stop \in {"end_turn", "tool_use", "max_tokens"} :
              \A calls \in Seq({"tool", "rename"}) : Assistant(r, id, stop, calls) \in Message
BY DEF Question, Results, Assistant, Message

(* The reply r's loop has heard.                                           *)
LEMMA ReplyIs ==
  ASSUME TypeOK, NEW r \in Request, NEW stop \in {"end_turn", "tool_use", "max_tokens"},
         NEW calls \in Seq({"tool", "rename"})
  PROVE  /\ Reply(r, stop, calls) \in Message
         /\ Reply(r, stop, calls).turn = r /\ Reply(r, stop, calls).stop = stop
         /\ Reply(r, stop, calls).id = Len(new[r]) + 1
         /\ Reply(r, stop, calls).calls = calls /\ Reply(r, stop, calls).results = 0
<1>1. Len(new[r]) + 1 \in Nat
  BY DEF TypeOK
<1> QED
  BY <1>1, AreMessages, OfTurn DEF Reply

LEMMA AnsweredOne ==
  ASSUME NEW m \in Message, m.stop # "tool_use", m.results = 0
  PROVE  Answered(<<m>>)
BY DEF Answered

LEMMA AnsweredNone == Answered(<<>>)
BY DEF Answered

LEMMA AnsweredJoined ==
  ASSUME NEW s \in Seq(Message), NEW t \in Seq(Message), Answered(s), Answered(t)
  PROVE  Answered(s \o t)
<1> DEFINE g == s \o t
<1>1. /\ Len(g) = Len(s) + Len(t)
      /\ \A i \in 1..Len(s) : g[i] = s[i]
      /\ \A i \in 1..Len(t) : g[Len(s) + i] = t[i]
  OBVIOUS
<1>2. Len(s) \in Nat /\ Len(t) \in Nat
  OBVIOUS
<1> HIDE DEF g
<1> SUFFICES ASSUME NEW i \in 1..Len(g)
             PROVE  /\ g[i].stop = "tool_use" => i < Len(g) /\ Answers(g[i + 1], g[i])
                    /\ g[i].results > 0 => i > 1 /\ Answers(g[i], g[i - 1])
  BY DEF Answered, g
<1>3. CASE i <= Len(s)
  <2>1. i \in 1..Len(s) /\ g[i] = s[i]
    BY <1>1, <1>2, <1>3
  <2>2. ASSUME i < Len(s)
        PROVE  g[i + 1] = s[i + 1]
    BY <1>1, <1>2, <2>1, <2>2
  <2>3. ASSUME i > 1
        PROVE  g[i - 1] = s[i - 1]
    BY <1>1, <1>2, <2>1, <2>3
  <2> QED
    BY <1>1, <1>2, <2>1, <2>2, <2>3 DEF Answered
<1>4. CASE i > Len(s)
  <2> DEFINE k == i - Len(s)
  <2>1. k \in 1..Len(t) /\ i = Len(s) + k
    BY <1>1, <1>2, <1>4
  <2> HIDE DEF k
  <2>2. g[i] = t[k]
    BY <1>1, <2>1
  <2>3. ASSUME k < Len(t)
        PROVE  i < Len(g) /\ g[i + 1] = t[k + 1]
    <3>1. k + 1 \in 1..Len(t) /\ i + 1 = Len(s) + (k + 1)
      BY <1>2, <2>1, <2>3
    <3> QED
      BY <1>1, <1>2, <2>1, <2>3, <3>1
  <2>4. ASSUME k > 1
        PROVE  i > 1 /\ g[i - 1] = t[k - 1]
    <3>1. k - 1 \in 1..Len(t) /\ i - 1 = Len(s) + (k - 1) /\ i > 1
      BY <1>2, <2>1, <2>4
    <3>2. g[Len(s) + (k - 1)] = t[k - 1]
      BY <1>1, <3>1
    <3> QED
      BY <3>1, <3>2
  <2>5. t[k].stop = "tool_use" => k < Len(t) /\ Answers(t[k + 1], t[k])
    BY <2>1 DEF Answered
  <2>6. t[k].results > 0 => k > 1 /\ Answers(t[k], t[k - 1])
    BY <2>1 DEF Answered
  <2> QED
    BY <2>2, <2>3, <2>4, <2>5, <2>6
<1> QED
  BY <1>1, <1>2, <1>3, <1>4

(* Cut where another turn begins, both parts are answered.                 *)
LEMMA AnsweredFront ==
  ASSUME NEW s \in Seq(Message), Answered(s), NEW p \in 0..Len(s),
         p \in 1..(Len(s) - 1) => s[p].turn # s[p + 1].turn
  PROVE  Answered(SubSeq(s, 1, p))
<1> DEFINE g == SubSeq(s, 1, p)
<1>1. Len(g) = p /\ \A i \in 1..p : g[i] = s[i]
  OBVIOUS
<1>2. Len(s) \in Nat
  OBVIOUS
<1> HIDE DEF g
<1> SUFFICES ASSUME NEW i \in 1..p
             PROVE  /\ g[i].stop = "tool_use" => i < Len(g) /\ Answers(g[i + 1], g[i])
                    /\ g[i].results > 0 => i > 1 /\ Answers(g[i], g[i - 1])
  BY <1>1 DEF Answered, g
<1>3. i \in 1..Len(s) /\ g[i] = s[i]
  BY <1>1, <1>2
<1>4. s[i].stop = "tool_use" => i < Len(s) /\ Answers(s[i + 1], s[i])
  BY <1>3 DEF Answered
<1>5. ASSUME s[i].stop = "tool_use"
      PROVE  i < p /\ g[i + 1] = s[i + 1]
  <2>1. s[i + 1].turn = s[i].turn /\ i < Len(s)
    BY <1>4, <1>5 DEF Answers
  <2>2. i # p
    BY <1>2, <2>1
  <2> QED
    BY <1>1, <1>2, <2>2
<1>6. ASSUME i > 1
      PROVE  g[i - 1] = s[i - 1]
  BY <1>1, <1>6
<1>7. s[i].results > 0 => i > 1 /\ Answers(s[i], s[i - 1])
  BY <1>3 DEF Answered
<1> QED
  BY <1>1, <1>3, <1>4, <1>5, <1>6, <1>7

LEMMA AnsweredBack ==
  ASSUME NEW s \in Seq(Message), Answered(s), NEW p \in 0..Len(s),
         p \in 1..(Len(s) - 1) => s[p].turn # s[p + 1].turn
  PROVE  Answered(SubSeq(s, p + 1, Len(s)))
<1> DEFINE g == SubSeq(s, p + 1, Len(s))
<1>1. Len(g) = Len(s) - p /\ \A i \in 1..(Len(s) - p) : g[i] = s[p + i]
  OBVIOUS
<1>2. Len(s) \in Nat
  OBVIOUS
<1> HIDE DEF g
<1> SUFFICES ASSUME NEW i \in 1..(Len(s) - p)
             PROVE  /\ g[i].stop = "tool_use" => i < Len(g) /\ Answers(g[i + 1], g[i])
                    /\ g[i].results > 0 => i > 1 /\ Answers(g[i], g[i - 1])
  BY <1>1 DEF Answered, g
<1> DEFINE k == p + i
<1>3. k \in 1..Len(s) /\ g[i] = s[k] /\ k = p + i
  BY <1>1, <1>2
<1> HIDE DEF k
<1>4. s[k].stop = "tool_use" => k < Len(s) /\ Answers(s[k + 1], s[k])
  BY <1>3 DEF Answered
<1>5. ASSUME k < Len(s)
      PROVE  i < Len(g) /\ g[i + 1] = s[k + 1]
  <2>1. i + 1 \in 1..(Len(s) - p) /\ p + (i + 1) = k + 1
    BY <1>2, <1>3, <1>5
  <2> QED
    BY <1>1, <1>2, <2>1
<1>6. ASSUME s[k].results > 0
      PROVE  /\ i > 1
             /\ Answers(s[k], s[k - 1])
             /\ g[i - 1] = s[k - 1]
  <2>1. /\ k > 1
        /\ Answers(s[k], s[k - 1])
    BY <1>3, <1>6 DEF Answered
  <2>2. k - 1 \in 1..Len(s)
    BY <1>2, <1>3, <2>1
  <2>3. p # k - 1
    <3> SUFFICES ASSUME p = k - 1
                 PROVE  FALSE
      OBVIOUS
    <3>1. p \in 1..(Len(s) - 1) /\ p + 1 = k
      BY <1>2, <1>3, <2>2
    <3> QED
      BY <2>1, <3>1 DEF Answers
  <2>4. i - 1 \in 1..(Len(s) - p) /\ p + (i - 1) = k - 1
    BY <1>2, <1>3, <2>3
  <2> QED
    BY <1>1, <2>1, <2>4
<1> QED
  BY <1>1, <1>3, <1>4, <1>5, <1>6

-----------------------------------------------------------------------------
(* A turn put into the history. *)

(* No turn has messages on both sides of p.                                *)
Apart(h, p) == \A i \in 1..p, j \in (p + 1)..Len(h) : h[i].turn # h[j].turn

LEMMA BlockIs ==
  ASSUME NEW r \in Request, new[r] \in Seq(Message),
         \A i \in 1..Len(new[r]) : new[r][i].turn = r
  PROVE  /\ Block(r) \in Seq(Message)
         /\ Len(Block(r)) = 1 + Len(new[r])
         /\ \A i \in 1..Len(Block(r)) : Block(r)[i].turn = r
<1> DEFINE t == new[r]
<1>1. t \in Seq(Message) /\ Question(r) \in Message /\ \A i \in 1..Len(t) : t[i].turn = r
  BY AreMessages
<1> HIDE DEF t
<1>2. Question(r).turn = r
  BY OfTurn
<1>3. /\ <<Question(r)>> \o t \in Seq(Message)
      /\ Len(<<Question(r)>> \o t) = 1 + Len(t)
      /\ \A i \in 1..(1 + Len(t)) : (<<Question(r)>> \o t)[i].turn = r
  BY <1>1, <1>2
<1> QED
  BY <1>3 DEF Block, t

LEMMA InsertInserts ==
  ASSUME NEW r \in Request, history \in Seq(Message), new[r] \in Seq(Message),
         NEW p \in 0..Len(history)
  PROVE  Insert(r, p) \in Seq(Message) /\ Inserted(Insert(r, p), history, p, Block(r))
<1>1. Question(r) \in Message
  BY AreMessages
<1> QED
  BY <1>1, PutIn, Zenon DEF Insert, Block

(* Where a message of g comes from.                                        *)
LEMMA Origin ==
  ASSUME NEW h, NEW block, NEW g, Len(h) \in Nat, Len(block) \in Nat,
         NEW p \in 0..Len(h), Inserted(g, h, p, block), NEW j \in 1..Len(g)
  PROVE  \/ j \in 1..p /\ g[j] = h[j]
         \/ j \in (p + 1)..(p + Len(block)) /\ j - p \in 1..Len(block) /\ g[j] = block[j - p]
         \/ /\ j > p + Len(block)
            /\ j - Len(block) \in (p + 1)..Len(h)
            /\ g[j] = h[j - Len(block)]
<1>1. CASE j <= p
  BY <1>1 DEF Inserted
<1>2. CASE j > p /\ j <= p + Len(block)
  <2>1. j - p \in 1..Len(block) /\ p + (j - p) = j
    BY <1>2
  <2>2. g[p + (j - p)] = block[j - p]
    BY <2>1 DEF Inserted
  <2> QED
    BY <1>2, <2>1, <2>2
<1>3. CASE j > p + Len(block)
  <2>1. j - Len(block) \in (p + 1)..Len(h) /\ (j - Len(block)) + Len(block) = j
    BY <1>3 DEF Inserted
  <2>2. g[(j - Len(block)) + Len(block)] = h[j - Len(block)]
    BY <2>1 DEF Inserted
  <2> QED
    BY <1>3, <2>1, <2>2
<1> QED
  BY <1>1, <1>2, <1>3 DEF Inserted

LEMMA InsertedOnePiece ==
  ASSUME NEW h, NEW block, NEW g, Len(h) \in Nat, Len(block) \in Nat,
         NEW p \in 0..Len(h), Inserted(g, h, p, block), Apart(h, p), NEW r,
         \A i \in 1..Len(h) : h[i].turn # r,
         \A i \in 1..Len(block) : block[i].turn = r,
         InOnePiece(h)
  PROVE  InOnePiece(g)
<1> DEFINE n == Len(block)
<1> DEFINE Front(i) == i \in 1..p /\ g[i] = h[i] /\ i \in 1..Len(h)
           Middle(i) == i \in (p + 1)..(p + n) /\ g[i].turn = r
           Back(i) == i > p + n /\ i - n \in (p + 1)..Len(h) /\ g[i] = h[i - n]
                        /\ i - n \in 1..Len(h)
<1>1. Len(g) \in Nat /\ n \in Nat /\ Len(h) \in Nat
  BY DEF Inserted
<1>2. ASSUME NEW i \in 1..Len(g)
      PROVE  Front(i) \/ Middle(i) \/ Back(i)
  <2>1. \/ i \in 1..p /\ g[i] = h[i]
        \/ i \in (p + 1)..(p + n) /\ i - p \in 1..n /\ g[i] = block[i - p]
        \/ i > p + n /\ i - n \in (p + 1)..Len(h) /\ g[i] = h[i - n]
    BY Origin
  <2>2. CASE i \in 1..p /\ g[i] = h[i]
    BY <2>2
  <2>3. CASE i \in (p + 1)..(p + n) /\ i - p \in 1..n /\ g[i] = block[i - p]
    BY <2>3
  <2>4. CASE i > p + n /\ i - n \in (p + 1)..Len(h) /\ g[i] = h[i - n]
    BY <2>4
  <2> QED
    BY <2>1, <2>2, <2>3, <2>4
<1>3. \A i \in 1..Len(g) : (Front(i) \/ Back(i)) => g[i].turn # r
  OBVIOUS
<1> SUFFICES ASSUME NEW i \in 1..Len(g), NEW j \in 1..Len(g), NEW k \in 1..Len(g),
                    i <= j, j <= k, g[i].turn = g[k].turn
             PROVE  g[j].turn = g[i].turn
  BY DEF InOnePiece
<1>4. CASE Middle(i)
  <2>1. Middle(k)
    BY <1>2, <1>3, <1>4
  <2>2. Middle(j)
    BY <1>1, <1>2, <1>4, <2>1
  <2> QED
    BY <1>4, <2>2
<1>5. CASE Front(i)
  <2>1. ~Middle(k)
    BY <1>3, <1>5
  <2>2. ~Back(k)
    BY <1>5 DEF Apart
  <2>3. Front(k)
    BY <1>2, <2>1, <2>2
  <2>4. Front(j)
    BY <1>1, <1>2, <1>5, <2>3
  <2> QED
    BY <1>5, <2>3, <2>4 DEF InOnePiece
<1>6. CASE Back(i)
  <2>1. Back(j) /\ Back(k)
    BY <1>1, <1>2, <1>6
  <2>2. i - n <= j - n /\ j - n <= k - n
    BY <1>1
  <2> QED
    BY <1>6, <2>1, <2>2 DEF InOnePiece
<1> QED
  BY <1>2, <1>4, <1>5, <1>6

(* The new turn stands in g as its block.                                  *)
LEMMA InsertedHolds ==
  ASSUME NEW h, NEW block, NEW g, Len(h) \in Nat, Len(block) \in Nat,
         NEW p \in 0..Len(h), Inserted(g, h, p, block), NEW r,
         \A i \in 1..Len(h) : h[i].turn # r
  PROVE  Holds(g, r, block)
<1>1. Len(g) = Len(h) + Len(block)
  BY DEF Inserted
<1>2. p \in 0..(Len(g) - Len(block))
  BY <1>1
<1>3. \A i \in 1..Len(block) : g[p + i] = block[i]
  BY DEF Inserted
<1>4. ASSUME NEW j \in 1..Len(g), g[j].turn = r
      PROVE  j \in (p + 1)..(p + Len(block))
  <2>1. CASE j \in 1..p /\ g[j] = h[j]
    BY <1>4, <2>1
  <2>2. CASE j - Len(block) \in (p + 1)..Len(h) /\ g[j] = h[j - Len(block)]
    BY <1>4, <2>2
  <2> QED
    BY <2>1, <2>2, Origin
<1> QED
  BY <1>2, <1>3, <1>4 DEF Holds

(* Other turns stand in g as they did in h.                                *)
LEMMA InsertedKeeps ==
  ASSUME NEW h, NEW block, NEW g, Len(h) \in Nat, Len(block) \in Nat,
         NEW p \in 0..Len(h), Inserted(g, h, p, block), Apart(h, p),
         NEW q, \A i \in 1..Len(block) : block[i].turn # q,
         NEW other, Len(other) \in Nat, Len(other) >= 1,
         \A i \in 1..Len(other) : other[i].turn = q,
         Holds(h, q, other)
  PROVE  Holds(g, q, other)
<1> DEFINE n == Len(block)
           m == Len(other)
<1>1. Len(g) = Len(h) + n
  BY DEF Inserted
<1>2. PICK o \in 0..(Len(h) - m) :
        /\ \A i \in 1..m : h[o + i] = other[i]
        /\ \A i \in 1..Len(h) : h[i].turn = q => i \in (o + 1)..(o + m)
  BY DEF Holds
<1>3. \A i \in 1..m : h[o + i].turn = q /\ o + i \in 1..Len(h)
  BY <1>2
<1>4. h[o + 1].turn = q /\ h[o + m].turn = q /\ o + 1 \in 1..Len(h) /\ o + m \in 1..Len(h)
  BY <1>3
<1>5. ASSUME NEW j \in 1..Len(g), g[j].turn = q
      PROVE  \/ j \in 1..p /\ j \in (o + 1)..(o + m)
             \/ j - n \in (p + 1)..Len(h) /\ j - n \in (o + 1)..(o + m)
  <2>1. CASE j \in 1..p /\ g[j] = h[j]
    BY <1>2, <1>5, <2>1
  <2>2. CASE j - n \in (p + 1)..Len(h) /\ g[j] = h[j - n]
    BY <1>2, <1>5, <2>2
  <2>3. CASE j - p \in 1..n /\ g[j] = block[j - p]
    BY <1>5, <2>3
  <2> QED
    BY <2>1, <2>2, <2>3, Origin
<1>6. CASE o + m <= p
  <2>1. \A i \in 1..m : g[o + i] = other[i]
    BY <1>2, <1>6 DEF Inserted
  <2>2. \A j \in 1..Len(g) : g[j].turn = q => j \in (o + 1)..(o + m)
    BY <1>5, <1>6
  <2>3. o \in 0..(Len(g) - m)
    BY <1>1
  <2> QED
    BY <2>1, <2>2, <2>3 DEF Holds
<1>7. CASE o + 1 > p
  <2>1. ASSUME NEW i \in 1..m
        PROVE  g[(o + n) + i] = other[i]
    <3>1. o + i \in (p + 1)..Len(h) /\ (o + i) + n = (o + n) + i
      BY <1>3, <1>7
    <3>2. g[(o + i) + n] = h[o + i]
      BY <3>1 DEF Inserted
    <3> QED
      BY <1>2, <3>1, <3>2
  <2>2. \A j \in 1..Len(g) : g[j].turn = q => j \in ((o + n) + 1)..((o + n) + m)
    BY <1>5, <1>7
  <2>3. o + n \in 0..(Len(g) - m)
    BY <1>1
  <2> QED
    BY <2>1, <2>2, <2>3 DEF Holds
<1>8. CASE o + 1 <= p /\ o + m > p
  BY <1>4, <1>8 DEF Apart
<1> QED
  BY <1>6, <1>7, <1>8

-----------------------------------------------------------------------------
(* The parts of the invariant that speak of one request depend on what it  *)
(* has of its own and on what is committed. *)

Loop(q) == <<at[q], new[q], todo[q], renamed[q], context[q]>>
Same(q) == UNCHANGED <<Loop(q), pending[q], queue[q], generator[q], sent[q]>>
Committed == <<history, logs>>

LEMMA MessagesFrame ==
  ASSUME NEW q, Messages(q), UNCHANGED <<at[q], new[q], renamed[q], pending[q]>>
  PROVE  Messages(q)'
BY DEF Messages, Answered, Answers

LEMMA RunningFrame ==
  ASSUME NEW q, Running(q), UNCHANGED <<at[q], new[q], todo[q]>>
  PROVE  Running(q)'
BY DEF Running, Answered, Answers

LEMMA RenameFrame ==
  ASSUME NEW q, RenameInv(q), UNCHANGED <<new[q], renamed[q]>>
  PROVE  RenameInv(q)'
BY DEF RenameInv, AskedRename

LEMMA LoggedCallsFrame ==
  ASSUME NEW q, UNCHANGED new[q]
  PROVE  LoggedCalls(q)' = LoggedCalls(q)
BY DEF LoggedCalls

LEMMA ExecutedFrame ==
  ASSUME NEW q, UNCHANGED <<at[q], new[q], todo[q]>>
  PROVE  Executed(q)' = Executed(q)
BY LoggedCallsFrame DEF Executed

LEMMA PendingFrame ==
  ASSUME NEW q, PendingInv(q), UNCHANGED <<at[q], new[q], todo[q], pending[q], generator[q]>>
  PROVE  PendingInv(q)'
BY ExecutedFrame DEF PendingInv, Abandoned

LEMMA StoredFrame ==
  ASSUME NEW q, UNCHANGED Committed
  PROVE  (Stored(q)' <=> Stored(q)) /\ Logged(q)' = Logged(q)
BY DEF Stored, Logged, Committed

LEMMA StoredInvFrame ==
  ASSUME NEW q, StoredInv(q), UNCHANGED <<Committed, new[q]>>, UNCHANGED at[q]
  PROVE  StoredInv(q)'
<1>1. (Stored(q)' <=> Stored(q)) /\ Logged(q)' = Logged(q) /\ LoggedCalls(q)' = LoggedCalls(q)
  BY StoredFrame, LoggedCallsFrame
<1>2. WholeTurn(q) => WholeTurn(q)'
  BY DEF WholeTurn, Block, Committed, Holds
<1> QED
  BY <1>1, <1>2 DEF StoredInv

LEMMA StreamFrame ==
  ASSUME NEW q, StreamInv(q), UNCHANGED <<at[q], new[q], queue[q], generator[q], sent[q]>>
  PROVE  StreamInv(q)'
BY DEF StreamInv, Told

LEMMA Frame ==
  ASSUME NEW q \in Request, RequestInv(q), Same(q), UNCHANGED Committed
  PROVE  RequestInv(q)'
<1>1. /\ UNCHANGED <<at[q], new[q], todo[q], renamed[q], context[q]>>
      /\ UNCHANGED <<pending[q], queue[q], generator[q], sent[q]>>
  BY DEF Same, Loop
<1>2. Messages(q)' /\ Running(q)' /\ RenameInv(q)' /\ PendingInv(q)'
  BY <1>1, MessagesFrame, RunningFrame, RenameFrame, PendingFrame DEF RequestInv
<1>3. StoredInv(q)'
  BY <1>1, StoredInvFrame DEF RequestInv
<1>4. q \in Streaming => StreamInv(q)'
  BY <1>1, StreamFrame DEF RequestInv
<1> QED
  BY <1>2, <1>3, <1>4 DEF RequestInv

LEMMA HistoryFrame ==
  ASSUME HistoryInv, UNCHANGED Committed
  PROVE  HistoryInv'
BY StoredFrame DEF HistoryInv, Committed, InOnePiece, Answered, Answers

-----------------------------------------------------------------------------
(* What a request's step leaves alone. *)

LEMMA OthersSame ==
  ASSUME TypeOK, NEW r \in Request, RequestStep(r) \/ Disconnect(r) \/ Kill(r),
         NEW q \in Request, q # r
  PROVE  Same(q)
<1>1. /\ DOMAIN at = Request /\ DOMAIN began = Request /\ DOMAIN isNew = Request
      /\ DOMAIN oldTitle = Request /\ DOMAIN context = Request /\ DOMAIN new = Request
      /\ DOMAIN todo = Request /\ DOMAIN renamed = Request /\ DOMAIN pending = Request
      /\ DOMAIN generator = Request /\ DOMAIN queue = Request /\ DOMAIN sent = Request
  BY DEF TypeOK
<1>2. ASSUME NEW s, queue' = Put(r, s)
      PROVE  queue'[q] = queue[q]
  BY <1>1, <1>2 DEF Put
<1>3. ASSUME NEW how, Leave(r, how), generator' = generator \/ generator'[q] = generator[q],
             sent' = sent \/ sent'[q] = sent[q]
      PROVE  Same(q)
  <2>1. /\ at'[q] = at[q] /\ pending'[q] = pending[q] /\ new'[q] = new[q]
        /\ todo'[q] = todo[q] /\ renamed'[q] = renamed[q] /\ queue'[q] = queue[q]
        /\ context'[q] = context[q]
    BY <1>1, <1>3 DEF Leave
  <2> QED
    BY <1>3, <2>1 DEF Same, Loop
<1>4. CASE Prepare(r)
  BY <1>1, <1>4 DEF Prepare, Same, Loop
<1>5. CASE StartStream(r)
  BY <1>1, <1>5 DEF StartStream, Same, Loop, requestVars
<1>6. CASE Ask(r)
  BY <1>1, <1>2, <1>6 DEF Ask, Same, Loop, requestVars, streamVars
<1>7. CASE ReplyToolUse(r)
  BY <1>1, <1>2, <1>7 DEF ReplyToolUse, Same, Loop, requestVars, streamVars
<1>8. CASE ReplyFinal(r)
  BY <1>1, <1>2, <1>8 DEF ReplyFinal, LoopEnds, Same, Loop, requestVars, streamVars
<1>9. CASE ModelRaises(r)
  BY <1>1, <1>2, <1>9 DEF ModelRaises, LoopEnds, Same, Loop, requestVars, streamVars
<1>10. CASE RunRename(r)
  BY <1>1, <1>2, <1>10 DEF RunRename, Same, Loop, requestVars, streamVars
<1>11. CASE RunTool(r)
  BY <1>1, <1>2, <1>11 DEF RunTool, Same, Loop, requestVars, streamVars
<1>12. CASE ToolRaises(r)
  BY <1>1, <1>2, <1>12 DEF ToolRaises, LoopEnds, Same, Loop, requestVars, streamVars
<1>13. CASE AppendResults(r)
  <2>1. at'[q] = at[q] /\ queue'[q] = queue[q]
    BY <1>1, <1>2, <1>13 DEF AppendResults, LoopEnds
  <2> QED
    BY <1>1, <1>13, <2>1 DEF AppendResults, Same, Loop, requestVars, streamVars
<1>14. CASE SendStatus(r)
  BY <1>1, <1>14 DEF SendStatus, Same, Loop, requestVars
<1>15. CASE Join(r)
  BY <1>1, <1>15 DEF Join, Same, Loop, requestVars
<1>16. CASE Finalize(r)
  BY <1>1, <1>16 DEF Finalize, Same, Loop, requestVars, streamVars
<1>17. CASE Respond(r)
  BY <1>1, <1>3, <1>17 DEF Respond, streamVars
<1>18. CASE Fail(r)
  BY <1>1, <1>3, <1>18 DEF Fail
<1>19. CASE Disconnect(r)
  <2>1. CASE Leave(r, "closed")
    BY <1>1, <1>3, <1>19, <2>1 DEF Disconnect
  <2>2. CASE /\ pending' = [pending EXCEPT ![r] = {}]
             /\ UNCHANGED <<storeVars, at, new, todo, renamed, queue, requestVars>>
    BY <1>1, <1>19, <2>2 DEF Disconnect, Same, Loop, requestVars
  <2> QED
    BY <1>19, <2>1, <2>2 DEF Disconnect
<1>20. CASE Kill(r)
  BY <1>1, <1>3, <1>20 DEF Kill
<1> QED
  BY <1>4, <1>5, <1>6, <1>7, <1>8, <1>9, <1>10, <1>11, <1>12, <1>13, <1>14, <1>15, <1>16,
     <1>17, <1>18, <1>19, <1>20 DEF RequestStep, LoopStep

(* Only a commit changes the history or the log.                           *)
LEMMA OnlyFinalizeCommits ==
  ASSUME NEW r \in Request,
         RequestStep(r) \/ Disconnect(r) \/ Kill(r) \/ Rename \/ Summarize, ~Finalize(r)
  PROVE  UNCHANGED Committed
<1>1. ASSUME Prepare(r) \/ StartStream(r) \/ SendStatus(r) \/ Join(r) \/ Rename \/ Summarize
      PROVE  UNCHANGED Committed
  BY <1>1 DEF Prepare, StartStream, SendStatus, Join, Rename, Summarize, storeVars, Committed
<1>2. ASSUME LoopStep(r)
      PROVE  UNCHANGED Committed
  BY <1>2 DEF LoopStep, Ask, ReplyToolUse, ReplyFinal, ModelRaises, RunRename, RunTool,
              ToolRaises, AppendResults, storeVars, Committed
<1>3. ASSUME Respond(r) \/ Fail(r) \/ Disconnect(r) \/ Kill(r)
      PROVE  UNCHANGED Committed
  BY <1>3 DEF Respond, Fail, Disconnect, Kill, Leave, storeVars, Committed
<1> QED
  BY <1>1, <1>2, <1>3 DEF RequestStep

-----------------------------------------------------------------------------
(* Types. *)

LEMMA PutTyped ==
  ASSUME queue \in [Request -> Seq(Status \cup {"none"})], NEW r \in Request,
         NEW s \in Status \cup {"none"}, queue' = Put(r, s)
  PROVE  queue' \in [Request -> Seq(Status \cup {"none"})]
<1>1. Append(queue[r], s) \in Seq(Status \cup {"none"})
  OBVIOUS
<1> QED
  BY <1>1 DEF Put

LEMMA CallsTyped ==
  ASSUME NEW r, NEW calls \in Calls(r)
  PROVE  /\ calls \in Seq({"tool", "rename"})
         /\ Len(calls) \in 1..MaxCalls
         /\ isNew[r] => \A i \in 1..Len(calls) : calls[i] = "tool"
<1>1. PICK n \in 1..MaxCalls :
        calls \in [1..n -> IF isNew[r] THEN {"tool"} ELSE {"tool", "rename"}]
  BY DEF Calls
<1>2. n \in Nat
  BY ChatTurnAssumption
<1>3. \A i \in 1..n : calls[i] \in {"tool", "rename"} /\ (isNew[r] => calls[i] = "tool")
  BY <1>1
<1>4. calls \in Seq({"tool", "rename"}) /\ Len(calls) = n
  BY <1>1, <1>2, <1>3
<1> QED
  BY <1>3, <1>4

LEMMA LeaveTyped ==
  ASSUME TypeOK, NEW r \in Request, NEW how \in {"answered", "closed"}, Leave(r, how),
         generator' \in [Request -> {"none", "created", "listening", "joining", "ended"}],
         sent' \in [Request -> Seq(Status \cup {"done"})]
  PROVE  TypeOK'
<1>1. /\ <<>> \in Seq(Message) /\ <<>> \in Seq({"tool", "rename"})
      /\ <<>> \in Seq(Status \cup {"none"}) /\ NoContext \in Context
  BY DEF NoContext, Context
<1>2. history' \in Seq(Message) /\ logs' \subseteq ToolCall /\ title' \in Title \cup {None}
        /\ summarized' \in BOOLEAN /\ clock' \in Nat
  BY DEF TypeOK, Leave, storeVars
<1>3. at' \in [Request -> {"new", "prepared", "ready", "asking", "tools", "returned",
                           "raised", "committed", "answered", "closed"}]
  BY DEF TypeOK, Leave
<1>4. new' \in [Request -> Seq(Message)] /\ began' \in [Request -> Nat]
  BY <1>1 DEF TypeOK, Leave
<1>5. /\ isNew' \in [Request -> BOOLEAN] /\ oldTitle' \in [Request -> Title \cup {None}]
      /\ context' \in [Request -> Context]
      /\ todo' \in [Request -> Seq({"tool", "rename"})]
      /\ renamed' \in [Request -> Title \cup {None}]
      /\ pending' \in [Request -> SUBSET ToolCall]
      /\ queue' \in [Request -> Seq(Status \cup {"none"})]
  BY <1>1 DEF TypeOK, Leave
<1> QED
  BY <1>2, <1>3, <1>4, <1>5 DEF TypeOK

LEMMA PrepareTyped ==
  ASSUME TypeOK, NEW r \in Request, Prepare(r)
  PROVE  TypeOK'
<1>1. StoredMessages \subseteq Message
  BY DEF StoredMessages, TypeOK
<1>2. ASSUME NEW c \in BuildChatContext
      PROVE  c \in Context
  <2>1. CASE c = [summary |-> FALSE, messages |-> StoredMessages]
    BY <1>1, <2>1 DEF Context
  <2>2. CASE c \in [summary : {TRUE}, messages : Newest(Window)]
    BY <1>1, <2>2 DEF Context, Newest
  <2> QED
    BY <2>1, <2>2 DEF BuildChatContext
<1>3. context' \in [Request -> Context]
  BY <1>2 DEF Prepare, TypeOK
<1>4. /\ at' \in [Request -> {"new", "prepared", "ready", "asking", "tools", "returned",
                           "raised", "committed", "answered", "closed"}]
      /\ generator' \in [Request -> {"none", "created", "listening", "joining", "ended"}]
  BY DEF Prepare, TypeOK
<1>5. /\ clock' \in Nat /\ began' \in [Request -> Nat]
      /\ isNew' \in [Request -> BOOLEAN] /\ oldTitle' \in [Request -> Title \cup {None}]
  BY DEF Prepare, TypeOK
<1> QED
  BY <1>3, <1>4, <1>5 DEF Prepare, TypeOK, storeVars

(* The loop: what it appends to its messages and puts into the queue.      *)
LEMMA LoopTyped ==
  ASSUME TypeOK, NEW r \in Request,
         new' = new \/ \E m \in Message : new' = [new EXCEPT ![r] = Append(@, m)],
         queue' = queue \/ \E s \in Status \cup {"none"} : queue' = Put(r, s),
         at' = at \/ \E place \in {"ready", "asking", "tools", "returned", "raised"} :
                        at' = [at EXCEPT ![r] = place],
         todo' = todo \/ \E calls \in Seq({"tool", "rename"}) : todo' = [todo EXCEPT ![r] = calls],
         renamed' = renamed \/ \E t \in Title \cup {None} : renamed' = [renamed EXCEPT ![r] = t],
         pending' = pending
           \/ \E row \in ToolCall : pending' = [pending EXCEPT ![r] = @ \cup {row}],
         UNCHANGED <<storeVars, requestVars, streamVars>>
  PROVE  TypeOK'
<1>1. new' \in [Request -> Seq(Message)]
  <2>1. ASSUME NEW m \in Message, new' = [new EXCEPT ![r] = Append(@, m)]
        PROVE  new' \in [Request -> Seq(Message)]
    <3>1. Append(new[r], m) \in Seq(Message)
      BY DEF TypeOK
    <3> QED
      BY <2>1, <3>1 DEF TypeOK
  <2> QED
    BY <2>1 DEF TypeOK
<1>2. queue' \in [Request -> Seq(Status \cup {"none"})]
  BY PutTyped DEF TypeOK
<1>3. at' \in [Request -> {"new", "prepared", "ready", "asking", "tools", "returned",
                           "raised", "committed", "answered", "closed"}]
  BY DEF TypeOK
<1>4. todo' \in [Request -> Seq({"tool", "rename"})]
  <2>1. ASSUME NEW calls \in Seq({"tool", "rename"}), todo' = [todo EXCEPT ![r] = calls]
        PROVE  todo' \in [Request -> Seq({"tool", "rename"})]
    BY <2>1 DEF TypeOK
  <2> QED
    BY <2>1 DEF TypeOK
<1>5. renamed' \in [Request -> Title \cup {None}]
  <2>1. ASSUME NEW t \in Title \cup {None}, renamed' = [renamed EXCEPT ![r] = t]
        PROVE  renamed' \in [Request -> Title \cup {None}]
    BY <2>1 DEF TypeOK
  <2> QED
    BY <2>1 DEF TypeOK
<1>6. pending' \in [Request -> SUBSET ToolCall]
  <2>1. ASSUME NEW row \in ToolCall, pending' = [pending EXCEPT ![r] = @ \cup {row}]
        PROVE  pending' \in [Request -> SUBSET ToolCall]
    <3>1. pending[r] \cup {row} \in SUBSET ToolCall
      BY DEF TypeOK
    <3> QED
      BY <2>1, <3>1 DEF TypeOK
  <2> QED
    BY <2>1 DEF TypeOK
<1> QED
  BY <1>1, <1>2, <1>3, <1>4, <1>5, <1>6 DEF TypeOK, storeVars, requestVars, streamVars

LEMMA LoopStepTyped ==
  ASSUME TypeOK, NEW r \in Request, LoopStep(r), Running(r)
  PROVE  TypeOK'
<1>1. CASE Ask(r)
  BY <1>1, LoopTyped DEF Ask, Status
<1>2. CASE ReplyToolUse(r)
  <2>1. PICK calls \in Calls(r) :
          /\ new' = [new EXCEPT ![r] = Append(@, Reply(r, "tool_use", calls))]
          /\ todo' = [todo EXCEPT ![r] = calls]
    BY <1>2 DEF ReplyToolUse
  <2>2. Reply(r, "tool_use", calls) \in Message /\ calls \in Seq({"tool", "rename"})
    BY CallsTyped, ReplyIs
  <2> QED
    BY <1>2, <2>1, <2>2, LoopTyped DEF ReplyToolUse, Status
<1>3. CASE ReplyFinal(r)
  <2>1. \E m \in Message : new' = [new EXCEPT ![r] = Append(@, m)]
    <3>0. <<>> \in Seq({"tool", "rename"})
      OBVIOUS
    <3>1. Reply(r, "end_turn", <<>>) \in Message
      BY <3>0, ReplyIs
    <3>2. \A calls \in Calls(r) : Reply(r, "max_tokens", calls) \in Message
      BY CallsTyped, ReplyIs
    <3> QED
      BY <1>3, <3>1, <3>2 DEF ReplyFinal
  <2> QED
    BY <1>3, <2>1, LoopTyped DEF ReplyFinal, LoopEnds
<1>4. CASE ModelRaises(r)
  BY <1>4, LoopTyped DEF ModelRaises, LoopEnds
<1>5. CASE RunRename(r)
  <2>1. Tail(todo[r]) \in Seq({"tool", "rename"})
    BY <1>5 DEF TypeOK, RunRename
  <2> QED
    BY <1>5, <2>1, LoopTyped DEF RunRename
<1>6. CASE RunTool(r)
  <2>1. Tail(todo[r]) \in Seq({"tool", "rename"})
    BY <1>6 DEF TypeOK, RunTool
  <2>2. LogRow(r) \in ToolCall
    BY DEF TypeOK, LogRow, ToolCall
  <2> QED
    BY <1>6, <2>1, <2>2, LoopTyped DEF RunTool
<1>7. CASE ToolRaises(r)
  BY <1>7, LoopTyped DEF ToolRaises, LoopEnds
<1>8. CASE AppendResults(r)
  <2>1. new' = [new EXCEPT ![r] = Append(@, ResultsNow(r))]
    BY <1>8 DEF AppendResults
  <2>2. Len(new[r]) \in Nat /\ Len(new[r][Len(new[r])].calls) \in Nat
    BY <1>8, ChatTurnAssumption DEF AppendResults, Running, TypeOK
  <2>3. ResultsNow(r) \in Message
    BY <2>2, AreMessages DEF ResultsNow
  <2>4. \/ at' = [at EXCEPT ![r] = "ready"] /\ queue' = queue
        \/ at' = [at EXCEPT ![r] = "returned"] /\ queue' = Put(r, "none")
    BY <1>8 DEF AppendResults, LoopEnds
  <2> QED
    BY <1>8, <2>1, <2>3, <2>4, LoopTyped DEF AppendResults
<1> QED
  BY <1>1, <1>2, <1>3, <1>4, <1>5, <1>6, <1>7, <1>8 DEF LoopStep

LEMMA FinalizeTyped ==
  ASSUME TypeOK, NEW r \in Request, Finalize(r)
  PROVE  TypeOK'
<1>1. PICK p \in 0..Len(history) : Place(r, p) /\ history' = Insert(r, p)
  BY DEF Finalize
<1>2. history' \in Seq(Message)
  BY <1>1, InsertInserts DEF TypeOK
<1>3. logs' \subseteq ToolCall
  BY DEF Finalize, TypeOK
<1>4. title' \in Title \cup {None}
  BY DEF Finalize, TypeOK
<1>5. pending' \in [Request -> SUBSET ToolCall]
  BY DEF Finalize, TypeOK
<1>6. at' \in [Request -> {"new", "prepared", "ready", "asking", "tools", "returned",
                           "raised", "committed", "answered", "closed"}]
  BY DEF Finalize, TypeOK
<1> QED
  BY <1>2, <1>3, <1>4, <1>5, <1>6 DEF Finalize, TypeOK, requestVars, streamVars

LEMMA StreamStepTyped ==
  ASSUME TypeOK, NEW r \in Request, StartStream(r) \/ SendStatus(r) \/ Join(r)
  PROVE  TypeOK'
<1>1. CASE StartStream(r)
  BY <1>1 DEF StartStream, TypeOK, storeVars, requestVars
<1>2. CASE SendStatus(r)
  <2>1. Head(queue[r]) \in Status /\ Tail(queue[r]) \in Seq(Status \cup {"none"})
    BY <1>2 DEF SendStatus, TypeOK
  <2>2. Append(sent[r], Head(queue[r])) \in Seq(Status \cup {"done"})
    BY <2>1 DEF TypeOK
  <2>3. sent' \in [Request -> Seq(Status \cup {"done"})]
    BY <1>2, <2>2 DEF SendStatus, TypeOK
  <2>4. queue' \in [Request -> Seq(Status \cup {"none"})]
    BY <1>2, <2>1 DEF SendStatus, TypeOK
  <2> QED
    BY <1>2, <2>3, <2>4 DEF SendStatus, TypeOK, storeVars, requestVars
<1>3. CASE Join(r)
  <2>1. Tail(queue[r]) \in Seq(Status \cup {"none"})
    BY <1>3 DEF Join, TypeOK
  <2>2. queue' \in [Request -> Seq(Status \cup {"none"})]
    BY <1>3, <2>1 DEF Join, TypeOK
  <2> QED
    BY <1>3, <2>2 DEF Join, TypeOK, storeVars, requestVars
<1> QED
  BY <1>1, <1>2, <1>3

LEMMA EndTyped ==
  ASSUME TypeOK, NEW r \in Request, Respond(r) \/ Fail(r) \/ Disconnect(r) \/ Kill(r)
  PROVE  TypeOK'
<1>1. generator' \in [Request -> {"none", "created", "listening", "joining", "ended"}]
  BY DEF Respond, Fail, Disconnect, Kill, TypeOK, streamVars
<1>2. sent' \in [Request -> Seq(Status \cup {"done"})]
  <2>1. Append(sent[r], "done") \in Seq(Status \cup {"done"})
    BY DEF TypeOK
  <2> QED
    BY <2>1 DEF Respond, Fail, Disconnect, Kill, TypeOK, streamVars
<1>3. CASE Leave(r, "answered") \/ Leave(r, "closed")
  BY <1>1, <1>2, <1>3, LeaveTyped
<1>4. CASE /\ pending' = [pending EXCEPT ![r] = {}]
           /\ UNCHANGED <<storeVars, at, new, todo, renamed, queue, requestVars>>
  BY <1>1, <1>2, <1>4 DEF TypeOK, storeVars, requestVars
<1> QED
  BY <1>3, <1>4 DEF Respond, Fail, Disconnect, Kill

LEMMA TypeKept ==
  ASSUME IndInv, [Next]_vars
  PROVE  TypeOK'
<1>1. TypeOK
  BY DEF IndInv
<1>2. ASSUME NEW r \in Request, RequestStep(r) \/ Disconnect(r) \/ Kill(r)
      PROVE  TypeOK'
  BY <1>1, <1>2, PrepareTyped, LoopStepTyped, FinalizeTyped, StreamStepTyped, EndTyped
     DEF RequestStep, IndInv, RequestInv
<1>3. CASE Rename
  BY <1>1, <1>3 DEF Rename, TypeOK, loopVars, requestVars, streamVars
<1>4. CASE Summarize
  BY <1>1, <1>4 DEF Summarize, TypeOK, loopVars, requestVars, streamVars
<1>5. CASE UNCHANGED vars
  BY <1>1, <1>5 DEF vars, TypeOK, storeVars, loopVars, requestVars, streamVars
<1> QED
  BY <1>2, <1>3, <1>4, <1>5 DEF Next

-----------------------------------------------------------------------------
(* What the loop appends. *)

LEMMA NoCalls ==
  ASSUME NEW q, new[q] = <<>>
  PROVE  LoggedCalls(q) = {}
BY DEF LoggedCalls

LEMMA LoggedCallsOf ==
  ASSUME NEW q, NEW e
  PROVE  e \in LoggedCalls(q) <=>
           /\ e \in {q} \X (1..Len(new[q])) \X (1..MaxCalls)
           /\ new[q][e[2]].stop = "tool_use"
           /\ e[3] <= Len(new[q][e[2]].calls)
           /\ new[q][e[2]].calls[Len(new[q][e[2]].calls) + 1 - e[3]] = "tool"
BY DEF LoggedCalls

LEMMA Appended ==
  ASSUME TypeOK, NEW r \in Request, NEW m \in Message,
         new' = [new EXCEPT ![r] = Append(@, m)]
  PROVE  /\ new[r] \in Seq(Message) /\ Len(new[r]) \in Nat
         /\ new'[r] = Append(new[r], m) /\ new'[r] \in Seq(Message)
         /\ Len(new'[r]) = Len(new[r]) + 1
         /\ new'[r][Len(new[r]) + 1] = m
         /\ \A i \in 1..Len(new[r]) : new'[r][i] = new[r][i]
         /\ SubSeq(new'[r], 1, Len(new[r])) = new[r]
<1>1. new[r] \in Seq(Message) /\ new'[r] = Append(new[r], m)
  BY DEF TypeOK
<1> DEFINE s == new[r]
           t == new'[r]
<1> HIDE DEF s, t
<1>2. s \in Seq(Message) /\ t = Append(s, m)
  BY <1>1 DEF s, t
<1>3. /\ Len(s) \in Nat /\ t \in Seq(Message) /\ Len(t) = Len(s) + 1
      /\ t[Len(s) + 1] = m /\ \A i \in 1..Len(s) : t[i] = s[i]
  BY <1>2
<1>4. SubSeq(t, 1, Len(s)) = s
  BY <1>2
<1> QED
  BY <1>1, <1>3, <1>4 DEF s, t

LEMMA AppendedTurn ==
  ASSUME TypeOK, NEW r \in Request, NEW m \in Message, m.turn = r,
         new' = [new EXCEPT ![r] = Append(@, m)],
         \A i \in 1..Len(new[r]) : new[r][i].turn = r
  PROVE  \A i \in 1..Len(new'[r]) : new'[r][i].turn = r
BY Appended

LEMMA AppendedRename ==
  ASSUME TypeOK, NEW r \in Request, NEW m \in Message,
         new' = [new EXCEPT ![r] = Append(@, m)],
         RenameInv(r), renamed'[r] = renamed[r]
  PROVE  RenameInv(r)'
<1>1. Len(new[r]) \in Nat /\ Len(new'[r]) = Len(new[r]) + 1
  BY Appended
<1>2. \A i \in 1..Len(new[r]) : new'[r][i] = new[r][i] /\ i \in 1..Len(new'[r])
  BY <1>1, Appended
<1>3. AskedRename(r) => AskedRename(r)'
  BY <1>2 DEF AskedRename
<1> QED
  BY <1>3 DEF RenameInv

(* The calls of earlier replies stay what they are; those of the message m *)
(* join them if it is a reply whose tools are run.                         *)
LEMMA AppendedCalls ==
  ASSUME TypeOK, NEW r \in Request, NEW m \in Message,
         new' = [new EXCEPT ![r] = Append(@, m)]
  PROVE  \A e : e \in LoggedCalls(r)' <=>
           \/ e \in LoggedCalls(r) /\ e[2] # Len(new[r]) + 1
           \/ /\ e \in {r} \X {Len(new[r]) + 1} \X (1..MaxCalls)
              /\ m.stop = "tool_use" /\ e[3] <= Len(m.calls)
              /\ m.calls[Len(m.calls) + 1 - e[3]] = "tool"
<1> DEFINE n == Len(new[r])
<1>1. /\ n \in Nat /\ Len(new'[r]) = n + 1 /\ new'[r][n + 1] = m
      /\ \A i \in 1..n : new'[r][i] = new[r][i]
  BY Appended
<1>2. \A e : e \in LoggedCalls(r)' <=>
           /\ e \in {r} \X (1..(n + 1)) \X (1..MaxCalls)
           /\ new'[r][e[2]].stop = "tool_use"
           /\ e[3] <= Len(new'[r][e[2]].calls)
           /\ new'[r][e[2]].calls[Len(new'[r][e[2]].calls) + 1 - e[3]] = "tool"
  BY <1>1 DEF LoggedCalls
<1>3. \A e : e \in LoggedCalls(r) <=>
           /\ e \in {r} \X (1..n) \X (1..MaxCalls)
           /\ new[r][e[2]].stop = "tool_use"
           /\ e[3] <= Len(new[r][e[2]].calls)
           /\ new[r][e[2]].calls[Len(new[r][e[2]].calls) + 1 - e[3]] = "tool"
  BY DEF LoggedCalls
<1> HIDE DEF n
<1>4. ASSUME NEW e \in {r} \X (1..(n + 1)) \X (1..MaxCalls), e[2] # n + 1
      PROVE  e \in {r} \X (1..n) \X (1..MaxCalls) /\ new'[r][e[2]] = new[r][e[2]]
  BY <1>1, <1>4
<1>5. ASSUME NEW e \in {r} \X (1..(n + 1)) \X (1..MaxCalls), e[2] = n + 1
      PROVE  e \in {r} \X {n + 1} \X (1..MaxCalls) /\ new'[r][e[2]] = m
  BY <1>1, <1>5
<1>6. ASSUME NEW e \in {r} \X (1..n) \X (1..MaxCalls)
      PROVE  e \in {r} \X (1..(n + 1)) \X (1..MaxCalls) /\ e[2] # n + 1
  BY <1>1
<1>7. ASSUME NEW e \in {r} \X {n + 1} \X (1..MaxCalls)
      PROVE  e \in {r} \X (1..(n + 1)) \X (1..MaxCalls) /\ e[2] = n + 1
  BY <1>1
<1>8. ASSUME NEW e, e \in LoggedCalls(r)'
      PROVE  \/ e \in LoggedCalls(r) /\ e[2] # n + 1
             \/ /\ e \in {r} \X {n + 1} \X (1..MaxCalls)
                /\ m.stop = "tool_use" /\ e[3] <= Len(m.calls)
                /\ m.calls[Len(m.calls) + 1 - e[3]] = "tool"
  <2>1. CASE e[2] = n + 1
    BY <1>2, <1>5, <1>8, <2>1
  <2>2. CASE e[2] # n + 1
    BY <1>2, <1>3, <1>4, <1>8, <2>2
  <2> QED
    BY <2>1, <2>2
<1>9. ASSUME NEW e, e \in LoggedCalls(r)
      PROVE  e \in LoggedCalls(r)'
  BY <1>2, <1>3, <1>4, <1>6, <1>9
<1>10. ASSUME NEW e \in {r} \X {n + 1} \X (1..MaxCalls),
              m.stop = "tool_use", e[3] <= Len(m.calls),
              m.calls[Len(m.calls) + 1 - e[3]] = "tool"
       PROVE  e \in LoggedCalls(r)'
  BY <1>2, <1>5, <1>7, <1>10
<1> QED
  BY <1>8, <1>9, <1>10 DEF n

-----------------------------------------------------------------------------
(* What the client of a stream is told. *)

LEMMA EmittedIs ==
  ASSUME NEW n \in Nat
  PROVE  Emitted(n) \in Seq(Status) /\ Len(Emitted(n)) = n
BY DEF Emitted, Status

LEMMA EmittedNext ==
  ASSUME NEW n \in Nat
  PROVE  /\ n = 0 => Append(Emitted(n), "understanding") = Emitted(n + 1)
         /\ n > 0 /\ n % 2 = 0 => Append(Emitted(n), "analyzing") = Emitted(n + 1)
         /\ n % 2 = 1 => Append(Emitted(n), "fetching_data") = Emitted(n + 1)
<1>1. ASSUME NEW s \in Status, Emitted(n + 1)[n + 1] = s
      PROVE  Append(Emitted(n), s) = Emitted(n + 1)
  <2>1. Emitted(n) \in Seq(Status) /\ Len(Emitted(n)) = n
    BY EmittedIs
  <2>2. Emitted(n + 1) \in Seq(Status) /\ Len(Emitted(n + 1)) = n + 1
    BY EmittedIs
  <2>3. \A i \in 1..n : Emitted(n + 1)[i] = Emitted(n)[i]
    BY DEF Emitted
  <2> QED
    BY <1>1, <2>1, <2>2, <2>3
<1>2. Emitted(n + 1)[n + 1] = IF (n + 1) % 2 = 0 THEN "fetching_data"
                             ELSE IF n + 1 = 1 THEN "understanding" ELSE "analyzing"
  BY DEF Emitted
<1>3. CASE n = 0
  BY <1>1, <1>2, <1>3 DEF Status
<1>4. CASE n > 0 /\ n % 2 = 0
  BY <1>1, <1>2, <1>4 DEF Status
<1>5. CASE n % 2 = 1
  BY <1>1, <1>2, <1>5 DEF Status
<1> QED
  BY <1>3, <1>4, <1>5

(* While the client is told no more than statuses there is no None to      *)
(* find, and the None comes after them all.                                *)
LEMMA NoneIsLast ==
  ASSUME NEW n \in Nat, NEW s \in Seq(Status), NEW q \in Seq(Status \cup {"none"}),
         q # <<>>, Head(q) = "none"
  PROVE  /\ s \o q # Emitted(n)
         /\ s \o q = Append(Emitted(n), "none") => s = Emitted(n)
<1> DEFINE k == Len(s) + 1
<1>1. Len(s) \in Nat /\ Len(q) \in Nat /\ Len(q) >= 1
  OBVIOUS
<1>2. /\ Len(s \o q) = Len(s) + Len(q)
      /\ (s \o q)[k] = "none"
      /\ \A i \in 1..Len(s) : (s \o q)[i] = s[i]
  OBVIOUS
<1>3. k \in 1..Len(s \o q)
  BY <1>1, <1>2
<1>4. Emitted(n) \in Seq(Status) /\ Len(Emitted(n)) = n
  BY EmittedIs
<1>5. "none" \notin Status
  BY DEF Status
<1>6. ASSUME s \o q = Emitted(n)
      PROVE  FALSE
  BY <1>2, <1>3, <1>4, <1>5, <1>6
<1>7. ASSUME s \o q = Append(Emitted(n), "none")
      PROVE  s = Emitted(n)
  <2> DEFINE e == Emitted(n)
             g == Append(e, "none")
  <2>1. e \in Seq(Status) /\ Len(e) = n
    BY <1>4
  <2> HIDE DEF e
  <2>2. Len(g) = n + 1 /\ \A i \in 1..n : g[i] = e[i]
    BY <2>1
  <2>3. k \in 1..(n + 1) /\ g[k] = "none"
    BY <1>2, <1>3, <1>7, <2>2 DEF e
  <2> HIDE DEF g, k
  <2>4. \A i \in 1..n : g[i] \in Status
    BY <2>1, <2>2
  <2>5. k = n + 1
    BY <1>5, <2>3, <2>4
  <2>6. Len(s) = n
    BY <1>1, <2>5 DEF k
  <2>7. \A i \in 1..n : s[i] = e[i]
    BY <1>2, <1>7, <2>2, <2>6 DEF e, g
  <2> QED
    BY <2>1, <2>6, <2>7 DEF e
<1> QED
  BY <1>6, <1>7

LEMMA ToldByLoop ==
  ASSUME TypeOK, NEW r \in Streaming, NEW s \in Status \cup {"none"},
         queue' = Put(r, s), UNCHANGED sent
  PROVE  Told(r)' = Append(Told(r), s)
<1>1. r \in Request
  BY ChatTurnAssumption
<1>2. queue'[r] = Append(queue[r], s) /\ sent'[r] = sent[r]
  BY <1>1 DEF Put, TypeOK
<1>3. /\ sent[r] \in Seq(Status \cup {"none", "done"})
      /\ queue[r] \in Seq(Status \cup {"none", "done"})
      /\ s \in Status \cup {"none", "done"}
  BY <1>1 DEF TypeOK
<1>4. sent[r] \o Append(queue[r], s) = Append(sent[r] \o queue[r], s)
  BY <1>3, QueueMoves
<1> QED
  BY <1>2, <1>4 DEF Told

-----------------------------------------------------------------------------
(* The steps of a request keep what the invariant says of it. *)

LEMMA Unstored ==
  ASSUME NEW r, StoredInv(r), at[r] \notin Over, UNCHANGED Committed,
         at'[r] \notin {"committed", "answered"}
  PROVE  ~Stored(r) /\ StoredInv(r)'
<1>1. ~Stored(r)
  BY DEF StoredInv
<1>2. ~Stored(r)'
  BY <1>1, StoredFrame
<1> QED
  BY <1>1, <1>2 DEF StoredInv

LEMMA NothingYet ==
  ASSUME NEW r, new'[r] = <<>>, pending'[r] = {}, renamed'[r] = None
  PROVE  Messages(r)'
<1>1. Len(<<>>) = 0 /\ 0 % 2 = 0
  OBVIOUS
<1>2. Answered(new[r])'
  BY <1>1 DEF Answered
<1>3. (\A i \in 1..Len(new[r]) : new[r][i].turn = r)'
  BY <1>1
<1>4. Len(new'[r]) % 2 = 0
  BY <1>1
<1> QED
  BY <1>2, <1>3, <1>4 DEF Messages

LEMMA Parity ==
  \A n \in Nat :
    /\ n + 1 \in Nat /\ (n % 2 = 0 <=> (n + 1) % 2 = 1) /\ (n % 2 = 1 <=> (n + 1) % 2 = 0)
    /\ n % 2 = 1 => n >= 1
OBVIOUS

LEMMA PrepareKeeps ==
  ASSUME IndInv, NEW r \in Request, Prepare(r)
  PROVE  RequestInv(r)'
<1>1. TypeOK /\ HistoryInv /\ RequestInv(r)
  BY DEF IndInv
<1>2. at[r] = "new" /\ new[r] = <<>> /\ pending[r] = {} /\ renamed[r] = None
  BY <1>1 DEF Prepare, RequestInv, Messages
<1>3. UNCHANGED <<Committed, new, todo, renamed, pending, queue, sent>>
  BY DEF Prepare, storeVars, Committed
<1>4. at'[r] = IF r \in Streaming THEN "prepared" ELSE "ready"
  BY <1>1 DEF Prepare, TypeOK
<1>5. Messages(r)'
  BY <1>2, <1>3, NothingYet
<1>6. Running(r)' /\ RenameInv(r)'
  BY <1>2, <1>3, <1>4 DEF Running, RenameInv
<1>7. PendingInv(r)'
  BY <1>2, <1>3, <1>4, NoCalls, LoggedCallsFrame DEF PendingInv, Executed
<1>8. StoredInv(r)'
  BY <1>1, <1>2, <1>3, <1>4, Unstored DEF RequestInv, Over
<1>9. ASSUME r \in Streaming
       PROVE  StreamInv(r)'
  <2>1. generator'[r] = "created"
    BY <1>1, <1>9 DEF Prepare, TypeOK
  <2>2. sent[r] = <<>> /\ queue[r] = <<>>
    BY <1>1, <1>2, <1>9 DEF RequestInv, StreamInv
  <2>3. <<>> \in Seq(Status)
    OBVIOUS
  <2> QED
    BY <1>3, <1>4, <1>9, <2>1, <2>2, <2>3 DEF StreamInv
<1> QED
  BY <1>5, <1>6, <1>7, <1>8, <1>9 DEF RequestInv

LEMMA StartStreamKeeps ==
  ASSUME IndInv, NEW r \in Request, StartStream(r)
  PROVE  RequestInv(r)'
<1>1. TypeOK /\ HistoryInv /\ RequestInv(r)
  BY DEF IndInv
<1>2. at[r] = "prepared" /\ new[r] = <<>> /\ pending[r] = {} /\ renamed[r] = None
  BY <1>1 DEF StartStream, RequestInv, Messages
<1>3. UNCHANGED <<Committed, new, todo, renamed, pending, queue, context, sent>>
  BY DEF StartStream, storeVars, requestVars, Committed
<1>4. at'[r] = "ready" /\ generator'[r] = "listening"
  BY <1>1 DEF StartStream, TypeOK
<1>5. Messages(r)'
  BY <1>2, <1>3, NothingYet
<1>6. Running(r)' /\ RenameInv(r)'
  BY <1>2, <1>3, <1>4 DEF Running, RenameInv
<1>7. PendingInv(r)'
  BY <1>2, <1>3, <1>4, NoCalls, LoggedCallsFrame DEF PendingInv, Executed
<1>8. StoredInv(r)'
  BY <1>1, <1>2, <1>3, <1>4, Unstored DEF RequestInv, Over
<1>9. ASSUME r \in Streaming
       PROVE  StreamInv(r)'
  <2>1. sent[r] = <<>> /\ queue[r] = <<>>
    BY <1>1, <1>9 DEF StartStream, RequestInv, StreamInv
  <2>2. Told(r)' = Emitted(0)
    <3>1. <<>> \o <<>> = <<>> /\ Emitted(0) = <<>>
      BY DEF Emitted
    <3> QED
      BY <1>3, <2>1, <3>1 DEF Told
  <2>3. <<>> \in Seq(Status) /\ Len(<<>>) = 0
    OBVIOUS
  <2> QED
    BY <1>2, <1>3, <1>4, <2>1, <2>2, <2>3 DEF StreamInv, Looping
<1> QED
  BY <1>5, <1>6, <1>7, <1>8, <1>9 DEF RequestInv

LEMMA AskKeeps ==
  ASSUME IndInv, NEW r \in Request, Ask(r)
  PROVE  RequestInv(r)'
<1>1. TypeOK /\ HistoryInv /\ RequestInv(r)
  BY DEF IndInv
<1>2. at[r] = "ready" /\ at'[r] = "asking"
  BY <1>1 DEF Ask, TypeOK
<1>3. UNCHANGED <<Committed, new, todo, renamed, pending, context, generator, sent>>
  BY DEF Ask, storeVars, requestVars, streamVars, Committed
<1>4. Messages(r)'
  BY <1>1, <1>2, <1>3 DEF RequestInv, Messages, Answered, Answers
<1>5. Running(r)'
  BY <1>1, <1>2, <1>3 DEF RequestInv, Running
<1>6. RenameInv(r)'
  BY <1>1, <1>3, RenameFrame DEF RequestInv
<1>7. PendingInv(r)'
  <2>1. Executed(r)' = Executed(r)
    BY <1>2, <1>3, LoggedCallsFrame DEF Executed
  <2> QED
    BY <1>1, <1>2, <1>3, <2>1 DEF RequestInv, PendingInv, Looping, Abandoned
<1>8. StoredInv(r)'
  BY <1>1, <1>2, <1>3, Unstored DEF RequestInv, Over
<1>9. ASSUME r \in Streaming
      PROVE  StreamInv(r)'
  <2> DEFINE n == Len(new[r])
             s == IF new[r] = <<>> THEN "understanding" ELSE "analyzing"
  <2>1. n \in Nat /\ n % 2 = 0 /\ (new[r] = <<>> <=> n = 0)
    <3>1. n % 2 = 0
      BY <1>1, <1>2 DEF RequestInv, Messages
    <3>2. new[r] \in Seq(Message)
      BY <1>1 DEF TypeOK
    <3>3. \A t \in Seq(Message) : Len(t) \in Nat /\ (t = <<>> <=> Len(t) = 0)
      OBVIOUS
    <3> QED
      BY <3>1, <3>2, <3>3
  <2>2. s \in Status \cup {"none"} /\ queue' = Put(r, s)
    BY DEF Ask, Status
  <2>3. Told(r)' = Append(Told(r), s)
    BY <1>1, <1>3, <1>9, <2>2, ToldByLoop
  <2>4. Append(Emitted(n), s) = Emitted(n + 1)
    <3>1. CASE n = 0
      BY <2>1, <3>1, EmittedNext
    <3>2. CASE n > 0
      BY <2>1, <3>2, EmittedNext
    <3> QED
      BY <2>1, <3>1, <3>2
  <2>5. StreamInv(r)
    BY <1>1, <1>9 DEF RequestInv
  <2> QED
    BY <1>2, <1>3, <2>3, <2>4, <2>5 DEF StreamInv, Looping
<1> QED
  BY <1>4, <1>5, <1>6, <1>7, <1>8, <1>9 DEF RequestInv

LEMMA ReplyToolUseKeeps ==
  ASSUME IndInv, NEW r \in Request, ReplyToolUse(r)
  PROVE  RequestInv(r)'
<1> DEFINE n == Len(new[r])
<1>1. TypeOK /\ HistoryInv /\ RequestInv(r)
  BY DEF IndInv
<1>2. at[r] = "asking" /\ at'[r] = "tools"
  BY <1>1 DEF ReplyToolUse, TypeOK
<1>3. UNCHANGED <<Committed, renamed, pending, context, generator, sent>>
  BY DEF ReplyToolUse, storeVars, requestVars, streamVars, Committed
<1>4. PICK calls \in Calls(r) :
        /\ new' = [new EXCEPT ![r] = Append(@, Reply(r, "tool_use", calls))]
        /\ todo' = [todo EXCEPT ![r] = calls]
  BY DEF ReplyToolUse
<1> DEFINE m == Reply(r, "tool_use", calls)
<1>5. calls \in Seq({"tool", "rename"}) /\ Len(calls) \in 1..MaxCalls
  BY CallsTyped
<1>6. m \in Message
  BY <1>1, <1>5, ReplyIs
<1>7. m.turn = r /\ m.stop = "tool_use" /\ m.calls = calls /\ m.results = 0 /\ m.id = n + 1
  BY <1>1, <1>5, ReplyIs
<1> HIDE DEF m
<1>8. /\ new[r] \in Seq(Message) /\ n \in Nat
      /\ new'[r] \in Seq(Message)
      /\ Len(new'[r]) = n + 1
      /\ new'[r][n + 1] = m
      /\ SubSeq(new'[r], 1, n) = new[r]
  BY <1>1, <1>4, <1>6, Appended DEF m
<1>9. todo'[r] = calls
  BY <1>1, <1>4 DEF TypeOK
<1>10. n % 2 = 0 /\ Answered(new[r]) /\ \A i \in 1..n : new[r][i].turn = r
  BY <1>1, <1>2 DEF RequestInv, Messages
<1>11. Messages(r)'
  <2>1. \A i \in 1..Len(new'[r]) : new'[r][i].turn = r
    BY <1>1, <1>4, <1>6, <1>7, <1>10, AppendedTurn DEF m
  <2> QED
    BY <1>2, <2>1 DEF Messages
<1>12. Running(r)'
  <2> SUFFICES /\ Len(new'[r]) % 2 = 1
               /\ new'[r][Len(new'[r])].stop = "tool_use"
               /\ new'[r][Len(new'[r])].results = 0
               /\ new'[r][Len(new'[r])].id = Len(new'[r])
               /\ Answered(SubSeq(new[r], 1, Len(new[r]) - 1))'
               /\ Len(new'[r][Len(new'[r])].calls) \in 1..MaxCalls
               /\ Len(todo'[r]) <= Len(new'[r][Len(new'[r])].calls)
               /\ \A i \in 1..Len(todo'[r]) :
                    todo'[r][i] = new'[r][Len(new'[r])].calls[
                      Len(new'[r][Len(new'[r])].calls) - Len(todo'[r]) + i]
    BY DEF Running
  <2>1. SubSeq(new'[r], 1, Len(new'[r]) - 1) = new[r]
    BY <1>8
  <2>2. Answered(SubSeq(new[r], 1, Len(new[r]) - 1))'
    BY <1>10, <2>1 DEF Answered, Answers
  <2>3. (n + 1) % 2 = 1
    BY <1>8, <1>10, Parity
  <2>4. \A i \in 1..Len(calls) : Len(calls) - Len(calls) + i = i
    BY <1>5, ChatTurnAssumption
  <2>5. Len(calls) <= Len(calls)
    BY <1>5, ChatTurnAssumption
  <2>6. /\ new'[r][Len(new'[r])] = m /\ Len(new'[r]) = n + 1
        /\ m.id = n + 1
    BY <1>7, <1>8
  <2> HIDE DEF n
  <2> QED
    BY <1>5, <1>7, <1>9, <2>2, <2>3, <2>4, <2>5, <2>6
<1>13. RenameInv(r)'
  BY <1>1, <1>3, <1>4, <1>6, AppendedRename DEF RequestInv, m
<1>14. PendingInv(r)'
  <2>1. \A e : e \in LoggedCalls(r)' <=>
          \/ e \in LoggedCalls(r) /\ e[2] # n + 1
          \/ /\ e \in {r} \X {n + 1} \X (1..MaxCalls)
             /\ e[3] <= Len(calls) /\ calls[Len(calls) + 1 - e[3]] = "tool"
    <3>1. \A e : e \in LoggedCalls(r)' <=>
            \/ e \in LoggedCalls(r) /\ e[2] # Len(new[r]) + 1
            \/ /\ e \in {r} \X {Len(new[r]) + 1} \X (1..MaxCalls)
               /\ m.stop = "tool_use" /\ e[3] <= Len(m.calls)
               /\ m.calls[Len(m.calls) + 1 - e[3]] = "tool"
      <4>1. new' = [new EXCEPT ![r] = Append(@, m)]
        BY <1>4 DEF m
      <4> QED
        BY <1>1, <1>6, <4>1, AppendedCalls
    <3> QED
      BY <1>7, <3>1
  <2>2. \A e \in LoggedCalls(r) : e[2] \in 1..n
    BY LoggedCallsOf
  <2>3. \A e : e \in Executed(r) <=> e \in LoggedCalls(r)
    BY <1>2 DEF Executed
  <2>4. ASSUME NEW e
        PROVE  e \in Executed(r)' <=> e \in LoggedCalls(r)
    <3>1. e \in Executed(r)' <=> e \in LoggedCalls(r)' /\ (e[2] = n + 1 => e[3] > Len(calls))
      BY <1>2, <1>8, <1>9 DEF Executed
    <3>2. ASSUME e \in LoggedCalls(r)
          PROVE  e \in Executed(r)'
      <4>1. e[2] # n + 1
        BY <1>8, <2>2, <3>2
      <4> QED
        BY <2>1, <3>1, <3>2, <4>1
    <3>3. ASSUME e \in Executed(r)', e \notin LoggedCalls(r)
          PROVE  FALSE
      <4>1. e[3] \in 1..MaxCalls /\ e[3] <= Len(calls) /\ e[3] > Len(calls)
        BY <2>1, <3>1, <3>3
      <4> QED
        BY <1>5, <4>1, ChatTurnAssumption
    <3> QED
      BY <3>2, <3>3
  <2>5. Executed(r)' = Executed(r)
    BY <2>3, <2>4
  <2> QED
    BY <1>1, <1>2, <1>3, <2>5 DEF RequestInv, PendingInv, Looping, Abandoned
<1>15. StoredInv(r)'
  BY <1>1, <1>2, <1>3, Unstored DEF RequestInv, Over
<1>16. ASSUME r \in Streaming
       PROVE  StreamInv(r)'
  <2>1. Told(r)' = Append(Told(r), "fetching_data")
    <3>1. queue' = Put(r, "fetching_data") /\ "fetching_data" \in Status
      BY DEF ReplyToolUse, Status
    <3> QED
      BY <1>1, <1>3, <1>16, <3>1, ToldByLoop
  <2>2. Append(Emitted(n + 1), "fetching_data") = Emitted(n + 1 + 1)
    <3>1. n + 1 \in Nat /\ (n + 1) % 2 = 1
      BY <1>8, <1>10, Parity
    <3> QED
      BY <3>1, EmittedNext
  <2>3. StreamInv(r)
    BY <1>1, <1>16 DEF RequestInv
  <2> QED
    BY <1>2, <1>3, <1>8, <2>1, <2>2, <2>3 DEF StreamInv, Looping
<1> QED
  BY <1>11, <1>12, <1>13, <1>14, <1>15, <1>16 DEF RequestInv

(* The loop is left by a reply or by an error.                             *)
LEMMA ReturnStream ==
  ASSUME IndInv, NEW r \in Streaming, LoopEnds(r, "returned"),
         UNCHANGED <<generator, sent>>,
         generator[r] = "listening" => Told(r) = Emitted(Len(new'[r])),
         at[r] \in Looping
  PROVE  StreamInv(r)'
<1>1. TypeOK /\ RequestInv(r) /\ StreamInv(r)
  BY ChatTurnAssumption DEF IndInv, RequestInv
<1>2. at'[r] = "returned"
  BY <1>1, ChatTurnAssumption DEF LoopEnds, TypeOK
<1>3. Told(r)' = Append(Told(r), "none")
  BY <1>1, ToldByLoop DEF LoopEnds
<1> QED
  BY <1>1, <1>2, <1>3 DEF StreamInv, Looping

LEMMA RaiseKeeps ==
  ASSUME IndInv, NEW r \in Request, ModelRaises(r) \/ ToolRaises(r)
  PROVE  RequestInv(r)'
<1>1. TypeOK /\ HistoryInv /\ RequestInv(r)
  BY DEF IndInv
<1>2. at[r] \in Looping /\ at[r] # "ready" /\ at'[r] = "raised"
  BY <1>1 DEF ModelRaises, ToolRaises, LoopEnds, TypeOK, Looping
<1>3. UNCHANGED <<Committed, new, todo, renamed, pending, context, generator, sent>>
  BY DEF ModelRaises, ToolRaises, storeVars, requestVars, streamVars, Committed
<1>4. Messages(r)'
  BY <1>1, <1>2, <1>3 DEF RequestInv, Messages
<1>5. Running(r)'
  BY <1>2 DEF Running
<1>6. RenameInv(r)'
  BY <1>1, <1>3, RenameFrame DEF RequestInv
<1>7. PendingInv(r)'
  BY <1>1, <1>2, <1>3 DEF RequestInv, PendingInv, Looping
<1>8. StoredInv(r)'
  BY <1>1, <1>2, <1>3, Unstored DEF RequestInv, Over, Looping
<1>9. ASSUME r \in Streaming
      PROVE  StreamInv(r)'
  BY <1>1, <1>2, <1>3, <1>9 DEF RequestInv, StreamInv, Looping
<1> QED
  BY <1>4, <1>5, <1>6, <1>7, <1>8, <1>9 DEF RequestInv

LEMMA AnsweredAppend ==
  ASSUME NEW s \in Seq(Message), Answered(s), NEW m \in Message,
         m.stop # "tool_use", m.results = 0
  PROVE  Answered(Append(s, m))
<1>1. <<m>> \in Seq(Message) /\ Append(s, m) = s \o <<m>>
  OBVIOUS
<1>2. Answered(<<m>>)
  BY AnsweredOne
<1>3. Answered(s \o <<m>>)
  BY <1>1, <1>2, AnsweredJoined, Zenon
<1> QED
  BY <1>1, <1>3

LEMMA AnsweredPair ==
  ASSUME NEW s \in Seq(Message), NEW n \in Nat, Len(s) = n + 1, Answered(SubSeq(s, 1, n)),
         s[n + 1].stop = "tool_use", s[n + 1].results = 0, Len(s[n + 1].calls) \in Nat \ {0},
         NEW r \in Request, s[n + 1].turn = r, NEW id \in Nat, s[n + 1].id = id
  PROVE  Answered(Append(s, Results(r, id, Len(s[n + 1].calls))))
<1> DEFINE a == s[n + 1]
           b == Results(r, id, Len(a.calls))
           u == SubSeq(s, 1, n)
<1>1. a \in Message /\ u \in Seq(Message) /\ Len(u) = n /\ \A i \in 1..n : u[i] = s[i]
  OBVIOUS
<1>2. b \in Message /\ b.stop = "none" /\ b.results = Len(a.calls) /\ b.turn = r /\ b.id = id
  BY AreMessages, OfTurn
<1> HIDE DEF a, b, u
<1>3. <<a, b>> \in Seq(Message) /\ Len(<<a, b>>) = 2 /\ <<a, b>>[1] = a /\ <<a, b>>[2] = b
  BY <1>1, <1>2
<1>4. Answered(<<a, b>>)
  <2> DEFINE g == <<a, b>>
  <2> HIDE DEF g
  <2>1. Len(g) = 2 /\ g[1] = a /\ g[2] = b
    BY <1>3 DEF g
  <2>2. /\ a.stop = "tool_use" /\ a.results = 0 /\ a.turn = r /\ a.id = id
        /\ b = Results(r, id, Len(a.calls))
    BY DEF a, b
  <2>3. Answered(g)
    BY <1>2, <2>1, <2>2 DEF Answered, Answers
  <2> QED
    BY <2>3 DEF g
<1>5. Answered(u \o <<a, b>>)
  <2>1. Answered(u)
    BY DEF u
  <2> QED
    BY <1>1, <1>3, <1>4, <2>1, AnsweredJoined, Zenon
<1>6. u \o <<a, b>> = Append(s, b)
  <2>1. Len(u \o <<a, b>>) = n + 2 /\ Len(Append(s, b)) = n + 2
    BY <1>1, <1>2, <1>3
  <2>2. \A i \in 1..n : (u \o <<a, b>>)[i] = Append(s, b)[i]
    BY <1>1, <1>2, <1>3
  <2>3. (u \o <<a, b>>)[n + 1] = a /\ (u \o <<a, b>>)[n + 2] = b
    <3>1. \A i \in 1..2 : (u \o <<a, b>>)[Len(u) + i] = <<a, b>>[i]
      BY <1>1, <1>3
    <3> QED
      BY <1>1, <1>3, <3>1
  <2>4. Append(s, b)[n + 1] = a /\ Append(s, b)[n + 2] = b
    BY <1>2 DEF a
  <2>5. u \o <<a, b>> \in Seq(Message) /\ Append(s, b) \in Seq(Message)
    BY <1>1, <1>2, <1>3
  <2> DEFINE x == u \o <<a, b>>
             y == Append(s, b)
  <2> HIDE DEF x, y
  <2>6. /\ x \in Seq(Message) /\ y \in Seq(Message) /\ Len(x) = n + 2 /\ Len(y) = n + 2
        /\ \A i \in 1..n : x[i] = y[i]
        /\ x[n + 1] = y[n + 1] /\ x[n + 2] = y[n + 2]
    BY <2>1, <2>2, <2>3, <2>4, <2>5 DEF x, y
  <2>7. \A i \in 1..(n + 2) : i \in 1..n \/ i = n + 1 \/ i = n + 2
    OBVIOUS
  <2>8. \A i \in 1..(n + 2) : x[i] = y[i]
    BY <2>6, <2>7
  <2>9. x = y
    BY <2>6, <2>8
  <2> QED
    BY <2>9 DEF x, y
<1> QED
  BY <1>5, <1>6 DEF a, b

LEMMA AppendedNoCalls ==
  ASSUME TypeOK, NEW r \in Request, NEW m \in Message, m.stop # "tool_use",
         new' = [new EXCEPT ![r] = Append(@, m)]
  PROVE  LoggedCalls(r)' = LoggedCalls(r)
<1>1. \A e : e \in LoggedCalls(r)' <=>
         \/ e \in LoggedCalls(r) /\ e[2] # Len(new[r]) + 1
         \/ /\ e \in {r} \X {Len(new[r]) + 1} \X (1..MaxCalls)
            /\ m.stop = "tool_use" /\ e[3] <= Len(m.calls)
            /\ m.calls[Len(m.calls) + 1 - e[3]] = "tool"
  BY AppendedCalls
<1>2. Len(new[r]) \in Nat
  BY DEF TypeOK
<1>3. \A e \in LoggedCalls(r) : e[2] # Len(new[r]) + 1
  BY <1>2, LoggedCallsOf
<1> QED
  BY <1>1, <1>3

LEMMA ReplyFinalKeeps ==
  ASSUME IndInv, NEW r \in Request, ReplyFinal(r)
  PROVE  RequestInv(r)'
<1> DEFINE n == Len(new[r])
<1>1. TypeOK /\ HistoryInv /\ RequestInv(r)
  BY DEF IndInv
<1>2. at[r] = "asking" /\ at'[r] = "returned"
  BY <1>1 DEF ReplyFinal, LoopEnds, TypeOK
<1>3. UNCHANGED <<Committed, todo, renamed, pending, context, generator, sent>>
  BY DEF ReplyFinal, storeVars, requestVars, streamVars, Committed
<1>4. PICK m \in Message :
        /\ new' = [new EXCEPT ![r] = Append(@, m)]
        /\ m.turn = r /\ m.stop # "tool_use" /\ m.results = 0
  <2>1. \A calls \in Seq({"tool", "rename"}), stop \in {"end_turn", "max_tokens"} :
          LET m == Reply(r, stop, calls)
          IN  m \in Message /\ m.turn = r /\ m.stop # "tool_use" /\ m.results = 0
    BY <1>1, ReplyIs
  <2>2. <<>> \in Seq({"tool", "rename"})
    OBVIOUS
  <2>3. CASE new' = [new EXCEPT ![r] = Append(@, Reply(r, "end_turn", <<>>))]
    BY <2>1, <2>2, <2>3
  <2>4. ASSUME NEW calls \in Calls(r),
               new' = [new EXCEPT ![r] = Append(@, Reply(r, "max_tokens", calls))]
        PROVE  \E m \in Message :
                 /\ new' = [new EXCEPT ![r] = Append(@, m)]
                 /\ m.turn = r /\ m.stop # "tool_use" /\ m.results = 0
    BY <2>1, <2>4, CallsTyped
  <2> QED
    BY <2>3, <2>4 DEF ReplyFinal
<1>5. /\ new[r] \in Seq(Message) /\ n \in Nat
      /\ new'[r] = Append(new[r], m)
      /\ Len(new'[r]) = n + 1
  <2>1. m \in Message /\ new' = [new EXCEPT ![r] = Append(@, m)]
    BY <1>4
  <2> QED
    BY <1>1, <2>1, Appended
<1>6. n % 2 = 0 /\ Answered(new[r]) /\ \A i \in 1..n : new[r][i].turn = r
  BY <1>1, <1>2 DEF RequestInv, Messages
<1>7. Messages(r)'
  <2>1. \A i \in 1..Len(new'[r]) : new'[r][i].turn = r
    BY <1>1, <1>4, <1>6, AppendedTurn
  <2>2. Answered(Append(new[r], m))
    BY <1>4, <1>5, <1>6, AnsweredAppend
  <2>3. Answered(new[r])'
    BY <1>5, <2>2 DEF Answered, Answers
  <2> QED
    BY <1>2, <2>1, <2>3 DEF Messages
<1>8. Running(r)'
  BY <1>2 DEF Running
<1>9. RenameInv(r)'
  BY <1>1, <1>3, <1>4, AppendedRename DEF RequestInv
<1>10. PendingInv(r)'
  <2>1. LoggedCalls(r)' = LoggedCalls(r)
    BY <1>1, <1>4, AppendedNoCalls
  <2>2. Executed(r)' = Executed(r)
    BY <1>2, <2>1 DEF Executed
  <2> QED
    BY <1>1, <1>2, <1>3, <2>2 DEF RequestInv, PendingInv, Looping, Abandoned
<1>11. StoredInv(r)'
  BY <1>1, <1>2, <1>3, Unstored DEF RequestInv, Over
<1>12. ASSUME r \in Streaming
       PROVE  StreamInv(r)'
  <2>1. LoopEnds(r, "returned")
    BY DEF ReplyFinal
  <2>2. generator[r] = "listening" => Told(r) = Emitted(Len(new'[r]))
    BY <1>1, <1>2, <1>5, <1>12 DEF RequestInv, StreamInv
  <2> QED
    BY <1>2, <1>3, <1>12, <2>1, <2>2, ReturnStream DEF Looping
<1> QED
  BY <1>7, <1>8, <1>9, <1>10, <1>11, <1>12 DEF RequestInv

(* The tools of a reply are run from the first to the last.                *)
LEMMA TailRuns ==
  ASSUME TypeOK, NEW r \in Request, Running(r), at[r] = "tools", todo[r] # <<>>,
         todo' = [todo EXCEPT ![r] = Tail(@)], UNCHANGED <<at, new>>
  PROVE  /\ Running(r)'
         /\ new[r] # <<>> /\ Len(new[r]) \in Nat /\ Len(new[r]) >= 1
         /\ new[r][Len(new[r])].stop = "tool_use"
         /\ Len(new[r][Len(new[r])].calls) \in 1..MaxCalls
         /\ Len(todo[r]) \in 1..Len(new[r][Len(new[r])].calls)
         /\ Len(todo'[r]) = Len(todo[r]) - 1
         /\ LET calls == new[r][Len(new[r])].calls
            IN  Head(todo[r]) = calls[Len(calls) + 1 - Len(todo[r])]
<1> DEFINE n == Len(new[r])
           calls == new[r][n].calls
           t == todo[r]
           u == todo'[r]
<1>1. t \in Seq({"tool", "rename"}) /\ t # <<>> /\ u = Tail(t) /\ n \in Nat
  BY DEF TypeOK
<1>2. /\ n % 2 = 1 /\ new[r][n].stop = "tool_use"
      /\ new[r][n].results = 0 /\ new[r][n].id = n
      /\ Len(calls) \in 1..MaxCalls
      /\ Len(t) <= Len(calls)
      /\ \A i \in 1..Len(t) : t[i] = calls[Len(calls) - Len(t) + i]
      /\ Answered(SubSeq(new[r], 1, n - 1))
  BY DEF Running
<1>3. MaxCalls \in Nat
  BY ChatTurnAssumption
<1> HIDE DEF t, u, calls
<1>4. /\ Len(t) \in Nat /\ Len(t) >= 1 /\ Len(u) = Len(t) - 1
      /\ Head(t) = t[1] /\ \A i \in 1..Len(u) : u[i] = t[i + 1]
  BY <1>1
<1>5. \A i \in 1..Len(u) : u[i] = calls[Len(calls) - Len(u) + i]
  <2> SUFFICES ASSUME NEW i \in 1..Len(u)
               PROVE  u[i] = calls[Len(calls) - Len(u) + i]
    OBVIOUS
  <2>1. i + 1 \in 1..Len(t) /\ Len(calls) - Len(t) + (i + 1) = Len(calls) - Len(u) + i
    BY <1>2, <1>3, <1>4
  <2> QED
    BY <1>2, <1>4, <2>1
<1>6. Head(t) = calls[Len(calls) + 1 - Len(t)]
  <2>1. Len(calls) - Len(t) + 1 = Len(calls) + 1 - Len(t)
    BY <1>2, <1>3, <1>4
  <2> QED
    BY <1>2, <1>4, <2>1
<1>7. Len(u) <= Len(calls)
  BY <1>2, <1>3, <1>4
<1>8. Running(r)'
  BY <1>2, <1>5, <1>7 DEF Running, Answered, Answers, u, calls
<1>9. n >= 1 /\ Len(t) \in 1..Len(calls) /\ new[r] # <<>>
  <2>1. n >= 1
    BY <1>1, <1>2, Parity
  <2>2. Len(t) \in 1..Len(calls)
    BY <1>2, <1>3, <1>4
  <2>3. new[r] # <<>>
    BY <2>1
  <2> QED
    BY <2>1, <2>2, <2>3
<1> QED
  BY <1>1, <1>2, <1>4, <1>6, <1>8, <1>9 DEF t, u, calls

(* What is logged of the reply in hand grows by its next call, a rename    *)
(* excepted.                                                               *)
LEMMA TailExecuted ==
  ASSUME TypeOK, NEW r \in Request, Running(r), at[r] = "tools", todo[r] # <<>>,
         todo' = [todo EXCEPT ![r] = Tail(@)], UNCHANGED <<at, new>>
  PROVE  Executed(r)' = Executed(r) \cup {e \in {LogRow(r)} : Head(todo[r]) = "tool"}
<1> DEFINE n == Len(new[r])
           calls == new[r][n].calls
           k == Len(todo[r])
<1>1. /\ n \in Nat /\ n >= 1 /\ new[r][n].stop = "tool_use"
      /\ Len(calls) \in 1..MaxCalls
      /\ k \in 1..Len(calls)
      /\ Len(todo'[r]) = k - 1
      /\ Head(todo[r]) = calls[Len(calls) + 1 - k]
  BY TailRuns
<1>2. LoggedCalls(r)' = LoggedCalls(r)
  BY LoggedCallsFrame
<1>3. k \in 1..MaxCalls /\ k \in Nat /\ MaxCalls \in Nat
  BY <1>1, ChatTurnAssumption
<1>4. \A e : e \in Executed(r) <=> e \in LoggedCalls(r) /\ (e[2] = n => e[3] > k)
  BY DEF Executed
<1>5. \A e : e \in Executed(r)' <=> e \in LoggedCalls(r) /\ (e[2] = n => e[3] > k - 1)
  BY <1>1, <1>2 DEF Executed
<1>6. LogRow(r) = <<r, n, k>>
  BY DEF LogRow
<1>7. LogRow(r) \in LoggedCalls(r) <=> Head(todo[r]) = "tool"
  <2>1. <<r, n, k>> \in {r} \X (1..n) \X (1..MaxCalls)
    BY <1>1, <1>3
  <2>2. <<r, n, k>> \in LoggedCalls(r) <=>
          /\ <<r, n, k>> \in {r} \X (1..n) \X (1..MaxCalls)
          /\ new[r][n].stop = "tool_use" /\ k <= Len(calls)
          /\ calls[Len(calls) + 1 - k] = "tool"
    <3> DEFINE e == <<r, n, k>>
    <3>1. e[2] = n /\ e[3] = k
      OBVIOUS
    <3> HIDE DEF e
    <3>2. e \in LoggedCalls(r) <=>
            /\ e \in {r} \X (1..n) \X (1..MaxCalls)
            /\ new[r][e[2]].stop = "tool_use"
            /\ e[3] <= Len(new[r][e[2]].calls)
            /\ new[r][e[2]].calls[Len(new[r][e[2]].calls) + 1 - e[3]] = "tool"
      BY LoggedCallsOf
    <3> QED
      BY <3>1, <3>2 DEF e
  <2>3. k <= Len(calls)
    BY <1>1, <1>3
  <2> QED
    BY <1>1, <1>6, <2>1, <2>2, <2>3
<1>8. \A e \in LoggedCalls(r) : e[3] \in Nat /\ e = <<r, e[2], e[3]>>
  BY <1>3, LoggedCallsOf
<1> HIDE DEF n, calls, k
<1>9. ASSUME NEW e
      PROVE  e \in Executed(r)' <=>
               e \in Executed(r) \/ (e = LogRow(r) /\ Head(todo[r]) = "tool")
  <2>1. ASSUME e \in Executed(r)', e \notin Executed(r)
        PROVE  e = LogRow(r) /\ Head(todo[r]) = "tool"
    <3>1. e \in LoggedCalls(r) /\ e[2] = n /\ e[3] > k - 1 /\ ~(e[3] > k)
      BY <1>4, <1>5, <2>1
    <3>2. e[3] = k
      BY <1>3, <1>8, <3>1
    <3>3. e = LogRow(r)
      BY <1>6, <1>8, <3>1, <3>2
    <3> QED
      BY <1>7, <3>1, <3>3
  <2>2. ASSUME e \in Executed(r)
        PROVE  e \in Executed(r)'
    <3>1. e \in LoggedCalls(r) /\ (e[2] = n => e[3] > k)
      BY <1>4, <2>2
    <3>2. e[2] = n => e[3] > k - 1
      BY <1>3, <1>8, <3>1
    <3> QED
      BY <1>5, <3>1, <3>2
  <2>3. ASSUME e = LogRow(r), Head(todo[r]) = "tool"
        PROVE  e \in Executed(r)'
    <3>1. e \in LoggedCalls(r) /\ e[3] = k
      BY <1>6, <1>7, <2>3
    <3>2. k > k - 1
      BY <1>3
    <3> QED
      BY <1>5, <3>1, <3>2
  <2> QED
    BY <2>1, <2>2, <2>3
<1> QED
  BY <1>9

LEMMA RunRenameKeeps ==
  ASSUME IndInv, NEW r \in Request, RunRename(r)
  PROVE  RequestInv(r)'
<1>1. TypeOK /\ HistoryInv /\ RequestInv(r)
  BY DEF IndInv
<1>2. at[r] = "tools" /\ todo[r] # <<>> /\ Head(todo[r]) = "rename"
  BY DEF RunRename
<1>3. UNCHANGED <<Committed, at, new, pending, queue, context, generator, sent>>
  BY DEF RunRename, storeVars, requestVars, streamVars, Committed
<1>4. todo' = [todo EXCEPT ![r] = Tail(@)]
  BY DEF RunRename
<1>5. Messages(r)'
  BY <1>1, <1>2, <1>3 DEF RequestInv, Messages
<1>6. Running(r) /\ Running(r)'
  BY <1>1, <1>2, <1>3, <1>4, TailRuns DEF RequestInv
<1>7. RenameInv(r)'
  <2> DEFINE n == Len(new[r])
             calls == new[r][n].calls
             k == Len(calls) + 1 - Len(todo[r])
  <2>1. /\ n \in Nat /\ n >= 1 /\ new[r][n].stop = "tool_use"
        /\ Len(calls) \in 1..MaxCalls /\ Len(todo[r]) \in 1..Len(calls)
        /\ calls[k] = "rename"
    BY <1>1, <1>2, <1>3, <1>4, <1>6, TailRuns
  <2>2. n \in 1..Len(new[r]) /\ k \in 1..Len(calls)
    <3> DEFINE c == Len(calls)
               t == Len(todo[r])
    <3>1. n \in Nat /\ n >= 1 /\ c \in 1..MaxCalls /\ t \in 1..c /\ MaxCalls \in Nat
      BY <2>1, ChatTurnAssumption
    <3> HIDE DEF n, c, t
    <3>2. n \in 1..n /\ c + 1 - t \in 1..c
      BY <3>1
    <3> QED
      BY <3>2 DEF n, c, t
  <2>3. AskedRename(r)
    BY <2>1, <2>2 DEF AskedRename
  <2>4. AskedRename(r)'
    BY <1>3, <2>3 DEF AskedRename
  <2> QED
    BY <2>4 DEF RenameInv
<1>8. PendingInv(r)'
  <2>1. Executed(r)' = Executed(r)
    BY <1>1, <1>2, <1>3, <1>4, <1>6, TailExecuted
  <2> QED
    BY <1>1, <1>3, <2>1 DEF RequestInv, PendingInv, Abandoned
<1>9. StoredInv(r)'
  BY <1>1, <1>3, StoredInvFrame DEF RequestInv
<1>10. ASSUME r \in Streaming
       PROVE  StreamInv(r)'
  BY <1>1, <1>3, <1>10, StreamFrame DEF RequestInv
<1> QED
  BY <1>5, <1>6, <1>7, <1>8, <1>9, <1>10 DEF RequestInv

LEMMA RunToolKeeps ==
  ASSUME IndInv, NEW r \in Request, RunTool(r)
  PROVE  RequestInv(r)'
<1>1. TypeOK /\ HistoryInv /\ RequestInv(r)
  BY DEF IndInv
<1>2. at[r] = "tools" /\ todo[r] # <<>> /\ Head(todo[r]) = "tool"
  BY DEF RunTool
<1>3. UNCHANGED <<Committed, at, new, renamed, queue, context, generator, sent>>
  BY DEF RunTool, storeVars, requestVars, streamVars, Committed
<1>4. todo' = [todo EXCEPT ![r] = Tail(@)] /\ pending'[r] = pending[r] \cup {LogRow(r)}
  BY <1>1 DEF RunTool, TypeOK
<1>5. Messages(r)'
  BY <1>1, <1>2, <1>3 DEF RequestInv, Messages
<1>6. Running(r) /\ Running(r)'
  BY <1>1, <1>2, <1>3, <1>4, TailRuns DEF RequestInv
<1>7. RenameInv(r)'
  BY <1>1, <1>3, RenameFrame DEF RequestInv
<1>8. PendingInv(r)'
  <2>1. Executed(r)' = Executed(r) \cup {LogRow(r)}
    <3>1. Executed(r)' = Executed(r) \cup {e \in {LogRow(r)} : Head(todo[r]) = "tool"}
      BY <1>1, <1>2, <1>3, <1>4, <1>6, TailExecuted
    <3> QED
      BY <1>2, <3>1
  <2>2. LogRow(r)[1] = r
    BY DEF LogRow
  <2>3. PendingInv(r)
    BY <1>1 DEF RequestInv
  <2>4. \A e \in pending'[r] : e[1] = r
    BY <1>4, <2>2, <2>3 DEF PendingInv
  <2>5. ASSUME at'[r] \in Looping \cup {"returned"}, ~Abandoned(r)'
        PROVE  pending'[r] = Executed(r)'
    <3>1. at[r] \in Looping \cup {"returned"} /\ ~Abandoned(r)
      BY <1>3, <2>5 DEF Abandoned
    <3> QED
      BY <1>4, <2>1, <2>3, <3>1 DEF PendingInv
  <2> QED
    BY <2>4, <2>5 DEF PendingInv
<1>9. StoredInv(r)'
  BY <1>1, <1>3, StoredInvFrame DEF RequestInv
<1>10. ASSUME r \in Streaming
       PROVE  StreamInv(r)'
  BY <1>1, <1>3, <1>10, StreamFrame DEF RequestInv
<1> QED
  BY <1>5, <1>6, <1>7, <1>8, <1>9, <1>10 DEF RequestInv

LEMMA AppendResultsKeeps ==
  ASSUME IndInv, NEW r \in Request, AppendResults(r)
  PROVE  RequestInv(r)'
<1> DEFINE n == Len(new[r])
           calls == new[r][n].calls
           m == ResultsNow(r)
<1>1. TypeOK /\ HistoryInv /\ RequestInv(r)
  BY DEF IndInv
<1>2. at[r] = "tools" /\ todo[r] = <<>> /\ at'[r] \in {"ready", "returned"}
  BY <1>1 DEF AppendResults, LoopEnds, TypeOK
<1>3. UNCHANGED <<Committed, todo, renamed, pending, context, generator, sent>>
  BY DEF AppendResults, storeVars, requestVars, streamVars, Committed
<1>4. new' = [new EXCEPT ![r] = Append(@, m)]
  BY DEF AppendResults
<1>5. /\ n % 2 = 1 /\ new[r][n].stop = "tool_use" /\ new[r][n].results = 0
      /\ new[r][n].id = n /\ n \in Nat
      /\ Answered(SubSeq(new[r], 1, n - 1))
      /\ Len(calls) \in 1..MaxCalls
  BY <1>1, <1>2 DEF RequestInv, Running, TypeOK
<1>6. Len(calls) \in Nat \ {0}
  BY <1>5, ChatTurnAssumption
<1>7. m \in Message /\ m.turn = r /\ m.stop = "none"
  BY <1>5, <1>6, AreMessages, OfTurn DEF ResultsNow
<1> HIDE DEF m
<1>8. /\ new[r] \in Seq(Message) /\ n \in Nat
      /\ new'[r] = Append(new[r], m)
      /\ Len(new'[r]) = n + 1
  BY <1>1, <1>4, <1>7, Appended
<1>9. (n + 1) % 2 = 0 /\ n >= 1
  BY <1>5, <1>8, Parity
<1>10. \A i \in 1..n : new[r][i].turn = r
  BY <1>1 DEF RequestInv, Messages
<1>11. Messages(r)'
  <2>1. \A i \in 1..Len(new'[r]) : new'[r][i].turn = r
    BY <1>1, <1>4, <1>7, <1>10, AppendedTurn
  <2>2. Answered(Append(new[r], m))
    <3> DEFINE s == new[r]
               k == n - 1
    <3>1. /\ s \in Seq(Message) /\ k \in Nat /\ Len(s) = k + 1 /\ n = k + 1
          /\ Answered(SubSeq(s, 1, k))
      BY <1>5, <1>8, <1>9
    <3>2. /\ s[k + 1].stop = "tool_use" /\ s[k + 1].results = 0 /\ s[k + 1].turn = r
          /\ Len(s[k + 1].calls) \in Nat \ {0} /\ s[k + 1].id = n
      BY <1>5, <1>6, <1>8, <1>9, <1>10
    <3>3. m = Results(r, n, Len(s[k + 1].calls))
      BY <3>1 DEF m, ResultsNow
    <3> HIDE DEF s, k
    <3>4. Answered(Append(s, m))
      BY <1>8, <3>1, <3>2, <3>3, AnsweredPair
    <3> QED
      BY <3>4 DEF s
  <2>3. Answered(new[r])'
    BY <1>8, <2>2 DEF Answered, Answers
  <2> QED
    BY <1>2, <1>8, <1>9, <2>1, <2>3 DEF Messages
<1>12. Running(r)'
  BY <1>2 DEF Running
<1>13. RenameInv(r)'
  BY <1>1, <1>3, <1>4, <1>7, AppendedRename DEF RequestInv
<1>14. PendingInv(r)'
  <2>1. LoggedCalls(r)' = LoggedCalls(r)
    BY <1>1, <1>4, <1>7, AppendedNoCalls
  <2>2. Executed(r)' = LoggedCalls(r)'
    BY <1>2 DEF Executed
  <2>3. Executed(r) = LoggedCalls(r)
    <3>1. Len(todo[r]) = 0 /\ \A e \in LoggedCalls(r) : e[3] \in 1..MaxCalls
      BY <1>2, LoggedCallsOf
    <3>2. \A e \in LoggedCalls(r) : e[3] > Len(todo[r])
      BY <3>1, ChatTurnAssumption
    <3> QED
      BY <3>2 DEF Executed
  <2>4. Executed(r)' = Executed(r)
    BY <2>1, <2>2, <2>3
  <2> QED
    BY <1>1, <1>2, <1>3, <2>4 DEF RequestInv, PendingInv, Looping, Abandoned
<1>15. StoredInv(r)'
  BY <1>1, <1>2, <1>3, Unstored DEF RequestInv, Over
<1>16. ASSUME r \in Streaming
       PROVE  StreamInv(r)'
  <2>1. StreamInv(r)
    BY <1>1, <1>16 DEF RequestInv
  <2>2. generator[r] = "listening" => Told(r) = Emitted(Len(new'[r]))
    BY <1>2, <1>8, <2>1 DEF StreamInv
  <2>3. CASE LoopEnds(r, "returned")
    BY <1>2, <1>3, <1>16, <2>2, <2>3, ReturnStream DEF Looping
  <2>4. CASE at' = [at EXCEPT ![r] = "ready"] /\ UNCHANGED queue
    <3>1. at'[r] = "ready"
      BY <1>1, <2>4 DEF TypeOK
    <3>2. Told(r)' = Told(r)
      BY <1>3, <2>4 DEF Told
    <3> QED
      BY <1>2, <1>3, <2>1, <2>2, <3>1, <3>2 DEF StreamInv, Looping
  <2> QED
    BY <2>3, <2>4 DEF AppendResults
<1> QED
  BY <1>11, <1>12, <1>13, <1>14, <1>15, <1>16 DEF RequestInv

(* The generator reads its queue.                                          *)
LEMMA ReadKeeps ==
  ASSUME IndInv, NEW r \in Request, SendStatus(r) \/ Join(r)
  PROVE  RequestInv(r)'
<1>1. TypeOK /\ HistoryInv /\ RequestInv(r)
  BY DEF IndInv
<1>2. generator[r] = "listening" /\ queue[r] # <<>>
  BY DEF SendStatus, Join
<1>3. UNCHANGED <<Committed, at, new, todo, renamed, pending, context>>
  BY DEF SendStatus, Join, storeVars, requestVars, Committed
<1>4. generator'[r] \in {"listening", "joining"}
  BY <1>1, <1>2 DEF SendStatus, Join, TypeOK
<1>5. Messages(r)' /\ Running(r)' /\ RenameInv(r)'
  BY <1>1, <1>3, MessagesFrame, RunningFrame, RenameFrame DEF RequestInv
<1>6. PendingInv(r)'
  <2>1. Executed(r)' = Executed(r)
    BY <1>3, ExecutedFrame
  <2> QED
    BY <1>1, <1>2, <1>3, <2>1 DEF RequestInv, PendingInv, Abandoned
<1>7. StoredInv(r)'
  BY <1>1, <1>3, StoredInvFrame DEF RequestInv
<1>8. ASSUME r \in Streaming
      PROVE  StreamInv(r)'
  <2>1. StreamInv(r)
    BY <1>1, <1>8 DEF RequestInv
  <2>2. at[r] \in Looping \cup {"returned", "raised"} /\ sent[r] \in Seq(Status)
    BY <1>2, <2>1 DEF StreamInv, Looping
  <2>3. queue[r] \in Seq(Status \cup {"none"})
    BY <1>1 DEF TypeOK
  <2>4. CASE SendStatus(r)
    <3>1. Head(queue[r]) \in Status
      BY <1>2, <2>3, <2>4 DEF SendStatus
    <3>2. /\ sent'[r] = Append(sent[r], Head(queue[r]))
          /\ queue'[r] = Tail(queue[r])
          /\ generator'[r] = "listening"
      BY <1>1, <1>2, <2>4 DEF SendStatus, TypeOK
    <3>3. sent'[r] \in Seq(Status)
      BY <2>2, <3>1, <3>2
    <3>4. Told(r)' = Told(r)
      <4>1. sent[r] \in Seq(Status \cup {"none"})
        BY <2>2
      <4>2. Append(sent[r], Head(queue[r])) \o Tail(queue[r]) = sent[r] \o queue[r]
        BY <1>2, <2>3, <4>1, QueueMoves
      <4> QED
        BY <3>2, <4>2 DEF Told
    <3> QED
      BY <1>2, <1>3, <2>1, <2>2, <3>2, <3>3, <3>4 DEF StreamInv, Looping
  <2>5. CASE Join(r)
    <3>1. generator'[r] = "joining" /\ sent' = sent /\ Head(queue[r]) = "none"
      BY <1>1, <2>5 DEF Join, TypeOK
    <3>2. new[r] \in Seq(Message)
      BY <1>1 DEF TypeOK
    <3>3. Len(new[r]) \in Nat /\ Len(new[r]) + 1 \in Nat
      BY <3>2
    <3>4. /\ \A n \in Nat : Told(r) # Emitted(n)
          /\ \A n \in Nat : Told(r) = Append(Emitted(n), "none") => sent[r] = Emitted(n)
      BY <1>2, <2>2, <2>3, <3>1, NoneIsLast DEF Told
    <3>5. at[r] \in {"returned", "raised"}
      BY <1>2, <2>1, <2>2, <3>3, <3>4 DEF StreamInv, Looping
    <3>6. at[r] = "returned" => sent[r] = Emitted(Len(new[r]))
      BY <1>2, <2>1, <3>3, <3>4 DEF StreamInv
    <3> QED
      BY <1>3, <2>2, <3>1, <3>5, <3>6 DEF StreamInv
  <2> QED
    BY <2>4, <2>5
<1> QED
  BY <1>5, <1>6, <1>7, <1>8 DEF RequestInv

LEMMA LeaveKeeps ==
  ASSUME IndInv, NEW r \in Request, NEW how \in {"answered", "closed"}, Leave(r, how),
         how = "answered" => Stored(r),
         r \in Streaming =>
           /\ generator'[r] = "ended"
           /\ how = "answered" => sent'[r] = Append(Emitted(Len(new[r])), "done")
           /\ how = "closed" => sent'[r] \in Seq(Status)
  PROVE  RequestInv(r)'
<1>1. TypeOK /\ HistoryInv /\ RequestInv(r)
  BY DEF IndInv
<1>2. at'[r] = how /\ pending'[r] = {} /\ renamed'[r] = None
  BY <1>1 DEF Leave, TypeOK
<1>3. UNCHANGED Committed
  BY DEF Leave, storeVars, Committed
<1>4. /\ Stored(r) => new'[r] = new[r]
      /\ ~Stored(r) => new'[r] = <<>>
  BY <1>1 DEF Leave, TypeOK
<1>5. Stored(r) => at[r] \in Over
  BY <1>1 DEF RequestInv, StoredInv
<1>6. Messages(r)'
  <2>1. CASE Stored(r)
    <3>1. Answered(new[r]) /\ \A i \in 1..Len(new[r]) : new[r][i].turn = r
      BY <1>1, <1>5, <2>1 DEF RequestInv, Messages, Over
    <3>2. Answered(new[r])'
      BY <1>4, <2>1, <3>1 DEF Answered, Answers
    <3>3. \A i \in 1..Len(new'[r]) : new'[r][i].turn = r
      BY <1>4, <2>1, <3>1
    <3> QED
      BY <1>2, <3>2, <3>3 DEF Messages
  <2>2. CASE ~Stored(r)
    BY <1>2, <1>4, <2>2, NothingYet
  <2> QED
    BY <2>1, <2>2
<1>7. Running(r)' /\ RenameInv(r)' /\ PendingInv(r)'
  BY <1>2 DEF Running, RenameInv, PendingInv, Looping
<1>8. StoredInv(r)'
  <2>1. CASE Stored(r)
    <3>1. Stored(r)' /\ Logged(r)' = Logged(r) /\ LoggedCalls(r)' = LoggedCalls(r)
      BY <1>3, <1>4, <2>1, StoredFrame, LoggedCallsFrame
    <3>2. WholeTurn(r) => WholeTurn(r)'
      BY <1>3, <1>4, <2>1 DEF WholeTurn, Block, Holds, Committed
    <3> QED
      BY <1>1, <1>2, <2>1, <3>1, <3>2 DEF RequestInv, StoredInv, Over
  <2>2. CASE ~Stored(r)
    <3>1. ~Stored(r)'
      BY <1>3, <2>2, StoredFrame
    <3> QED
      BY <1>2, <2>2, <3>1 DEF StoredInv
  <2> QED
    BY <2>1, <2>2
<1>9. ASSUME r \in Streaming
      PROVE  StreamInv(r)'
  <2>1. generator'[r] = "ended"
    BY <1>9
  <2>2. CASE how = "answered"
    BY <1>2, <1>4, <1>9, <2>1, <2>2 DEF StreamInv
  <2>3. CASE how = "closed"
    BY <1>2, <1>9, <2>1, <2>3 DEF StreamInv
  <2> QED
    BY <2>2, <2>3
<1> QED
  BY <1>6, <1>7, <1>8, <1>9 DEF RequestInv

LEMMA RespondKeeps ==
  ASSUME IndInv, NEW r \in Request, Respond(r)
  PROVE  RequestInv(r)'
<1>1. TypeOK /\ RequestInv(r)
  BY DEF IndInv
<1>2. Stored(r)
  BY <1>1 DEF Respond, RequestInv, StoredInv
<1>3. ASSUME r \in Streaming
      PROVE  generator'[r] = "ended" /\ sent'[r] = Append(Emitted(Len(new[r])), "done")
  <2>1. sent[r] = Emitted(Len(new[r]))
    BY <1>1, <1>3 DEF Respond, RequestInv, StreamInv
  <2> QED
    BY <1>1, <1>3, <2>1 DEF Respond, TypeOK
<1> QED
  BY <1>2, <1>3, LeaveKeeps DEF Respond

LEMMA EndKeeps ==
  ASSUME IndInv, NEW r \in Request, Fail(r) \/ Disconnect(r) \/ Kill(r)
  PROVE  RequestInv(r)'
<1>1. TypeOK /\ RequestInv(r)
  BY DEF IndInv
<1>2. sent' = sent /\ (r \in Streaming => generator'[r] = "ended")
  BY <1>1 DEF Fail, Disconnect, Kill, TypeOK
<1>3. ASSUME r \in Streaming
      PROVE  at[r] # "answered" /\ sent[r] \in Seq(Status)
  <2>1. StreamInv(r)
    BY <1>1, <1>3 DEF RequestInv
  <2>2. at[r] # "answered"
    BY <2>1 DEF Fail, Disconnect, Kill, StreamInv
  <2> QED
    BY <2>1, <2>2 DEF StreamInv
<1>4. CASE Leave(r, "closed")
  BY <1>2, <1>3, <1>4, LeaveKeeps
<1>5. CASE /\ pending' = [pending EXCEPT ![r] = {}] /\ r \in Streaming
           /\ UNCHANGED <<storeVars, at, new, todo, renamed, queue, requestVars>>
  <2>1. UNCHANGED <<Committed, at, new, todo, renamed, queue, context>> /\ pending'[r] = {}
    BY <1>1, <1>5 DEF storeVars, requestVars, Committed, TypeOK
  <2>2. Messages(r)'
    BY <1>1, <2>1 DEF RequestInv, Messages, Answered, Answers
  <2>3. Running(r)' /\ RenameInv(r)'
    BY <1>1, <2>1, RunningFrame, RenameFrame DEF RequestInv
  <2>4. PendingInv(r)'
    BY <1>2, <1>5, <2>1 DEF PendingInv, Abandoned
  <2>5. StoredInv(r)'
    BY <1>1, <2>1, StoredInvFrame DEF RequestInv
  <2>6. StreamInv(r)'
    <3>1. \/ /\ at[r] \notin {"prepared", "returned", "raised", "committed"}
             /\ generator[r] # "none"
          \/ Leave(r, "closed")
      BY <1>5 DEF Fail, Disconnect, Kill
    <3>2. StreamInv(r)
      BY <1>1, <1>5 DEF RequestInv
    <3> QED
      BY <1>2, <1>3, <1>4, <1>5, <2>1, <3>1, <3>2 DEF StreamInv, RequestInv
  <2> QED
    BY <2>2, <2>3, <2>4, <2>5, <2>6 DEF RequestInv
<1>6. Disconnect(r) => r \in Streaming
  BY DEF IndInv, NoStreamOf, Disconnect
<1> QED
  BY <1>4, <1>5, <1>6 DEF Fail, Disconnect, Kill

-----------------------------------------------------------------------------
(* The commit. *)

LEMMA PlaceIsApart ==
  ASSUME TypeOK, HistoryInv, NEW r \in Request, NEW p \in 0..Len(history), Place(r, p)
  PROVE  Apart(history, p)
<1>1. Len(history) \in Nat
  BY DEF TypeOK
<1>2. \A i \in 1..Len(history) : CreatedAt(history[i]) \in Nat
  BY DEF TypeOK, HistoryInv, CreatedAt
<1>3. began[r] \in Nat
  BY DEF TypeOK
<1> SUFFICES ASSUME NEW i \in 1..p, NEW j \in (p + 1)..Len(history),
                    history[i].turn = history[j].turn
             PROVE  FALSE
  BY DEF Apart
<1>4. i \in 1..Len(history) /\ j \in 1..Len(history)
  BY <1>1
<1>5. CreatedAt(history[i]) < began[r] /\ CreatedAt(history[j]) > began[r]
  BY DEF Place
<1>6. CreatedAt(history[i]) = CreatedAt(history[j])
  BY DEF CreatedAt
<1>7. CreatedAt(history[i]) \in Nat
  BY <1>2, <1>4
<1> HIDE DEF CreatedAt
<1> QED
  BY <1>3, <1>5, <1>6, <1>7

LEMMA FinalizeFacts ==
  ASSUME IndInv, NEW r \in Request, Finalize(r)
  PROVE  /\ at[r] = "returned" /\ ~Stored(r) /\ Logged(r) = {}
         /\ pending[r] = LoggedCalls(r)
         /\ Answered(new[r])
         /\ \A i \in 1..Len(history) : history[i].turn # r
         /\ Len(history) \in Nat /\ Len(Block(r)) \in Nat /\ Len(Block(r)) >= 1
         /\ \A i \in 1..Len(Block(r)) : Block(r)[i].turn = r
         /\ \E p \in 0..Len(history) :
              /\ history' = Insert(r, p)
              /\ Inserted(history', history, p, Block(r))
              /\ Apart(history, p)
<1>1. TypeOK /\ HistoryInv /\ RequestInv(r)
  BY DEF IndInv
<1>2. at[r] = "returned" /\ (r \in Streaming => generator[r] = "joining")
  BY DEF Finalize, MayFinalize
<1>3. ~Stored(r) /\ Logged(r) = {}
  BY <1>1, <1>2 DEF RequestInv, StoredInv, HistoryInv, Over
<1>4. pending[r] = LoggedCalls(r)
  <2>1. ~Abandoned(r)
    BY <1>2 DEF Abandoned
  <2>2. Executed(r) = LoggedCalls(r)
    BY <1>2 DEF Executed
  <2> QED
    BY <1>1, <1>2, <2>1, <2>2 DEF RequestInv, PendingInv
<1>5. Answered(new[r]) /\ \A i \in 1..Len(new[r]) : new[r][i].turn = r
  BY <1>1, <1>2 DEF RequestInv, Messages
<1>6. \A i \in 1..Len(history) : history[i].turn # r
  BY <1>3 DEF Stored
<1>7. history \in Seq(Message) /\ new[r] \in Seq(Message)
  BY <1>1 DEF TypeOK
<1>8. Len(history) \in Nat /\ Len(new[r]) \in Nat
  BY <1>7
<1>9. /\ Len(Block(r)) = 1 + Len(new[r])
      /\ \A i \in 1..Len(Block(r)) : Block(r)[i].turn = r
  BY <1>5, <1>7, BlockIs
<1>10. Len(Block(r)) \in Nat /\ Len(Block(r)) >= 1
  BY <1>8, <1>9
<1>11. PICK p \in 0..Len(history) : Place(r, p) /\ history' = Insert(r, p)
  BY DEF Finalize
<1>12. Inserted(history', history, p, Block(r))
  BY <1>7, <1>11, InsertInserts
<1>13. Apart(history, p)
  BY <1>1, <1>11, PlaceIsApart
<1> QED
  BY <1>2, <1>3, <1>4, <1>5, <1>6, <1>8, <1>9, <1>10, <1>11, <1>12, <1>13

(* A commit stores the turn of its request and no other.                   *)
LEMMA FinalizeStores ==
  ASSUME IndInv, NEW r \in Request, Finalize(r)
  PROVE  /\ Stored(r)'
         /\ \A q : q # r => (Stored(q)' <=> Stored(q))
         /\ Logged(r)' = LoggedCalls(r)
         /\ \A q : q # r => Logged(q)' = Logged(q)
<1> USE FinalizeFacts
<1>1. PICK p \in 0..Len(history) : Inserted(history', history, p, Block(r))
  OBVIOUS
<1> DEFINE b == Block(r)
           n == Len(b)
<1>2. /\ Len(history) \in Nat /\ n \in Nat /\ n >= 1 /\ Len(history') = Len(history) + n
      /\ \A i \in 1..n : b[i].turn = r
  BY <1>1 DEF Inserted
<1> HIDE DEF b, n
<1>3. Stored(r)'
  <2>1. p + 1 \in 1..Len(history') /\ 1 \in 1..n
    BY <1>2
  <2>2. history'[p + 1].turn = r
    BY <1>1, <1>2, <2>1 DEF Inserted, b, n
  <2> QED
    BY <2>1, <2>2 DEF Stored
<1>4. ASSUME NEW q, q # r, Stored(q)
      PROVE  Stored(q)'
  <2>1. PICK i \in 1..Len(history) : history[i].turn = q
    BY <1>4 DEF Stored
  <2>2. CASE i <= p
    <3>1. i \in 1..Len(history') /\ i \in 1..p
      BY <1>2, <2>2
    <3>2. history'[i].turn = q
      BY <1>1, <2>1, <3>1 DEF Inserted
    <3> QED
      BY <3>1, <3>2 DEF Stored
  <2>3. CASE i > p
    <3>1. i + n \in 1..Len(history') /\ i \in (p + 1)..Len(history)
      BY <1>2, <2>3
    <3>2. history'[i + n].turn = q
      BY <1>1, <2>1, <3>1 DEF Inserted, b, n
    <3> QED
      BY <3>1, <3>2 DEF Stored
  <2> QED
    BY <2>2, <2>3
<1>5. ASSUME NEW q, q # r, Stored(q)'
      PROVE  Stored(q)
  <2>1. PICK j \in 1..Len(history') : history'[j].turn = q
    BY <1>5 DEF Stored
  <2>2. \/ j \in 1..p /\ history'[j] = history[j]
        \/ j - p \in 1..n /\ history'[j] = b[j - p]
        \/ j - n \in (p + 1)..Len(history) /\ history'[j] = history[j - n]
    BY <1>1, <1>2, Origin DEF b, n
  <2>3. CASE j \in 1..p /\ history'[j] = history[j]
    BY <1>2, <2>1, <2>3 DEF Stored
  <2>4. CASE j - n \in (p + 1)..Len(history) /\ history'[j] = history[j - n]
    BY <1>2, <2>1, <2>4 DEF Stored
  <2>5. CASE j - p \in 1..n /\ history'[j] = b[j - p]
    BY <1>2, <1>5, <2>1, <2>5
  <2> QED
    BY <2>2, <2>3, <2>4, <2>5
<1>6. logs' = logs \cup pending[r]
  BY DEF Finalize
<1>7. \A e \in pending[r] : e[1] = r
  BY DEF IndInv, RequestInv, PendingInv
<1>8. Logged(r)' = LoggedCalls(r)
  BY <1>6, <1>7 DEF Logged
<1>9. ASSUME NEW q, q # r
      PROVE  Logged(q)' = Logged(q)
  BY <1>6, <1>7, <1>9 DEF Logged
<1> QED
  BY <1>3, <1>4, <1>5, <1>8, <1>9

LEMMA FinalizeHistory ==
  ASSUME IndInv, NEW r \in Request, Finalize(r)
  PROVE  HistoryInv'
<1>1. TypeOK /\ HistoryInv
  BY DEF IndInv
<1>2. PICK p \in 0..Len(history) :
        /\ history' = Insert(r, p)
        /\ Inserted(history', history, p, Block(r))
        /\ Apart(history, p)
  BY FinalizeFacts
<1>3. /\ Len(history) \in Nat /\ Len(Block(r)) \in Nat
      /\ \A i \in 1..Len(history) : history[i].turn # r
      /\ \A i \in 1..Len(Block(r)) : Block(r)[i].turn = r
      /\ Answered(new[r])
  BY FinalizeFacts
<1>4. \A j \in 1..Len(history') : history'[j].turn \in Request \cup {Earlier}
  <2> SUFFICES ASSUME NEW j \in 1..Len(history')
               PROVE  history'[j].turn \in Request \cup {Earlier}
    OBVIOUS
  <2>1. \/ j \in 1..p /\ history'[j] = history[j]
        \/ j - p \in 1..Len(Block(r)) /\ history'[j] = Block(r)[j - p]
        \/ /\ j - Len(Block(r)) \in (p + 1)..Len(history)
           /\ history'[j] = history[j - Len(Block(r))]
    <3>1. Inserted(history', history, p, Block(r))
      BY <1>2
    <3>2. Len(history) \in Nat /\ Len(Block(r)) \in Nat
      BY <1>3
    <3> QED
      BY <3>1, <3>2, Origin
  <2> QED
    BY <1>1, <1>3, <2>1 DEF HistoryInv
<1>5. InOnePiece(history')
  BY <1>1, <1>2, <1>3, InsertedOnePiece DEF HistoryInv
<1>6. Answered(history')
  <2> DEFINE h == history
             a == SubSeq(h, 1, p)
             c == SubSeq(h, p + 1, Len(h))
             x == Question(r)
             t == new[r]
  <2>1. h \in Seq(Message) /\ t \in Seq(Message) /\ x \in Message
    BY <1>1, AreMessages DEF TypeOK
  <2>2. Answered(h)
    BY <1>1 DEF HistoryInv
  <2>3. p \in 1..(Len(h) - 1) => h[p].turn # h[p + 1].turn
    BY <1>2, <1>3 DEF Apart
  <2> HIDE DEF h
  <2>4. Answered(a)
    BY <2>1, <2>2, <2>3, AnsweredFront DEF h
  <2>5. Answered(c)
    BY <2>1, <2>2, <2>3, AnsweredBack DEF h
  <2>6. a \in Seq(Message) /\ c \in Seq(Message) /\ <<x>> \in Seq(Message)
    BY <2>1 DEF h
  <2>7. Answered(<<x>>)
    BY <2>1, OfTurn, AnsweredOne
  <2>8. Answered(t)
    BY <1>3
  <2>9. history' = a \o <<x>> \o t \o c
    BY <1>2 DEF Insert, h
  <2> HIDE DEF a, c, x, t
  <2>10. a \o <<x>> \in Seq(Message) /\ Answered(a \o <<x>>)
    BY <2>4, <2>6, <2>7, AnsweredJoined, Joined
  <2>11. a \o <<x>> \o t \in Seq(Message) /\ Answered(a \o <<x>> \o t)
    BY <2>1, <2>8, <2>10, AnsweredJoined, Joined, Zenon
  <2>12. Answered(a \o <<x>> \o t \o c)
    BY <2>5, <2>6, <2>11, AnsweredJoined, Zenon
  <2> QED
    BY <2>9, <2>12
<1>7. \A q \in Request : ~Stored(q)' => Logged(q)' = {}
  <2> SUFFICES ASSUME NEW q \in Request, ~Stored(q)'
               PROVE  Logged(q)' = {}
    OBVIOUS
  <2> QED
    BY <1>1, FinalizeStores DEF HistoryInv
<1> QED
  BY <1>4, <1>5, <1>6, <1>7 DEF HistoryInv, InOnePiece, Answered, Answers

LEMMA FinalizeKeeps ==
  ASSUME IndInv, NEW r \in Request, Finalize(r), NEW q \in Request
  PROVE  RequestInv(q)'
<1>1. TypeOK /\ HistoryInv /\ RequestInv(q) /\ RequestInv(r)
  BY DEF IndInv
<1>2. PICK p \in 0..Len(history) :
        /\ Inserted(history', history, p, Block(r))
        /\ Apart(history, p)
  BY FinalizeFacts
<1>3. /\ Len(history) \in Nat /\ Len(Block(r)) \in Nat
      /\ \A i \in 1..Len(history) : history[i].turn # r
      /\ \A i \in 1..Len(Block(r)) : Block(r)[i].turn = r
  BY FinalizeFacts
<1>4. UNCHANGED <<new, todo, renamed, queue, context, generator, sent>>
  BY DEF Finalize, requestVars, streamVars
<1>5. Block(q)' = Block(q) /\ LoggedCalls(q)' = LoggedCalls(q)
  BY <1>4, LoggedCallsFrame DEF Block
<1>6. CASE q = r
  <2>1. at[r] = "returned" /\ at'[r] = "committed" /\ pending'[r] = {}
    BY <1>1 DEF Finalize, MayFinalize, TypeOK
  <2>2. Messages(r)'
    <3>1. Answered(new[r])'
      BY <1>1, <1>4, <2>1 DEF RequestInv, Messages, Answered, Answers
    <3>2. \A i \in 1..Len(new'[r]) : new'[r][i].turn = r
      BY <1>1, <1>4 DEF RequestInv, Messages
    <3> QED
      BY <2>1, <3>1, <3>2 DEF Messages
  <2>3. Running(r)' /\ PendingInv(r)'
    BY <2>1 DEF Running, PendingInv, Looping
  <2>4. RenameInv(r)'
    BY <1>1, <1>4, RenameFrame DEF RequestInv
  <2>5. StoredInv(r)'
    <3>1. Holds(history', r, Block(r))
      BY <1>2, <1>3, InsertedHolds
    <3>2. WholeTurn(r)'
      BY <1>5, <1>6, <3>1 DEF WholeTurn, Holds
    <3>3. Stored(r)' /\ Logged(r)' = LoggedCalls(r)'
      BY <1>5, <1>6, FinalizeStores
    <3> QED
      BY <2>1, <3>2, <3>3 DEF StoredInv, Over
  <2>6. ASSUME r \in Streaming
        PROVE  StreamInv(r)'
    <3>1. generator[r] = "joining"
      BY <2>6 DEF Finalize, MayFinalize
    <3>2. StreamInv(r)
      BY <1>1, <2>6 DEF RequestInv
    <3> QED
      BY <1>4, <2>1, <3>1, <3>2 DEF StreamInv
  <2> QED
    BY <1>6, <2>2, <2>3, <2>4, <2>5, <2>6 DEF RequestInv
<1>7. CASE q # r
  <2>1. UNCHANGED <<at[q], new[q], todo[q], renamed[q], context[q], pending[q],
                    queue[q], generator[q], sent[q]>>
    BY <1>1, <1>4, <1>7 DEF Finalize, TypeOK
  <2>2. Messages(q)' /\ Running(q)' /\ RenameInv(q)' /\ PendingInv(q)'
    BY <1>1, <2>1, MessagesFrame, RunningFrame, RenameFrame, PendingFrame
       DEF RequestInv
  <2>3. StoredInv(q)'
    <3>1. (Stored(q)' <=> Stored(q)) /\ Logged(q)' = Logged(q)
      BY <1>7, FinalizeStores
    <3>2. ASSUME WholeTurn(q)
          PROVE  WholeTurn(q)'
      <4>1. new[q] \in Seq(Message) /\ \A i \in 1..Len(new[q]) : new[q][i].turn = q
        BY <1>1 DEF TypeOK, RequestInv, Messages
      <4>2. /\ Len(Block(q)) = 1 + Len(new[q]) /\ Len(new[q]) \in Nat
            /\ \A i \in 1..Len(Block(q)) : Block(q)[i].turn = q
        BY <4>1, BlockIs
      <4>3. Len(Block(q)) \in Nat /\ Len(Block(q)) >= 1
        BY <4>2
      <4>4. \A i \in 1..Len(Block(r)) : Block(r)[i].turn # q
        BY <1>3, <1>7
      <4>5. Holds(history, q, Block(q))
        BY <3>2 DEF WholeTurn
      <4>6. Inserted(history', history, p, Block(r)) /\ Apart(history, p)
        BY <1>2
      <4>7. Len(history) \in Nat /\ Len(Block(r)) \in Nat
        BY <1>3
      <4>8. \A i \in 1..Len(Block(q)) : Block(q)[i].turn = q
        BY <4>2
      <4>9. Holds(history', q, Block(q))
        BY <4>3, <4>4, <4>5, <4>6, <4>7, <4>8, InsertedKeeps
      <4> QED
        BY <1>5, <4>9 DEF WholeTurn, Holds
    <3> QED
      BY <1>1, <1>5, <2>1, <3>1, <3>2 DEF RequestInv, StoredInv
  <2>4. ASSUME q \in Streaming
        PROVE  StreamInv(q)'
    BY <1>1, <2>1, <2>4, StreamFrame DEF RequestInv
  <2> QED
    BY <2>2, <2>3, <2>4 DEF RequestInv
<1> QED
  BY <1>6, <1>7

-----------------------------------------------------------------------------
(* The invariant. *)

LEMMA NoStreamKept ==
  ASSUME TypeOK, NEW r \in Request, RequestStep(r) \/ Disconnect(r) \/ Kill(r),
         NEW q \in Request \ Streaming, NoStreamOf(q)
  PROVE  NoStreamOf(q)'
<1>1. CASE q # r
  BY <1>1, OthersSame DEF Same, NoStreamOf
<1>2. CASE q = r
  <2>1. CASE LoopStep(r)
    BY <2>1 DEF LoopStep, Ask, ReplyToolUse, ReplyFinal, ModelRaises, RunRename, RunTool,
                ToolRaises, AppendResults, streamVars, NoStreamOf
  <2>2. CASE Prepare(r) \/ Finalize(r) \/ Respond(r) \/ Fail(r) \/ Kill(r)
    BY <1>2, <2>2 DEF Prepare, Finalize, Respond, Fail, Kill, streamVars, NoStreamOf
  <2>3. CASE StartStream(r) \/ SendStatus(r) \/ Join(r) \/ Disconnect(r)
    BY <1>2, <2>3 DEF StartStream, SendStatus, Join, Disconnect, NoStreamOf
  <2> QED
    BY <2>1, <2>2, <2>3 DEF RequestStep
<1> QED
  BY <1>1, <1>2

LEMMA InitIndInv == Init => IndInv
<1> SUFFICES ASSUME Init
             PROVE  IndInv
  OBVIOUS
<1> DEFINE first == <<Question(Earlier), Assistant(Earlier, 1, "end_turn", <<>>)>>
<1>1. \A r \in Request :
        /\ at[r] = "new" /\ new[r] = <<>> /\ pending[r] = {} /\ renamed[r] = None
        /\ generator[r] = "none" /\ sent[r] = <<>> /\ queue[r] = <<>>
  BY DEF Init
<1>2. /\ <<>> \in Seq(Message) /\ <<>> \in Seq({"tool", "rename"})
      /\ <<>> \in Seq(Status \cup {"none"}) /\ <<>> \in Seq(Status \cup {"done"})
      /\ <<>> \in Seq(Status) /\ Len(<<>>) = 0 /\ 0 % 2 = 0
  OBVIOUS
<1>3. Question(Earlier) \in Message /\ Assistant(Earlier, 1, "end_turn", <<>>) \in Message
  BY <1>2 DEF Question, Assistant, Message
<1>4. first \in Seq(Message) /\ Len(first) = 2
      /\ first[1] = Question(Earlier) /\ first[2] = Assistant(Earlier, 1, "end_turn", <<>>)
  BY <1>3
<1> HIDE DEF first
<1>5. history = <<>> \/ history = first
  BY DEF Init, first
<1>6. TypeOK
  <2>1. history \in Seq(Message)
    BY <1>2, <1>4, <1>5
  <2>2. NoContext \in Context
    BY DEF NoContext, Context
  <2> QED
    BY <1>2, <2>1, <2>2 DEF Init, TypeOK
<1>7. \A i \in 1..Len(history) :
        /\ i \in 1..2 /\ history[i].turn = Earlier /\ history[i].stop # "tool_use"
        /\ history[i].results = 0
  <2>1. \A i \in 1..2 :
          first[i].turn = Earlier /\ first[i].stop # "tool_use" /\ first[i].results = 0
    BY <1>4, OfTurn
  <2>2. 1..0 = {}
    OBVIOUS
  <2>3. CASE history = <<>>
    BY <1>2, <2>2, <2>3
  <2>4. CASE history = first
    BY <1>4, <2>1, <2>4
  <2> QED
    BY <1>5, <2>3, <2>4
<1>8. \A r \in Request : ~Stored(r)
  BY <1>7, ChatTurnAssumption DEF Stored
<1>9. HistoryInv
  BY <1>7 DEF Init, HistoryInv, InOnePiece, Answered, Logged
<1>10. ASSUME NEW r \in Request
       PROVE  RequestInv(r)
  <2>1. Messages(r)
    <3>1. new[r] = <<>> /\ Answered(new[r])
      BY <1>1, AnsweredNone
    <3> QED
      BY <1>1, <1>2, <3>1 DEF Messages
  <2>2. Running(r) /\ RenameInv(r) /\ PendingInv(r)
    BY <1>1 DEF Running, RenameInv, PendingInv, Looping
  <2>3. StoredInv(r)
    BY <1>1, <1>8 DEF StoredInv
  <2>4. StreamInv(r)
    BY <1>1, <1>2 DEF StreamInv
  <2> QED
    BY <2>1, <2>2, <2>3, <2>4 DEF RequestInv
<1>11. \A r \in Request : ContextInv(r)
  BY DEF Init, ContextInv, NoContext
<1> QED
  BY <1>1, <1>6, <1>9, <1>10, <1>11 DEF IndInv, NoStreamOf

LEMMA RequestKept ==
  ASSUME IndInv, NEW r \in Request, RequestStep(r) \/ Disconnect(r) \/ Kill(r)
  PROVE  RequestInv(r)'
BY PrepareKeeps, StartStreamKeeps, AskKeeps, ReplyToolUseKeeps, ReplyFinalKeeps, RaiseKeeps,
   RunRenameKeeps, RunToolKeeps, AppendResultsKeeps, ReadKeeps, FinalizeKeeps, RespondKeeps,
   EndKeeps
   DEF RequestStep, LoopStep

(* What a step of a request does to what it read of the conversation.      *)
LEMMA RequestVarsChange ==
  ASSUME NEW r \in Request, RequestStep(r) \/ Disconnect(r) \/ Kill(r)
  PROVE  UNCHANGED requestVars \/ Prepare(r) \/ Leave(r, "answered") \/ Leave(r, "closed")
<1>1. CASE LoopStep(r)
  BY <1>1 DEF LoopStep, Ask, ReplyToolUse, ReplyFinal, ModelRaises, RunRename, RunTool,
              ToolRaises, AppendResults
<1>2. CASE Prepare(r) \/ StartStream(r) \/ SendStatus(r) \/ Join(r) \/ Finalize(r)
  BY <1>2 DEF StartStream, SendStatus, Join, Finalize
<1>3. CASE Respond(r) \/ Fail(r) \/ Disconnect(r) \/ Kill(r)
  BY <1>3 DEF Respond, Fail, Disconnect, Kill
<1> QED
  BY <1>1, <1>2, <1>3 DEF RequestStep

LEMMA IsOfTurn ==
  ASSUME HistoryInv, NEW m \in StoredMessages
  PROVE  m.turn = Earlier \/ (m.turn \in Request /\ Stored(m.turn))
BY DEF HistoryInv, StoredMessages, Stored

(* A stored message keeps its created_at.                                  *)
LEMMA CreatedAtKept ==
  ASSUME IndInv, [Next]_vars, NEW m \in StoredMessages
  PROVE  CreatedAt(m)' = CreatedAt(m)
<1>1. CASE m.turn = Earlier
  BY <1>1 DEF CreatedAt
<1>2. ASSUME NEW q \in Request, m.turn = q, Stored(q)
      PROVE  CreatedAt(m)' = CreatedAt(m)
  <2>1. at[q] # "new" /\ began \in [Request -> Nat]
    BY <1>2 DEF IndInv, TypeOK, RequestInv, StoredInv, Over
  <2>2. ASSUME NEW r \in Request, RequestStep(r) \/ Disconnect(r) \/ Kill(r)
        PROVE  began'[q] = began[q]
    <3>1. CASE Prepare(r)
      BY <2>1, <3>1 DEF Prepare
    <3>2. CASE Leave(r, "answered") \/ Leave(r, "closed")
      BY <1>2, <2>1, <3>2 DEF Leave
    <3> QED
      BY <2>2, <3>1, <3>2, RequestVarsChange DEF requestVars
  <2>3. ASSUME Rename \/ Summarize \/ UNCHANGED vars
        PROVE  began' = began
    BY <2>3 DEF Rename, Summarize, vars, requestVars
  <2>4. began'[q] = began[q]
    BY <2>2, <2>3 DEF Next
  <2> QED
    BY <1>2, <2>4 DEF CreatedAt
<1> QED
  BY <1>1, <1>2, IsOfTurn DEF IndInv

(* A commit adds messages, those of its own turn.                          *)
LEMMA FinalizeMessages ==
  ASSUME IndInv, NEW r \in Request, Finalize(r)
  PROVE  /\ StoredMessages \subseteq StoredMessages'
         /\ \A k \in StoredMessages' : k \in StoredMessages \/ k.turn = r
<1>1. PICK p \in 0..Len(history) : Inserted(history', history, p, Block(r))
  BY FinalizeFacts
<1>2. /\ Len(history) \in Nat /\ Len(Block(r)) \in Nat
      /\ \A i \in 1..Len(Block(r)) : Block(r)[i].turn = r
  BY FinalizeFacts
<1>3. ASSUME NEW i \in 1..Len(history)
      PROVE  history[i] \in StoredMessages'
  <2>1. CASE i <= p
    <3>1. i \in 1..Len(history') /\ history'[i] = history[i]
      BY <1>1, <1>2, <2>1 DEF Inserted
    <3> QED
      BY <3>1 DEF StoredMessages
  <2>2. CASE i > p
    <3>1. i + Len(Block(r)) \in 1..Len(history') /\ i \in (p + 1)..Len(history)
      BY <1>1, <1>2, <2>2 DEF Inserted
    <3>2. history'[i + Len(Block(r))] = history[i]
      BY <1>1, <3>1 DEF Inserted
    <3> QED
      BY <3>1, <3>2 DEF StoredMessages
  <2> QED
    BY <2>1, <2>2
<1>4. ASSUME NEW j \in 1..Len(history')
      PROVE  history'[j] \in StoredMessages \/ history'[j].turn = r
  <2>1. \/ j \in 1..p /\ history'[j] = history[j]
        \/ j - p \in 1..Len(Block(r)) /\ history'[j] = Block(r)[j - p]
        \/ /\ j - Len(Block(r)) \in (p + 1)..Len(history)
           /\ history'[j] = history[j - Len(Block(r))]
    BY <1>1, <1>2, Origin
  <2> QED
    BY <1>2, <2>1 DEF StoredMessages
<1> QED
  BY <1>3, <1>4 DEF StoredMessages

(* A stored turn stays as it is.                                           *)
LEMMA TurnOfKept ==
  ASSUME IndInv, [Next]_vars, NEW m \in StoredMessages
  PROVE  m \in StoredMessages' /\ TurnOf(m)' = TurnOf(m)
<1>1. CASE UNCHANGED Committed
  BY <1>1 DEF Committed, StoredMessages, TurnOf
<1>2. ASSUME NEW r \in Request, Finalize(r)
      PROVE  m \in StoredMessages' /\ TurnOf(m)' = TurnOf(m)
  <2>1. m.turn # r
    <3>1. \A i \in 1..Len(history) : history[i].turn # r
      BY <1>2, FinalizeFacts
    <3> QED
      BY <3>1 DEF StoredMessages
  <2> QED
    BY <1>2, <2>1, FinalizeMessages DEF TurnOf
<1>3. ASSUME NEW r \in Request, RequestStep(r) \/ Disconnect(r) \/ Kill(r), ~Finalize(r)
      PROVE  UNCHANGED Committed
  BY <1>3, OnlyFinalizeCommits
<1>4. CASE Rename \/ Summarize \/ UNCHANGED vars
  BY <1>1, <1>4 DEF Rename, Summarize, vars, storeVars, Committed
<1> QED
  BY <1>1, <1>2, <1>3, <1>4 DEF Next

(* What a request reads: all, or the newest.                               *)
LEMMA ContextIsWhole ==
  ASSUME NEW c \in BuildChatContext, NEW m \in c.messages
  PROVE  /\ c.messages \subseteq StoredMessages
         /\ \/ c.summary /\ \A k \in c.messages : CreatedAt(m) <= CreatedAt(k)
            \/ TurnOf(m) \subseteq c.messages
<1>1. CASE c = [summary |-> FALSE, messages |-> StoredMessages]
  BY <1>1 DEF TurnOf
<1>2. CASE c.summary /\ c.messages \in Newest(Window)
  <2>1. /\ c.messages \subseteq StoredMessages
        /\ \A n \in c.messages, k \in StoredMessages \ c.messages : CreatedAt(k) <= CreatedAt(n)
    BY <1>2 DEF Newest
  <2>2. ASSUME NEW k \in TurnOf(m), k \notin c.messages
        PROVE  \A n \in c.messages : CreatedAt(m) <= CreatedAt(n)
    <3>1. CreatedAt(k) = CreatedAt(m) /\ k \in StoredMessages
      BY DEF TurnOf, CreatedAt
    <3> QED
      BY <2>1, <2>2, <3>1
  <2> QED
    BY <1>2, <2>1, <2>2
<1> QED
  BY <1>1, <1>2 DEF BuildChatContext

LEMMA ContextKept ==
  ASSUME IndInv, [Next]_vars, NEW q \in Request
  PROVE  ContextInv(q)'
<1>1. \A m \in StoredMessages :
        /\ m \in StoredMessages' /\ TurnOf(m)' = TurnOf(m)
        /\ CreatedAt(m)' = CreatedAt(m)
  BY TurnOfKept, CreatedAtKept
<1>2. TypeOK /\ ContextInv(q)
  BY DEF IndInv
<1>3. ASSUME NEW c, context'[q] = c, c.messages \subseteq StoredMessages,
             \A m \in c.messages :
               \/ c.summary /\ \A k \in c.messages : CreatedAt(m) <= CreatedAt(k)
               \/ TurnOf(m) \subseteq c.messages
      PROVE  ContextInv(q)'
  <2>1. c.messages \subseteq StoredMessages'
    BY <1>1, <1>3
  <2>2. ASSUME NEW m \in c.messages
        PROVE  \/ c.summary /\ \A k \in c.messages : CreatedAt(m)' <= CreatedAt(k)'
               \/ TurnOf(m)' \subseteq c.messages
    BY <1>1, <1>3
  <2> QED
    BY <1>3, <2>1, <2>2 DEF ContextInv
<1>4. CASE context'[q] = context[q]
  <2>1. PICK c : c = context[q]
    OBVIOUS
  <2> QED
    BY <1>2, <1>3, <1>4, <2>1 DEF ContextInv
<1>5. CASE context'[q] = NoContext
  BY <1>3, <1>5 DEF NoContext
<1>6. ASSUME NEW r \in Request, Prepare(r), q = r
      PROVE  ContextInv(q)'
  <2>1. PICK c \in BuildChatContext : context'[q] = c
    BY <1>2, <1>6 DEF Prepare, TypeOK
  <2>2. c.messages \subseteq StoredMessages
    BY ContextIsWhole DEF BuildChatContext, Newest
  <2> QED
    BY <1>3, <2>1, <2>2, ContextIsWhole
<1>7. ASSUME NEW r \in Request, RequestStep(r) \/ Disconnect(r) \/ Kill(r), ~(Prepare(r) /\ q = r)
      PROVE  context'[q] \in {context[q], NoContext}
  <2>1. CASE UNCHANGED requestVars
    BY <2>1 DEF requestVars
  <2>2. CASE Prepare(r)
    BY <1>2, <1>7, <2>2 DEF Prepare, TypeOK
  <2>3. CASE Leave(r, "answered") \/ Leave(r, "closed")
    BY <1>2, <2>3 DEF Leave, TypeOK
  <2> QED
    BY <1>7, <2>1, <2>2, <2>3, RequestVarsChange
<1>8. CASE Rename \/ Summarize \/ UNCHANGED vars
  BY <1>4, <1>8 DEF Rename, Summarize, vars, requestVars
<1> QED
  BY <1>4, <1>5, <1>6, <1>7, <1>8 DEF Next

LEMMA StepIndInv == IndInv /\ [Next]_vars => IndInv'
<1> SUFFICES ASSUME IndInv, [Next]_vars
             PROVE  IndInv'
  OBVIOUS
<1>1. TypeOK'
  BY TypeKept
<1>2. TypeOK /\ HistoryInv /\ \A q \in Request : ContextInv(q)'
  BY ContextKept DEF IndInv
<1>3. ASSUME UNCHANGED <<Committed, loopVars, requestVars, streamVars>>
      PROVE  IndInv'
  <2>1. HistoryInv'
    BY <1>2, <1>3, HistoryFrame
  <2>2. ASSUME NEW q \in Request
        PROVE  RequestInv(q)'
    <3>1. Same(q)
      BY <1>3 DEF Same, Loop, loopVars, requestVars, streamVars
    <3> QED
      BY <1>3, <3>1, Frame DEF IndInv
  <2>3. \A q \in Request \ Streaming : NoStreamOf(q)'
    BY <1>3 DEF IndInv, NoStreamOf, streamVars
  <2> QED
    BY <1>1, <1>2, <2>1, <2>2, <2>3 DEF IndInv
<1>4. CASE Rename \/ Summarize \/ UNCHANGED vars
  BY <1>3, <1>4 DEF Rename, Summarize, vars, storeVars, Committed
<1>5. ASSUME NEW r \in Request, RequestStep(r) \/ Disconnect(r) \/ Kill(r)
      PROVE  IndInv'
  <2>1. ASSUME NEW q \in Request \ Streaming
        PROVE  NoStreamOf(q)'
    BY <1>2, <1>5, NoStreamKept DEF IndInv
  <2>2. CASE Finalize(r)
    <3>1. HistoryInv'
      BY <2>2, FinalizeHistory
    <3>2. \A q \in Request : RequestInv(q)'
      BY <2>2, FinalizeKeeps
    <3> QED
      BY <1>1, <1>2, <2>1, <3>1, <3>2 DEF IndInv
  <2>3. CASE ~Finalize(r)
    <3>1. UNCHANGED Committed
      BY <1>5, <2>3, OnlyFinalizeCommits
    <3>2. HistoryInv'
      BY <1>2, <3>1, HistoryFrame
    <3>3. ASSUME NEW q \in Request
          PROVE  RequestInv(q)'
      <4>1. CASE q = r
        BY <1>5, <4>1, RequestKept
      <4>2. CASE q # r
        <5>1. Same(q)
          BY <1>2, <1>5, <4>2, OthersSame
        <5> QED
          BY <3>1, <5>1, Frame DEF IndInv
      <4> QED
        BY <4>1, <4>2
    <3> QED
      BY <1>1, <1>2, <2>1, <3>2, <3>3 DEF IndInv
  <2> QED
    BY <2>2, <2>3
<1> QED
  BY <1>4, <1>5 DEF Next

(* However requests overlap, fail and lose their clients, the history has  *)
(* whole turns and every request's variables hang together.                *)
THEOREM Invariance == Spec => []IndInv
BY InitIndInv, StepIndInv, PTL DEF Spec

(* The values stay in their types, whatever requests, window and limits    *)
(* there are.                                                              *)
THEOREM TypeCorrect == Spec => []TypeOK
<1>1. IndInv => TypeOK
  BY DEF IndInv
<1> QED
  BY <1>1, Invariance, PTL

(* However requests overlap, fail or lose their client, a turn is stored   *)
(* whole and in one piece or not at all, and its log rows with it.         *)
THEOREM TurnsStoredWhole == Spec => []TurnsAreWhole
<1>1. IndInv => TurnsAreWhole
  <2> SUFFICES ASSUME IndInv, NEW r \in Request
               PROVE  IF Stored(r)
                      THEN /\ \E p \in 0..(Len(history) - 1 - Len(new[r])) :
                                /\ {history[i] : i \in (p + 1)..(p + 1 + Len(new[r]))}
                                     = {Question(r)} \cup {new[r][i] : i \in 1..Len(new[r])}
                                /\ \A i \in 1..Len(history) :
                                     history[i].turn = r => i \in (p + 1)..(p + 1 + Len(new[r]))
                           /\ Logged(r) = LoggedCalls(r)
                      ELSE Logged(r) = {}
    BY DEF TurnsAreWhole
  <2>1. TypeOK /\ HistoryInv /\ RequestInv(r)
    BY DEF IndInv
  <2>2. CASE ~Stored(r)
    BY <2>1, <2>2 DEF HistoryInv
  <2>3. CASE Stored(r)
    <3> DEFINE b == Block(r)
               h == history
               n == Len(new[r])
    <3>1. Logged(r) = LoggedCalls(r) /\ Holds(h, r, b)
      BY <2>1, <2>3 DEF RequestInv, StoredInv, WholeTurn
    <3>2. b \in Seq(Message) /\ Len(b) = 1 + n /\ n \in Nat /\ h \in Seq(Message)
      BY <2>1, BlockIs DEF TypeOK, RequestInv, Messages
    <3>3. b[1] = Question(r) /\ \A i \in 1..n : b[i + 1] = new[r][i]
      <4>1. new[r] \in Seq(Message)
        BY <2>1 DEF TypeOK
      <4> QED
        BY <4>1 DEF Block
    <3> HIDE DEF b, h, n
    <3>4. PICK p \in 0..(Len(h) - Len(b)) :
            /\ \A i \in 1..Len(b) : h[p + i] = b[i]
            /\ \A i \in 1..Len(h) : h[i].turn = r => i \in (p + 1)..(p + Len(b))
      BY <3>1 DEF Holds
    <3>5. p \in 0..(Len(h) - 1 - n) /\ p + Len(b) = p + 1 + n
      BY <3>2
    <3>6. {h[i] : i \in (p + 1)..(p + 1 + n)} = {Question(r)} \cup {new[r][i] : i \in 1..n}
      <4> DEFINE A == {h[i] : i \in (p + 1)..(p + 1 + n)}
                 B == {Question(r)} \cup {new[r][i] : i \in 1..n}
      <4>1. h[p + 1] = Question(r) /\ \A i \in 1..n : h[p + 1 + i] = new[r][i]
        BY <3>2, <3>3, <3>4
      <4>2. ASSUME NEW i \in (p + 1)..(p + 1 + n)
            PROVE  h[i] \in B
        <5>1. CASE i = p + 1
          BY <4>1, <5>1
        <5>2. CASE i # p + 1
          <6>1. i - p - 1 \in 1..n /\ p + 1 + (i - p - 1) = i
            BY <3>2, <5>2
          <6>2. h[p + 1 + (i - p - 1)] = new[r][i - p - 1]
            BY <4>1, <6>1
          <6> QED
            BY <6>1, <6>2
        <5> QED
          BY <5>1, <5>2
      <4>3. ASSUME NEW i \in 1..n
            PROVE  new[r][i] \in A
        <5>1. p + 1 + i \in (p + 1)..(p + 1 + n)
          BY <3>2
        <5> QED
          BY <4>1, <5>1
      <4>4. Question(r) \in A
        <5>1. p + 1 \in (p + 1)..(p + 1 + n)
          BY <3>2
        <5> QED
          BY <4>1, <5>1
      <4> QED
        BY <4>2, <4>3, <4>4
    <3>7. \A i \in 1..Len(h) : h[i].turn = r => i \in (p + 1)..(p + 1 + n)
      BY <3>4, <3>5
    <3> QED
      BY <2>3, <3>1, <3>5, <3>6, <3>7 DEF h, n
  <2> QED
    BY <2>2, <2>3
<1> QED
  BY <1>1, Invariance, PTL

(* Every context sent to the model is made of whole turns, the oldest      *)
(* behind a summary excepted, and in a whole turn calls have their results *)
(* and results their calls.                                                *)
THEOREM ContextsWhole == Spec => []ContextsHoldWholeTurns
<1>1. IndInv => ContextsHoldWholeTurns
  <2> SUFFICES ASSUME IndInv, NEW r \in Request, at[r] = "asking"
               PROVE  LET read == context[r].messages IN
                      /\ \A m \in read :
                           \/ context[r].summary /\ \A k \in read : CreatedAt(m) <= CreatedAt(k)
                           \/ /\ TurnOf(m) \subseteq read
                              /\ m.stop = "tool_use" => \E k \in read : Answers(k, m)
                              /\ m.results > 0 => \E k \in read : Answers(m, k)
                      /\ \A i \in 1..Len(new[r]) :
                           new[r][i].stop = "tool_use" =>
                             i < Len(new[r]) /\ Answers(new[r][i + 1], new[r][i])
    BY DEF ContextsHoldWholeTurns
  <2>1. TypeOK /\ Answered(history) /\ ContextInv(r) /\ Answered(new[r])
    BY DEF IndInv, HistoryInv, RequestInv, Messages
  <2>2. ASSUME NEW m \in context[r].messages, TurnOf(m) \subseteq context[r].messages
        PROVE  /\ m.stop = "tool_use" => \E k \in context[r].messages : Answers(k, m)
               /\ m.results > 0 => \E k \in context[r].messages : Answers(m, k)
    <3>1. PICK i \in 1..Len(history) : m = history[i]
      BY <2>1 DEF ContextInv, StoredMessages
    <3>2. Len(history) \in Nat
      BY <2>1 DEF TypeOK
    <3>3. ASSUME m.stop = "tool_use"
          PROVE  \E k \in context[r].messages : Answers(k, m)
      <4>1. i + 1 \in 1..Len(history) /\ Answers(history[i + 1], m)
        BY <2>1, <3>1, <3>2, <3>3 DEF Answered
      <4>2. history[i + 1] \in TurnOf(m)
        BY <4>1 DEF TurnOf, StoredMessages, Answers
      <4> QED
        BY <2>2, <4>1, <4>2
    <3>4. ASSUME m.results > 0
          PROVE  \E k \in context[r].messages : Answers(m, k)
      <4>1. i - 1 \in 1..Len(history) /\ Answers(m, history[i - 1])
        BY <2>1, <3>1, <3>2, <3>4 DEF Answered
      <4>2. history[i - 1] \in TurnOf(m)
        BY <4>1 DEF TurnOf, StoredMessages, Answers
      <4> QED
        BY <2>2, <4>1, <4>2
    <3> QED
      BY <3>3, <3>4
  <2>3. \A i \in 1..Len(new[r]) :
          new[r][i].stop = "tool_use" => i < Len(new[r]) /\ Answers(new[r][i + 1], new[r][i])
    BY <2>1 DEF Answered
  <2> QED
    BY <2>1, <2>2, <2>3 DEF ContextInv
<1> QED
  BY <1>1, Invariance, PTL

(* The event "done" ends a stream that told every status of a stored turn. *)
THEOREM DoneAfterAll == Spec => []DoneIsComplete
<1>1. IndInv => DoneIsComplete
  <2> SUFFICES ASSUME IndInv, NEW r \in Streaming, NEW i \in 1..Len(sent[r]),
                      sent[r][i] = "done"
               PROVE  /\ i = Len(sent[r])
                      /\ Stored(r)
                      /\ SubSeq(sent[r], 1, i - 1) = Statuses(new[r])
    BY DEF DoneIsComplete
  <2>1. r \in Request /\ TypeOK /\ RequestInv(r) /\ StreamInv(r)
    BY ChatTurnAssumption DEF IndInv, RequestInv
  <2>2. at[r] = "answered"
    <3>1. "done" \notin Status
      BY DEF Status
    <3>2. sent[r] \in Seq(Status) => sent[r][i] \in Status
      OBVIOUS
    <3> QED
      BY <2>1, <3>1, <3>2 DEF StreamInv
  <2> DEFINE n == Len(new[r])
             e == Emitted(n)
             s == sent[r]
  <2>3. n \in Nat
    BY <2>1 DEF TypeOK
  <2>4. e \in Seq(Status) /\ Len(e) = n
    BY <2>3, EmittedIs
  <2>5. s = Append(e, "done")
    BY <2>1, <2>2 DEF StreamInv
  <2>6. Stored(r)
    BY <2>1, <2>2 DEF RequestInv, StoredInv
  <2>7. e = Statuses(new[r])
    BY DEF Emitted, Statuses
  <2> HIDE DEF e, n
  <2>8. Len(s) = n + 1 /\ \A k \in 1..n : s[k] \in Status
    BY <2>3, <2>4, <2>5
  <2>9. i = n + 1
    BY <2>3, <2>8 DEF Status
  <2>10. SubSeq(s, 1, n) = e
    BY <2>3, <2>4, <2>5
  <2>11. i = Len(s) /\ i - 1 = n
    BY <2>3, <2>8, <2>9
  <2> QED
    BY <2>6, <2>7, <2>10, <2>11
<1> QED
  BY <1>1, Invariance, PTL

-----------------------------------------------------------------------------
(* What a step may do. *)

LEMMA OnlyItsCommitStores ==
  ASSUME IndInv, [Next]_vars, NEW r \in Request, ~Finalize(r)
  PROVE  (Stored(r)' <=> Stored(r)) /\ Logged(r)' = Logged(r)
<1>1. ASSUME UNCHANGED Committed
      PROVE  (Stored(r)' <=> Stored(r)) /\ Logged(r)' = Logged(r)
  BY <1>1, StoredFrame
<1>2. ASSUME NEW q \in Request, RequestStep(q) \/ Disconnect(q) \/ Kill(q)
      PROVE  (Stored(r)' <=> Stored(r)) /\ Logged(r)' = Logged(r)
  <2>1. CASE Finalize(q)
    <3>1. q # r
      BY <2>1
    <3> QED
      BY <2>1, <3>1, FinalizeStores
  <2>2. CASE ~Finalize(q)
    BY <1>1, <1>2, <2>2, OnlyFinalizeCommits
  <2> QED
    BY <2>1, <2>2
<1>3. CASE Rename \/ Summarize \/ UNCHANGED vars
  BY <1>1, <1>3 DEF Rename, Summarize, vars, storeVars, Committed
<1> QED
  BY <1>2, <1>3 DEF Next

(* A title changes with the commit of a turn only if a reply of the turn   *)
(* asked for a rename.                                                     *)
THEOREM TitlesKept == Spec => RenamesSurvive
<1> DEFINE A == \A r \in Request :
                  ~Stored(r) /\ Stored(r)' /\ title' # title =>
                    \E i \in 1..Len(new[r]) :
                      new[r][i].stop = "tool_use" /\ \E k \in 1..Len(new[r][i].calls) :
                        new[r][i].calls[k] = "rename"
<1>1. IndInv /\ [Next]_vars => [A]_vars
  <2> SUFFICES ASSUME IndInv, [Next]_vars, NEW r \in Request,
                      ~Stored(r), Stored(r)', title' # title
               PROVE  AskedRename(r)
    BY DEF AskedRename
  <2>1. Finalize(r)
    BY OnlyItsCommitStores
  <2>2. renamed[r] # None
    BY <2>1 DEF Finalize
  <2> QED
    BY <2>2 DEF IndInv, RequestInv, RenameInv
<1>2. Spec => [][A]_vars
  BY <1>1, Invariance, PTL DEF Spec
<1> QED
  BY <1>2 DEF RenamesSurvive

(* The task of a stream whose client is gone stores nothing.               *)
THEOREM NothingAfterLeaving == Spec => AbandonedStoresNothing
<1> DEFINE A == \A r \in Streaming :
                  Abandoned(r) => (Stored(r)' = Stored(r) /\ Logged(r)' = Logged(r))
<1>1. IndInv /\ [Next]_vars => [A]_vars
  <2> SUFFICES ASSUME IndInv, [Next]_vars, NEW r \in Streaming, Abandoned(r)
               PROVE  Stored(r)' = Stored(r) /\ Logged(r)' = Logged(r)
    OBVIOUS
  <2>1. r \in Request
    BY ChatTurnAssumption
  <2>2. ~Finalize(r)
    BY DEF Finalize, MayFinalize, Abandoned
  <2>3. (Stored(r)' <=> Stored(r)) /\ Logged(r)' = Logged(r)
    BY <2>1, <2>2, OnlyItsCommitStores
  <2>4. Stored(r) \in BOOLEAN /\ Stored(r)' \in BOOLEAN
    BY DEF Stored
  <2> QED
    BY <2>3, <2>4
<1>2. Spec => [][A]_vars
  BY <1>1, Invariance, PTL DEF Spec
<1> QED
  BY <1>2 DEF AbandonedStoresNothing

-----------------------------------------------------------------------------
(* The store of turns. *)

(* Store!StrictOrders and TurnOrder, of any history.                       *)
Turns(h) == {h[i].turn : i \in 1..Len(h)}

ReadBefore(h, s, t) ==
  \E i, j \in 1..Len(h) : i < j /\ h[i].turn = s /\ h[j].turn = t

Order(h) ==
  {e \in Turns(h) \X Turns(h) : e[1] # e[2] /\ ReadBefore(h, e[1], e[2])}

LEMMA OrderIs ==
  ASSUME NEW h, NEW s, NEW t
  PROVE  <<s, t>> \in Order(h) <=>
           s \in Turns(h) /\ t \in Turns(h) /\ s # t /\ ReadBefore(h, s, t)
BY DEF Order

LEMMA OrderIsTotal ==
  ASSUME NEW h, Len(h) \in Nat, NEW s \in Turns(h), NEW t \in Turns(h), s # t
  PROVE  ReadBefore(h, s, t) \/ ReadBefore(h, t, s)
<1>1. PICK i \in 1..Len(h), j \in 1..Len(h) : h[i].turn = s /\ h[j].turn = t
  BY DEF Turns
<1>2. i < j \/ j < i
  BY <1>1
<1> QED
  BY <1>1, <1>2 DEF ReadBefore

LEMMA OrderIsOneWay ==
  ASSUME NEW h, Len(h) \in Nat, InOnePiece(h), NEW s, NEW t, s # t,
         ReadBefore(h, s, t), ReadBefore(h, t, s)
  PROVE  FALSE
<1>1. PICK i \in 1..Len(h), j \in 1..Len(h) : i < j /\ h[i].turn = s /\ h[j].turn = t
  BY DEF ReadBefore
<1>2. PICK k \in 1..Len(h), l \in 1..Len(h) : k < l /\ h[k].turn = t /\ h[l].turn = s
  BY DEF ReadBefore
<1>3. CASE i <= k
  <2>1. i <= k /\ k <= l /\ h[i].turn = h[l].turn
    BY <1>1, <1>2, <1>3
  <2> QED
    BY <1>1, <1>2, <2>1 DEF InOnePiece
<1>4. CASE k <= i
  <2>1. k <= i /\ i <= j /\ h[k].turn = h[j].turn
    BY <1>1, <1>2, <1>4
  <2> QED
    BY <1>1, <1>2, <2>1 DEF InOnePiece
<1> QED
  BY <1>3, <1>4

LEMMA OrderIsTransitive ==
  ASSUME NEW h, Len(h) \in Nat, InOnePiece(h), NEW s, NEW t, NEW u, s # t, t # u,
         ReadBefore(h, s, t), ReadBefore(h, t, u)
  PROVE  s # u /\ ReadBefore(h, s, u)
<1>1. s # u
  BY OrderIsOneWay
<1>2. PICK i \in 1..Len(h), j \in 1..Len(h) : i < j /\ h[i].turn = s /\ h[j].turn = t
  BY DEF ReadBefore
<1>3. PICK k \in 1..Len(h), l \in 1..Len(h) : k < l /\ h[k].turn = t /\ h[l].turn = u
  BY DEF ReadBefore
<1>4. CASE i < l
  BY <1>1, <1>2, <1>3, <1>4 DEF ReadBefore
<1>5. CASE l <= i
  <2>1. k <= l /\ l <= j /\ h[k].turn = h[j].turn
    BY <1>2, <1>3, <1>5
  <2> QED
    BY <1>2, <1>3, <2>1 DEF InOnePiece
<1> QED
  BY <1>4, <1>5

(* Turns that are in one piece each are read one after the other.          *)
LEMMA OrderIsStrict ==
  ASSUME NEW h, Len(h) \in Nat, InOnePiece(h)
  PROVE  Order(h) \in Store!StrictOrders(Turns(h))
<1> DEFINE S == Turns(h)
           R == Order(h)
<1>1. R \in SUBSET (S \X S)
  BY DEF Order
<1>2. ASSUME NEW s \in S, NEW t \in S, s # t
      PROVE  <<s, t>> \in R <=> <<t, s>> \notin R
  BY <1>2, OrderIs, OrderIsTotal, OrderIsOneWay
<1>3. \A s \in S : <<s, s>> \notin R
  BY OrderIs
<1>4. ASSUME NEW s \in S, NEW t \in S, NEW u \in S, <<s, t>> \in R, <<t, u>> \in R
      PROVE  <<s, u>> \in R
  BY <1>4, OrderIs, OrderIsTransitive
<1> HIDE DEF S, R
<1>5. R \in Store!StrictOrders(S)
  BY <1>1, <1>2, <1>3, <1>4 DEF Store!StrictOrders
<1> QED
  BY <1>5 DEF S, R

(* An insertion moves no turn before another one.                          *)
LEMMA OrderIsKept ==
  ASSUME NEW h, NEW block, NEW g, Len(h) \in Nat, Len(block) \in Nat,
         NEW p \in 0..Len(h), Inserted(g, h, p, block), NEW r,
         \A i \in 1..Len(block) : block[i].turn = r,
         NEW s, NEW t, s # r, t # r
  PROVE  ReadBefore(g, s, t) <=> ReadBefore(h, s, t)
<1> DEFINE n == Len(block)
           Moved(i) == IF i <= p THEN i ELSE i + n
<1>1. n \in Nat /\ Len(g) = Len(h) + n
  BY DEF Inserted
<1>2. ASSUME NEW i \in 1..Len(h)
      PROVE  Moved(i) \in 1..Len(g) /\ g[Moved(i)] = h[i]
  <2>1. CASE i <= p
    BY <1>1, <2>1 DEF Inserted
  <2>2. CASE i > p
    <3>1. i \in (p + 1)..Len(h) /\ Moved(i) = i + n
      BY <2>2
    <3>2. g[i + n] = h[i]
      BY <3>1 DEF Inserted
    <3> QED
      BY <1>1, <3>1, <3>2
  <2> QED
    BY <2>1, <2>2
<1>3. \A i, j \in 1..Len(h) : i < j <=> Moved(i) < Moved(j)
  BY <1>1
<1>4. ASSUME NEW k \in 1..Len(g), g[k].turn # r
      PROVE  \E i \in 1..Len(h) : k = Moved(i)
  <2>1. CASE k \in 1..p
    <3>1. k \in 1..Len(h) /\ k = Moved(k)
      BY <2>1
    <3> QED
      BY <3>1
  <2>2. CASE k - n \in (p + 1)..Len(h)
    <3>1. k - n \in 1..Len(h) /\ k = Moved(k - n)
      BY <1>1, <2>2
    <3> QED
      BY <3>1
  <2>3. CASE k - p \in 1..n /\ g[k] = block[k - p]
    BY <1>4, <2>3
  <2> QED
    BY <2>1, <2>2, <2>3, Origin
<1> HIDE DEF Moved
<1>5. ASSUME ReadBefore(h, s, t)
      PROVE  ReadBefore(g, s, t)
  <2>1. PICK i \in 1..Len(h), j \in 1..Len(h) : i < j /\ h[i].turn = s /\ h[j].turn = t
    BY <1>5 DEF ReadBefore
  <2>2. Moved(i) < Moved(j) /\ g[Moved(i)].turn = s /\ g[Moved(j)].turn = t
    BY <1>2, <1>3, <2>1
  <2> QED
    BY <1>2, <2>2 DEF ReadBefore
<1>6. ASSUME ReadBefore(g, s, t)
      PROVE  ReadBefore(h, s, t)
  <2>1. PICK k \in 1..Len(g), l \in 1..Len(g) : k < l /\ g[k].turn = s /\ g[l].turn = t
    BY <1>6 DEF ReadBefore
  <2>2. PICK i \in 1..Len(h) : k = Moved(i)
    BY <1>4, <2>1
  <2>3. PICK j \in 1..Len(h) : l = Moved(j)
    BY <1>4, <2>1
  <2>4. i < j /\ h[i].turn = s /\ h[j].turn = t
    BY <1>2, <1>3, <2>1, <2>2, <2>3
  <2> QED
    BY <2>4 DEF ReadBefore
<1> QED
  BY <1>5, <1>6

LEMMA StoreIsOrder ==
  StoredTurns = Turns(history) /\ TurnOrder = Order(history)
BY DEF StoredTurns, Turns, TurnOrder, Order, ReadBefore

LEMMA StoreIsOrderNext ==
  StoredTurns' = Turns(history') /\ TurnOrder' = Order(history')
BY DEF StoredTurns, Turns, TurnOrder, Order, ReadBefore

(* A commit adds the turn of its request to those stored.                  *)
LEMMA FinalizeTurns ==
  ASSUME IndInv, NEW r \in Request, Finalize(r)
  PROVE  r \notin StoredTurns /\ StoredTurns' = StoredTurns \cup {r}
<1>1. \A q : q \in StoredTurns <=> Stored(q)
  BY DEF StoredTurns, Stored
<1>2. \A q : q \in StoredTurns' <=> Stored(q)'
  BY DEF StoredTurns, Stored
<1>3. ~Stored(r) /\ Stored(r)' /\ \A q : q # r => (Stored(q)' <=> Stored(q))
  BY FinalizeFacts, FinalizeStores
<1> QED
  BY <1>1, <1>2, <1>3

LEMMA FinalizeOrder ==
  ASSUME IndInv, NEW r \in Request, Finalize(r)
  PROVE  /\ TurnOrder' \in Store!StrictOrders(StoredTurns')
         /\ TurnOrder' \cap (StoredTurns \X StoredTurns) = TurnOrder
<1>1. InOnePiece(history') /\ Len(history') \in Nat
  <2>1. HistoryInv' /\ TypeOK'
    BY FinalizeHistory, StepIndInv DEF IndInv, Next, RequestStep
  <2> QED
    BY <2>1 DEF HistoryInv, InOnePiece, TypeOK
<1>2. Order(history') \in Store!StrictOrders(Turns(history'))
  BY <1>1, OrderIsStrict
<1>3. PICK p \in 0..Len(history) : Inserted(history', history, p, Block(r))
  BY FinalizeFacts
<1>4. /\ Len(history) \in Nat /\ Len(Block(r)) \in Nat
      /\ \A i \in 1..Len(Block(r)) : Block(r)[i].turn = r
  BY FinalizeFacts
<1>5. \A s, t : s # r /\ t # r =>
        (ReadBefore(history', s, t) <=> ReadBefore(history, s, t))
  BY <1>3, <1>4, OrderIsKept
<1>6. r \notin Turns(history) /\ Turns(history') = Turns(history) \cup {r}
  BY FinalizeTurns, StoreIsOrder, StoreIsOrderNext
<1>7. \A e : e \in Order(history') \cap (Turns(history) \X Turns(history))
               <=> e \in Order(history)
  BY <1>5, <1>6 DEF Order
<1> QED
  BY <1>2, <1>7, StoreIsOrder, StoreIsOrderNext

(* The refinement: the steps of the requests are commits of whole turns to *)
(* the store, or nothing to it.                                            *)
THEOREM TurnsRefine == Spec => ImplementsTurnStore
<1> DEFINE T == Request \cup {Earlier}
           Rows == [q \in T |-> Logged(q)]
<1>1. Init => Store!Init
  <2> SUFFICES ASSUME Init
               PROVE  Store!Init
    OBVIOUS
  <2> DEFINE first == <<Question(Earlier), Assistant(Earlier, 1, "end_turn", <<>>)>>
  <2>1. Len(first) = 2 /\ first[1].turn = Earlier /\ first[2].turn = Earlier
    BY DEF Question, Assistant
  <2> HIDE DEF first
  <2>2. CASE history = <<>>
    <3>1. Turns(history) = {}
      BY <2>2 DEF Turns
    <3> QED
      BY <3>1, StoreIsOrder DEF Init, Store!Init, Order, Logged
  <2>3. CASE history = first
    <3>1. Turns(history) = {Earlier}
      BY <2>1, <2>3 DEF Turns
    <3>2. Order(history) = {}
      BY <3>1 DEF Order
    <3>3. StoredTurns \in {{}} \cup {{t} : t \in T} /\ TurnOrder = {}
      BY <3>1, <3>2, StoreIsOrder
    <3>4. Rows = [t \in T |-> {}]
      BY DEF Init, Logged
    <3> QED
      BY <3>3, <3>4 DEF Store!Init
  <2> QED
    BY <2>2, <2>3 DEF Init, first
<1>2. IndInv /\ [Next]_vars => [Store!Next]_(Store!vars)
  <2> SUFFICES ASSUME IndInv, [Next]_vars
               PROVE  [Store!Next]_(Store!vars)
    OBVIOUS
  <2>1. CASE UNCHANGED Committed
    <3>1. StoredTurns' = StoredTurns /\ TurnOrder' = TurnOrder /\ Rows' = Rows
      BY <2>1 DEF Committed, StoredTurns, TurnOrder, Logged
    <3> QED
      BY <3>1 DEF Store!vars
  <2>2. ASSUME NEW r \in Request, Finalize(r)
        PROVE  Store!Next
    <3>1. r \in T /\ r \notin StoredTurns /\ StoredTurns' = StoredTurns \cup {r}
      BY <2>2, FinalizeTurns
    <3>2. /\ TurnOrder' \in Store!StrictOrders(StoredTurns')
          /\ TurnOrder' \cap (StoredTurns \X StoredTurns) = TurnOrder
      BY <2>2, FinalizeOrder
    <3>3. \A q \in T \ {r} : Rows'[q] = Rows[q]
      BY <2>2, FinalizeStores
    <3>4. Store!Store(r)
      BY <3>1, <3>2, <3>3 DEF Store!Store
    <3> QED
      BY <3>1, <3>4 DEF Store!Next
  <2>3. ASSUME NEW r \in Request, RequestStep(r) \/ Disconnect(r) \/ Kill(r), ~Finalize(r)
        PROVE  UNCHANGED Committed
    BY <2>3, OnlyFinalizeCommits
  <2>4. CASE Rename \/ Summarize \/ UNCHANGED vars
    BY <2>1, <2>4 DEF Rename, Summarize, vars, storeVars, Committed
  <2> QED
    BY <2>1, <2>2, <2>3, <2>4 DEF Next
<1> QED
  BY <1>1, <1>2, Invariance, PTL DEF Spec, ImplementsTurnStore, Store!Spec
=============================================================================
