------------------------ MODULE RollingSummaryProofs ------------------------
(***************************************************************************)
(* Proofs about RollingSummary for any requests, handlers, window, trigger *)
(* and turn sizes.                                                         *)
(***************************************************************************)
EXTENDS RollingSummary, SequenceTheorems, TLAPS

LEMMA Update ==
  ASSUME NEW S, NEW T, NEW f \in [S -> T], NEW x, NEW y, x \in S => y \in T
  PROVE  [f EXCEPT ![x] = y] \in [S -> T]
OBVIOUS

(* Inserting a run of elements into a sequence.                            *)
LEMMA Insertion ==
  ASSUME NEW S, NEW s \in Seq(S), NEW t \in Seq(S), NEW p \in 0..Len(s)
  PROVE  LET r == SubSeq(s, 1, p) \o t \o SubSeq(s, p + 1, Len(s))
         IN  r \in Seq(S) /\ Len(r) = Len(s) + Len(t)
<1>1. SubSeq(s, 1, p) \in Seq(S) /\ Len(SubSeq(s, 1, p)) = p
  OBVIOUS
<1>2. /\ SubSeq(s, p + 1, Len(s)) \in Seq(S)
      /\ Len(SubSeq(s, p + 1, Len(s))) = Len(s) - p
  OBVIOUS
<1> DEFINE a == SubSeq(s, 1, p)
           b == SubSeq(s, p + 1, Len(s))
<1> HIDE DEF a, b
<1>3. a \in Seq(S) /\ Len(a) = p /\ b \in Seq(S) /\ Len(b) = Len(s) - p
  BY <1>1, <1>2 DEF a, b
<1>4. a \o t \in Seq(S) /\ Len(a \o t) = p + Len(t)
  BY <1>3, ConcatProperties
<1>5. (a \o t) \o b \in Seq(S) /\ Len((a \o t) \o b) = p + Len(t) + (Len(s) - p)
  <2> DEFINE d == a \o t
  <2>1. d \in Seq(S) /\ Len(d) = p + Len(t)
    BY <1>4
  <2> HIDE DEF d
  <2>2. d \o b \in Seq(S) /\ Len(d \o b) = Len(d) + Len(b)
    BY <1>3, <2>1, ConcatProperties
  <2> QED
    BY <1>3, <2>1, <2>2 DEF d
<1>6. Len(s) \in Nat /\ Len(t) \in Nat /\ p \in Nat
  OBVIOUS
<1>7. Len((a \o t) \o b) = Len(s) + Len(t)
  BY <1>5, <1>6
<1> QED
  BY <1>5, <1>7 DEF a, b

LEMMA TurnType ==
  ASSUME TypeOK, NEW c \in Chat, NEW n \in TurnSize
  PROVE  Turn(began[c], n) \in Seq(Message) /\ Len(Turn(began[c], n)) = n
<1>1. n \in Nat
  BY RollingSummaryAssumption
<1>2. Turn(began[c], n) \in [1..n -> Message]
  BY <1>1 DEF Turn, Message, TypeOK
<1> QED
  BY <1>1, <1>2

(* A commit only ever adds messages.                                       *)
LEMMA CommitGrows ==
  ASSUME TypeOK, NEW c \in Chat, CommitTurn(c)
  PROVE  messages' \in Seq(Message) /\ Len(messages') >= Len(messages)
<1>1. PICK n \in TurnSize, p \in 0..Len(messages) :
        messages' = SubSeq(messages, 1, p) \o Turn(began[c], n)
                      \o SubSeq(messages, p + 1, Len(messages))
  BY DEF CommitTurn
<1>2. n \in Nat /\ messages \in Seq(Message)
  BY RollingSummaryAssumption DEF TypeOK
<1>3. Turn(began[c], n) \in Seq(Message) /\ Len(Turn(began[c], n)) = n
  BY TurnType
<1>4. messages' \in Seq(Message) /\ Len(messages') = Len(messages) + n
  BY <1>1, <1>2, <1>3, Insertion
<1> QED
  BY <1>2, <1>4

(* The slice a handler folds.                                              *)
LEMMA FoldSlice ==
  ASSUME TypeOK, NEW h \in Handler, FoldLimit(h) > already[h]
  PROVE  LET s == SubSeq(messages, already[h] + 1, FoldLimit(h))
         IN  /\ s \in Seq(Message)
             /\ already[h] + Len(s) = Len(messages) - Window
<1>1. already[h] \in Nat /\ messages \in Seq(Message) /\ Len(messages) \in Nat
  BY DEF TypeOK
<1>2. Window \in Nat
  BY RollingSummaryAssumption
<1>3. FoldLimit(h) = Len(messages) - Window /\ FoldLimit(h) \in Nat
  BY <1>1, <1>2 DEF FoldLimit
<1>4. FoldLimit(h) <= Len(messages)
  BY <1>1, <1>2, <1>3
<1> QED
  BY <1>1, <1>3, <1>4

LEMMA ForgetType ==
  ASSUME TypeOK, NEW h \in Handler, Forget(h)
  PROVE  /\ already' \in [Handler -> Nat]
         /\ previous' \in [Handler -> Seq(Message)]
         /\ toFold' \in [Handler -> Seq(Message)]
         /\ already'[h] = 0
         /\ \A g \in Handler \ {h} : already'[g] = already[g] /\ toFold'[g] = toFold[g]
<1>1. <<>> \in Seq(Message)
  OBVIOUS
<1>2. already' = [already EXCEPT ![h] = 0] /\ already \in [Handler -> Nat]
  BY DEF Forget, TypeOK
<1>3. /\ previous' = [previous EXCEPT ![h] = <<>>]
      /\ previous \in [Handler -> Seq(Message)]
  BY DEF Forget, TypeOK
<1>4. toFold' = [toFold EXCEPT ![h] = <<>>] /\ toFold \in [Handler -> Seq(Message)]
  BY DEF Forget, TypeOK
<1>5. previous' \in [Handler -> Seq(Message)]
  BY <1>1, <1>3, Update
<1>6. toFold' \in [Handler -> Seq(Message)]
  BY <1>1, <1>4, Update
<1> QED
  BY <1>2, <1>4, <1>5, <1>6

LEMMA TypeStep == TypeOK /\ [Next]_vars => TypeOK'
<1> SUFFICES ASSUME TypeOK, [Next]_vars PROVE TypeOK'
  OBVIOUS
<1> USE RollingSummaryAssumption DEF rowVars, chatVars, handlerVars
<1>1. ASSUME NEW c \in Chat, Prepare(c) PROVE TypeOK'
  <2>1. clock + 1 \in 0..MaxTurns
    BY <1>1 DEF Prepare, TypeOK
  <2> QED
    BY <1>1, <2>1 DEF Prepare, TypeOK
<1>2. ASSUME NEW c \in Chat, CommitTurn(c) PROVE TypeOK'
  <2>1. messages' \in Seq(Message)
    BY <1>2, CommitGrows
  <2> QED
    BY <1>2, <2>1 DEF CommitTurn, TypeOK
<1>3. ASSUME NEW c \in Chat, CountTotal(c) PROVE TypeOK'
  BY <1>3 DEF CountTotal, TypeOK
<1>4. ASSUME NEW c \in Chat, NoFoldNeeded(c) \/ Enqueued(c) \/ AbortChat(c)
      PROVE  TypeOK'
  <2>1. Leave(c) /\ UNCHANGED <<rowVars, clock, handlerVars, disturbed>>
    BY <1>4 DEF NoFoldNeeded, Enqueued, AbortChat
  <2>2. /\ chat' \in [Chat -> {"idle", "asking", "committed", "enqueuing"}]
        /\ began' \in [Chat -> 0..MaxTurns]
        /\ staleCount' \in [Chat -> Nat]
    BY <2>1 DEF Leave, TypeOK
  <2> QED
    BY <2>1, <2>2 DEF TypeOK
<1>5. CASE Delete
  BY <1>5 DEF Delete, TypeOK
<1>6. ASSUME NEW h \in Handler, Start(h) \/ LoadConversation(h) \/ ConversationGone(h)
      PROVE  TypeOK'
  BY <1>6 DEF Start, LoadConversation, ConversationGone, Goto, TypeOK
<1>7. ASSUME NEW h \in Handler, LoadMessages(h) PROVE TypeOK'
  <2>1. SubSeq(messages, already[h] + 1, FoldLimit(h)) \in Seq(Message)
    BY <1>7, FoldSlice DEF LoadMessages
  <2> QED
    BY <1>7, <2>1 DEF LoadMessages, Goto, TypeOK
<1>8. ASSUME NEW h \in Handler, NothingToFold(h) \/ EndHandler(h) PROVE TypeOK'
  <2>1. Forget(h) /\ UNCHANGED <<rowVars, chatVars, disturbed>>
    BY <1>8 DEF NothingToFold, EndHandler
  <2>2. handler' \in [Handler -> {"idle", "started", "loaded", "asking", "returned"}]
    BY <1>8 DEF NothingToFold, EndHandler, Goto, TypeOK
  <2>3. /\ already' \in [Handler -> Nat]
        /\ previous' \in [Handler -> Seq(Message)]
        /\ toFold' \in [Handler -> Seq(Message)]
    BY <2>1, ForgetType
  <2> QED
    BY <2>1, <2>2, <2>3 DEF TypeOK
<1>9. ASSUME NEW h \in Handler, WriteBack(h) PROVE TypeOK'
  <2>1. /\ previous[h] \o toFold[h] \in Seq(Message)
        /\ already[h] + Len(toFold[h]) \in Nat
        /\ <<>> \in Seq(Message)
    BY DEF TypeOK
  <2> QED
    BY <1>9, <2>1, ForgetType DEF WriteBack, Goto, TypeOK
<1>10. CASE UNCHANGED vars
  BY <1>10 DEF vars, TypeOK
<1> QED
  BY <1>1, <1>2, <1>3, <1>4, <1>5, <1>6, <1>7, <1>8, <1>9, <1>10
     DEF Next, ChatStep, HandlerStep

LEMMA InitType == Init => TypeOK
<1> SUFFICES ASSUME Init PROVE TypeOK
  OBVIOUS
<1>1. <<>> \in Seq(Message)
  OBVIOUS
<1>2. messages \in Seq(Message) /\ summary \in Seq(Message)
  BY <1>1 DEF Init
<1>3. /\ previous \in [Handler -> Seq(Message)]
      /\ toFold \in [Handler -> Seq(Message)]
  <2> DEFINE S == Seq(Message)
  <2> HIDE DEF S
  <2>1. <<>> \in S
    BY <1>1 DEF S
  <2>2. previous \in [Handler -> S] /\ toFold \in [Handler -> S]
    BY <2>1 DEF Init
  <2> QED
    BY <2>2 DEF S
<1>4. /\ chat \in [Chat -> {"idle", "asking", "committed", "enqueuing"}]
      /\ began \in [Chat -> 0..MaxTurns]
      /\ staleCount \in [Chat -> Nat]
  BY RollingSummaryAssumption DEF Init
<1>5. /\ handler \in [Handler -> {"idle", "started", "loaded", "asking", "returned"}]
      /\ already \in [Handler -> Nat]
  BY DEF Init
<1>6. count \in Nat /\ deleted \in BOOLEAN /\ disturbed \in BOOLEAN
  BY DEF Init
<1>7. clock \in 0..MaxTurns
  BY RollingSummaryAssumption DEF Init
<1> QED
  BY <1>2, <1>3, <1>4, <1>5, <1>6, <1>7 DEF TypeOK

(* Rows and local variables keep their types.                              *)
THEOREM TypeCorrect == Spec => []TypeOK
<1>1. Init => TypeOK
  BY InitType
<1> QED
  BY <1>1, TypeStep, PTL DEF Spec

-----------------------------------------------------------------------------
IndInv == TypeOK /\ CountKeepsWindow /\ HandlersKeepWindow

LEMMA KeepStep ==
  ASSUME IndInv, TypeOK', [Next]_vars
  PROVE  CountKeepsWindow' /\ HandlersKeepWindow'
<1> USE RollingSummaryAssumption
        DEF IndInv, CountKeepsWindow, HandlersKeepWindow, rowVars, chatVars, handlerVars
<1>1. ASSUME Len(messages') >= Len(messages), NEW n \in Nat, LeavesWindow(n)
      PROVE  LeavesWindow(n)'
  BY <1>1 DEF LeavesWindow, TypeOK
<1>2. CASE UNCHANGED <<messages, count, handlerVars>>
  BY <1>2 DEF LeavesWindow
<1>3. ASSUME NEW c \in Chat, CommitTurn(c)
      PROVE  CountKeepsWindow' /\ HandlersKeepWindow'
  <2>1. Len(messages') >= Len(messages)
    BY <1>3, CommitGrows
  <2>2. /\ count \in Nat
        /\ \A h \in Handler : already[h] \in Nat /\ already[h] + Len(toFold[h]) \in Nat
    BY DEF TypeOK
  <2>3. UNCHANGED <<count, handler, already, toFold>>
    BY <1>3 DEF CommitTurn
  <2>4. LeavesWindow(count)'
    BY <1>1, <2>1, <2>2, <2>3
  <2> QED
    BY <1>1, <2>1, <2>2, <2>3, <2>4
<1>4. ASSUME NEW h \in Handler, Start(h) \/ LoadConversation(h) \/ ConversationGone(h)
      PROVE  CountKeepsWindow' /\ HandlersKeepWindow'
  BY <1>4 DEF Start, LoadConversation, ConversationGone, Goto, LeavesWindow, TypeOK
<1>5. ASSUME NEW h \in Handler, LoadMessages(h)
      PROVE  CountKeepsWindow' /\ HandlersKeepWindow'
  <2>1. already[h] + Len(toFold'[h]) = Len(messages) - Window
    BY <1>5, FoldSlice DEF LoadMessages, TypeOK
  <2> QED
    <3>1. /\ \A g \in Handler \ {h} : toFold'[g] = toFold[g] /\ handler'[g] = handler[g]
          /\ UNCHANGED <<messages, count, already>>
      BY <1>5 DEF LoadMessages, Goto, TypeOK
    <3>2. LeavesWindow(already[h] + Len(toFold[h]))'
      BY <2>1, <3>1 DEF LeavesWindow, TypeOK
    <3> QED
      BY <3>1, <3>2 DEF LeavesWindow
<1>6. ASSUME NEW h \in Handler, NothingToFold(h) \/ EndHandler(h)
      PROVE  CountKeepsWindow' /\ HandlersKeepWindow'
  <2>1. /\ handler'[h] # "asking"
        /\ \A g \in Handler \ {h} : handler'[g] = handler[g]
        /\ Forget(h)
        /\ UNCHANGED <<messages, count>>
    BY <1>6 DEF NothingToFold, EndHandler, Goto, TypeOK
  <2>2. /\ already'[h] = 0
        /\ \A g \in Handler \ {h} : already'[g] = already[g] /\ toFold'[g] = toFold[g]
    BY <2>1, ForgetType
  <2> QED
    BY <2>1, <2>2 DEF LeavesWindow
<1>7. ASSUME NEW h \in Handler, WriteBack(h)
      PROVE  CountKeepsWindow' /\ HandlersKeepWindow'
  BY <1>7 DEF WriteBack, Goto, Forget, LeavesWindow, TypeOK
<1> QED
  BY <1>2, <1>3, <1>4, <1>5, <1>6, <1>7
     DEF Next, ChatStep, HandlerStep, Prepare, CountTotal, NoFoldNeeded, Enqueued,
         AbortChat, Delete, vars

(* The summary never reaches into the window, for any number of requests   *)
(* and handlers in flight, any window and any reply of the model.          *)
THEOREM WindowKept == Spec => []CountKeepsWindow
<1>1. Init => IndInv
  BY InitType DEF Init, IndInv, CountKeepsWindow, HandlersKeepWindow, LeavesWindow
<1>2. IndInv /\ [Next]_vars => IndInv'
  BY TypeStep, KeepStep DEF IndInv
<1>3. IndInv => CountKeepsWindow
  BY DEF IndInv
<1> QED
  BY <1>1, <1>2, <1>3, PTL DEF Spec

-----------------------------------------------------------------------------
(* What a handler holds of the messages: the summary it loaded and, next   *)
(* to it, the slice it folds.                                              *)
HoldsPrefix(h) ==
  /\ handler[h] \in {"loaded", "asking"} =>
       previous[h] = SubSeq(messages, 1, already[h])
  /\ handler[h] = "asking" =>
       toFold[h] = SubSeq(messages, already[h] + 1, already[h] + Len(toFold[h]))

HandlersHoldPrefixes == ~disturbed => \A h \in Handler : HoldsPrefix(h)

PrefixInv == IndInv /\ SummaryIsPrefix /\ HandlersHoldPrefixes

(* A slice of a sequence is not changed by what is put after it.           *)
LEMMA SliceKept ==
  ASSUME NEW S, NEW s \in Seq(S), NEW r \in Seq(S), Len(r) >= Len(s),
         \A i \in 1..Len(s) : r[i] = s[i],
         NEW m \in 1..(Len(s) + 1), NEW n \in 0..Len(s)
  PROVE  SubSeq(r, m, n) = SubSeq(s, m, n)
<1> DEFINE u == SubSeq(r, m, n)
           v == SubSeq(s, m, n)
<1>1. CASE m > n
  BY <1>1
<1>2. CASE m <= n
  <2>1. /\ u \in Seq(S) /\ Len(u) = n - m + 1
        /\ \A i \in 1..(n - m + 1) : u[i] = r[m + i - 1]
    BY <1>2
  <2>2. /\ v \in Seq(S) /\ Len(v) = n - m + 1
        /\ \A i \in 1..(n - m + 1) : v[i] = s[m + i - 1]
    BY <1>2
  <2>3. \A i \in 1..(n - m + 1) : m + i - 1 \in 1..Len(s)
    BY <1>2
  <2> HIDE DEF u, v
  <2>4. \A i \in 1..Len(u) : u[i] = v[i]
    BY <2>1, <2>2, <2>3
  <2>5. u = v
    BY <2>1, <2>2, <2>4
  <2> QED
    BY <2>5 DEF u, v
<1> QED
  BY <1>1, <1>2

(* A prefix and the slice after it are a prefix.                           *)
LEMMA PrefixExtended ==
  ASSUME NEW S, NEW s \in Seq(S), NEW a \in Nat, NEW b \in Nat, a <= b, b <= Len(s)
  PROVE  SubSeq(s, 1, a) \o SubSeq(s, a + 1, b) = SubSeq(s, 1, b)
<1> DEFINE u == SubSeq(s, 1, a)
           v == SubSeq(s, a + 1, b)
           w == SubSeq(s, 1, b)
<1>1. u \in Seq(S) /\ Len(u) = a /\ \A i \in 1..a : u[i] = s[i]
  OBVIOUS
<1>2. v \in Seq(S) /\ Len(v) = b - a /\ \A i \in 1..(b - a) : v[i] = s[a + i]
  OBVIOUS
<1>3. w \in Seq(S) /\ Len(w) = b /\ \A i \in 1..b : w[i] = s[i]
  OBVIOUS
<1> HIDE DEF u, v, w
<1> DEFINE x == u \o v
<1>4. x \in Seq(S) /\ Len(x) = b /\ \A i \in 1..b : x[i] = s[i]
  <2>1. /\ u \o v \in Seq(S) /\ Len(u \o v) = Len(u) + Len(v)
        /\ \A i \in 1..(Len(u) + Len(v)) :
             (u \o v)[i] = IF i <= Len(u) THEN u[i] ELSE v[i - Len(u)]
    BY <1>1, <1>2, ConcatProperties
  <2> HIDE DEF x
  <2>2. /\ x \in Seq(S) /\ Len(x) = b
        /\ \A i \in 1..b : x[i] = IF i <= a THEN u[i] ELSE v[i - a]
    <3>1. Len(u) + Len(v) = b
      BY <1>1, <1>2
    <3> QED
      BY <1>1, <2>1, <3>1 DEF x
  <2> QED
    BY <1>1, <1>2, <2>2
<1> HIDE DEF x
<1>5. x = w
  BY <1>3, <1>4
<1> QED
  BY <1>5 DEF x, u, v, w

(* A turn that goes to the end leaves the others where they were.          *)
LEMMA CommitAppends ==
  ASSUME TypeOK, NEW c \in Chat, CommitTurn(c), ~disturbed'
  PROVE  /\ ~disturbed
         /\ messages' \in Seq(Message) /\ Len(messages') >= Len(messages)
         /\ \A i \in 1..Len(messages) : messages'[i] = messages[i]
<1>1. PICK n \in TurnSize, p \in 0..Len(messages) :
        /\ messages' = SubSeq(messages, 1, p) \o Turn(began[c], n)
                         \o SubSeq(messages, p + 1, Len(messages))
        /\ disturbed' = (disturbed \/ p < Len(messages))
  BY DEF CommitTurn
<1>2. messages \in Seq(Message) /\ Turn(began[c], n) \in Seq(Message)
  BY TurnType DEF TypeOK
<1>3. ~disturbed /\ p = Len(messages)
  <2>1. ~disturbed /\ ~(p < Len(messages))
    BY <1>1
  <2> QED
    BY <1>2, <2>1
<1> DEFINE a == SubSeq(messages, 1, p)
           t == Turn(began[c], n)
           z == SubSeq(messages, p + 1, Len(messages))
<1>4. a = messages /\ z \in Seq(Message)
  BY <1>2, <1>3
<1> HIDE DEF a, t, z
<1>5. t \in Seq(Message) /\ messages' = (messages \o t) \o z
  BY <1>1, <1>2, <1>4 DEF a, t, z
<1> DEFINE d == messages \o t
<1>6. d \in Seq(Message) /\ \A i \in 1..Len(messages) : d[i] = messages[i]
  BY <1>2, <1>5, ConcatProperties
<1>7. Len(d) >= Len(messages)
  BY <1>2, <1>5, ConcatProperties
<1> HIDE DEF d
<1>8. \A i \in 1..Len(d) : (d \o z)[i] = d[i]
  BY <1>4, <1>6, ConcatProperties
<1>9. \A i \in 1..Len(messages) : i \in 1..Len(d)
  BY <1>2, <1>6, <1>7
<1>10. \A i \in 1..Len(messages) : messages'[i] = messages[i]
  BY <1>5, <1>6, <1>8, <1>9 DEF d
<1> QED
  BY <1>3, <1>10, CommitGrows

(* Where the slices of an undisturbed conversation lie.                    *)
LEMMA InReach ==
  ASSUME PrefixInv
  PROVE  /\ count \in 0..Len(messages)
         /\ \A h \in Handler :
              /\ already[h] \in 0..Len(messages)
              /\ handler[h] = "asking" =>
                   already[h] + Len(toFold[h]) \in 0..Len(messages)
<1>1. TypeOK /\ CountKeepsWindow /\ HandlersKeepWindow
  BY DEF PrefixInv, IndInv
<1>2. Window \in Nat /\ Len(messages) \in Nat
  BY <1>1, RollingSummaryAssumption DEF TypeOK
<1>3. \A n \in Nat : LeavesWindow(n) => n \in 0..Len(messages)
  BY <1>2 DEF LeavesWindow
<1>4. /\ count \in Nat
      /\ \A h \in Handler : already[h] \in Nat /\ already[h] + Len(toFold[h]) \in Nat
  BY <1>1 DEF TypeOK
<1> QED
  BY <1>1, <1>3, <1>4 DEF CountKeepsWindow, HandlersKeepWindow

LEMMA PrefixStep ==
  ASSUME PrefixInv, [Next]_vars
  PROVE  SummaryIsPrefix' /\ HandlersHoldPrefixes'
<1>1. TypeOK /\ IndInv
  BY DEF PrefixInv, IndInv
<1> USE DEF rowVars, chatVars, handlerVars
<1>2. CASE UNCHANGED <<messages, summary, count, handlerVars, disturbed>>
  BY <1>2 DEF PrefixInv, SummaryIsPrefix, HandlersHoldPrefixes, HoldsPrefix
<1>3. ASSUME NEW c \in Chat, CommitTurn(c)
      PROVE  SummaryIsPrefix' /\ HandlersHoldPrefixes'
  <2> SUFFICES ASSUME ~disturbed'
               PROVE  SummaryIsPrefix' /\ HandlersHoldPrefixes'
    BY DEF SummaryIsPrefix, HandlersHoldPrefixes
  <2>1. /\ ~disturbed
        /\ messages \in Seq(Message) /\ messages' \in Seq(Message)
        /\ Len(messages') >= Len(messages)
        /\ \A i \in 1..Len(messages) : messages'[i] = messages[i]
    BY <1>1, <1>3, CommitAppends DEF TypeOK
  <2>2. \A m \in 1..(Len(messages) + 1), n \in 0..Len(messages) :
          SubSeq(messages', m, n) = SubSeq(messages, m, n)
    BY <2>1, SliceKept
  <2>3. UNCHANGED <<summary, count, handler, already, previous, toFold>>
    BY <1>3 DEF CommitTurn
  <2>4. Len(messages) \in Nat
    BY <2>1
  <2>5. SummaryIsPrefix'
    <3>1. count \in 0..Len(messages) /\ 1 \in 1..(Len(messages) + 1)
      BY <2>4, InReach
    <3>2. SubSeq(messages', 1, count) = SubSeq(messages, 1, count)
      BY <2>2, <3>1
    <3> QED
      BY <2>1, <2>3, <3>2 DEF PrefixInv, SummaryIsPrefix
  <2>6. ASSUME NEW h \in Handler
        PROVE  HoldsPrefix(h)'
    <3> DEFINE a == already[h]
               k == Len(toFold[h])
    <3>1. HoldsPrefix(h)
      BY <2>1 DEF PrefixInv, HandlersHoldPrefixes
    <3>2. /\ a \in 0..Len(messages) /\ a + 1 \in 1..(Len(messages) + 1)
          /\ 1 \in 1..(Len(messages) + 1)
          /\ handler[h] = "asking" => a + k \in 0..Len(messages)
      BY <2>4, InReach
    <3>3. SubSeq(messages', 1, a) = SubSeq(messages, 1, a)
      BY <2>2, <3>2
    <3>4. handler[h] = "asking" =>
            SubSeq(messages', a + 1, a + k) = SubSeq(messages, a + 1, a + k)
      BY <2>2, <3>2
    <3> QED
      BY <2>3, <3>1, <3>3, <3>4 DEF HoldsPrefix
  <2> QED
    BY <2>5, <2>6 DEF HandlersHoldPrefixes
<1>4. ASSUME NEW h \in Handler, Start(h) \/ ConversationGone(h)
      PROVE  SummaryIsPrefix' /\ HandlersHoldPrefixes'
  <2>1. /\ UNCHANGED <<messages, summary, count, already, previous, toFold, disturbed>>
        /\ handler'[h] \notin {"loaded", "asking"}
        /\ \A g \in Handler \ {h} : handler'[g] = handler[g]
    BY <1>1, <1>4 DEF Start, ConversationGone, Goto, TypeOK
  <2> QED
    BY <2>1 DEF PrefixInv, SummaryIsPrefix, HandlersHoldPrefixes, HoldsPrefix
<1>5. ASSUME NEW h \in Handler, LoadConversation(h)
      PROVE  SummaryIsPrefix' /\ HandlersHoldPrefixes'
  <2>1. /\ UNCHANGED <<messages, summary, count, toFold, disturbed>>
        /\ handler'[h] = "loaded" /\ already'[h] = count /\ previous'[h] = summary
        /\ \A g \in Handler \ {h} :
             handler'[g] = handler[g] /\ already'[g] = already[g] /\ previous'[g] = previous[g]
    BY <1>1, <1>5 DEF LoadConversation, Goto, TypeOK
  <2> QED
    BY <2>1 DEF PrefixInv, SummaryIsPrefix, HandlersHoldPrefixes, HoldsPrefix
<1>6. ASSUME NEW h \in Handler, LoadMessages(h)
      PROVE  SummaryIsPrefix' /\ HandlersHoldPrefixes'
  <2> DEFINE a == already[h]
             slice == SubSeq(messages, a + 1, FoldLimit(h))
  <2>1. /\ UNCHANGED <<messages, summary, count, already, previous, disturbed>>
        /\ handler[h] = "loaded" /\ FoldLimit(h) > a /\ toFold'[h] = slice
        /\ \A g \in Handler \ {h} : handler'[g] = handler[g] /\ toFold'[g] = toFold[g]
    BY <1>1, <1>6 DEF LoadMessages, Goto, TypeOK
  <2>2. a + Len(slice) = FoldLimit(h)
    <3>1. a + Len(slice) = Len(messages) - Window
      BY <1>1, <2>1, FoldSlice
    <3>2. FoldLimit(h) = Len(messages) - Window
      <4>1. ~(a > a)
        BY <1>1 DEF TypeOK
      <4> QED
        BY <2>1, <4>1 DEF FoldLimit
    <3> QED
      BY <3>1, <3>2
  <2> HIDE DEF slice
  <2>3. slice = SubSeq(messages, a + 1, a + Len(slice))
    BY <2>2 DEF slice
  <2>4. HandlersHoldPrefixes'
    BY <2>1, <2>3 DEF PrefixInv, HandlersHoldPrefixes, HoldsPrefix
  <2> QED
    BY <2>1, <2>4 DEF PrefixInv, SummaryIsPrefix
<1>7. ASSUME NEW h \in Handler, NothingToFold(h) \/ EndHandler(h)
      PROVE  SummaryIsPrefix' /\ HandlersHoldPrefixes'
  <2>1. /\ UNCHANGED <<messages, summary, count, disturbed>>
        /\ handler'[h] \notin {"loaded", "asking"}
        /\ Forget(h)
        /\ \A g \in Handler \ {h} : handler'[g] = handler[g]
    BY <1>1, <1>7 DEF NothingToFold, EndHandler, Goto, TypeOK
  <2>2. \A g \in Handler \ {h} :
          already'[g] = already[g] /\ previous'[g] = previous[g] /\ toFold'[g] = toFold[g]
    BY <1>1, <2>1 DEF Forget, TypeOK
  <2> QED
    BY <2>1, <2>2 DEF PrefixInv, SummaryIsPrefix, HandlersHoldPrefixes, HoldsPrefix
<1>8. ASSUME NEW h \in Handler, WriteBack(h)
      PROVE  SummaryIsPrefix' /\ HandlersHoldPrefixes'
  <2> SUFFICES ASSUME ~disturbed'
               PROVE  SummaryIsPrefix' /\ HandlersHoldPrefixes'
    BY DEF SummaryIsPrefix, HandlersHoldPrefixes
  <2> DEFINE a == already[h]
             k == Len(toFold[h])
  <2>1. /\ UNCHANGED <<messages, disturbed>>
        /\ handler[h] = "asking" /\ handler'[h] = "returned"
        /\ summary' = previous[h] \o toFold[h] /\ count' = a + k
        /\ Forget(h)
        /\ \A g \in Handler \ {h} : handler'[g] = handler[g]
    BY <1>1, <1>8 DEF WriteBack, Goto, TypeOK
  <2>2. \A g \in Handler \ {h} :
          already'[g] = already[g] /\ previous'[g] = previous[g] /\ toFold'[g] = toFold[g]
    BY <1>1, <2>1 DEF Forget, TypeOK
  <2>3. HandlersHoldPrefixes'
    BY <2>1, <2>2 DEF PrefixInv, HandlersHoldPrefixes, HoldsPrefix
  <2>4. /\ previous[h] = SubSeq(messages, 1, a)
        /\ toFold[h] = SubSeq(messages, a + 1, a + k)
    BY <2>1 DEF PrefixInv, HandlersHoldPrefixes, HoldsPrefix
  <2>5. messages \in Seq(Message) /\ toFold[h] \in Seq(Message)
    BY <1>1 DEF TypeOK
  <2>6. /\ a \in Nat /\ k \in Nat /\ a + k \in Nat /\ a <= a + k
        /\ a + k <= Len(messages)
    <3>1. a \in 0..Len(messages) /\ a + k \in 0..Len(messages)
      BY <2>1, InReach
    <3> QED
      BY <2>5, <3>1
  <2> HIDE DEF a, k
  <2>7. SubSeq(messages, 1, a) \o SubSeq(messages, a + 1, a + k)
          = SubSeq(messages, 1, a + k)
    BY <2>5, <2>6, PrefixExtended
  <2>8. summary' = SubSeq(messages, 1, a + k)
    BY <2>1, <2>4, <2>7
  <2>9. SummaryIsPrefix'
    BY <2>1, <2>8 DEF SummaryIsPrefix
  <2> QED
    BY <2>3, <2>9
<1> QED
  BY <1>2, <1>3, <1>4, <1>5, <1>6, <1>7, <1>8
     DEF Next, ChatStep, HandlerStep, Prepare, CountTotal, NoFoldNeeded, Enqueued,
         AbortChat, Delete, vars

(* While turns commit in the order in which they began and every reply has *)
(* text, the summary is of the first messages, as many as are counted,     *)
(* however requests and handlers overlap, fail and repeat each other.      *)
THEOREM SummaryIsOfThePrefix == Spec => []SummaryIsPrefix
<1>1. Init => PrefixInv
  <2> SUFFICES ASSUME Init
               PROVE  PrefixInv
    OBVIOUS
  <2>1. IndInv
    BY InitType DEF Init, IndInv, CountKeepsWindow, HandlersKeepWindow, LeavesWindow
  <2>2. SummaryIsPrefix
    BY DEF Init, SummaryIsPrefix
  <2>3. HandlersHoldPrefixes
    BY DEF Init, HandlersHoldPrefixes, HoldsPrefix
  <2> QED
    BY <2>1, <2>2, <2>3 DEF PrefixInv
<1>2. PrefixInv /\ [Next]_vars => PrefixInv'
  BY TypeStep, KeepStep, PrefixStep DEF PrefixInv, IndInv
<1>3. PrefixInv => SummaryIsPrefix
  BY DEF PrefixInv
<1> QED
  BY <1>1, <1>2, <1>3, PTL DEF Spec
=============================================================================
