------------------------ MODULE SummaryPipelineProofs -----------------------
(***************************************************************************)
(* Proofs about SummaryPipeline, for any requests, jobs, window, trigger,  *)
(* turn sizes and bounds.                                                  *)
(*                                                                         *)
(* Every step of the pipeline is a step of the queue and one of the        *)
(* conversation, so what is proved about the parts holds of the pipeline.  *)
(* On top of that the inductive invariant for one runner says that nobody  *)
(* acts on a count that is too large: a request may have loaded an older   *)
(* one, a handler has the current one, and the row it works on is its own. *)
(***************************************************************************)
EXTENDS SummaryPipeline, TLAPS

QueueProofs == INSTANCE JobQueueProofs WITH Conversation <- {ThisConversation}

TalkProofs == INSTANCE RollingSummaryProofs WITH Handler <- Worker

(* A request decides on a count that is at most the current one.           *)
LoadedCounts == \A c \in Chat : staleCount[c] <= count

(* A handler folds from where the summary ends.                            *)
HandlersAreCurrent ==
  \A w \in Worker : handler[w] \in {"loaded", "asking"} => already[w] = count

(* A handler runs in the claim of a row that is being processed.           *)
HandlersHaveRows ==
  \A w \in Worker :
    /\ handler[w] # "idle" <=> pc[w] = "running"
    /\ pc[w] = "running" => status[job[w]] = "processing"

GapInv == LoadedCounts /\ HandlersAreCurrent /\ HandlersHaveRows /\ GapIsAttendedTo

LEMMA QueueAssumption == QueueProofs!JobQueueAssumption
BY PipelineAssumption DEF QueueProofs!JobQueueAssumption

LEMMA TalkAssumption == TalkProofs!RollingSummaryAssumption
BY PipelineAssumption DEF TalkProofs!RollingSummaryAssumption

(* The parts the pipeline composes are the ones the proofs are about.      *)
LEMMA SameParts ==
  /\ Queue!Init => QueueProofs!Init
  /\ [Queue!Next]_(Queue!vars) => [QueueProofs!Next]_(QueueProofs!vars)
  /\ Talk!Init => TalkProofs!Init
  /\ [Talk!Next]_(Talk!vars) => [TalkProofs!Next]_(TalkProofs!vars)
<1>1. Queue!Init => QueueProofs!Init
  BY DEF Queue!Init, QueueProofs!Init
<1>2. [Queue!Next]_(Queue!vars) => [QueueProofs!Next]_(QueueProofs!vars)
  BY DEF
    Queue!vars, Queue!rowVars, Queue!workerVars, Queue!RetryStatus, Queue!SamePayload,
    Queue!PendingTwin, Queue!StaleJobs, Queue!RetriedStale, Queue!ReclaimConflict,
    Queue!Locks, Queue!LockedByOther, Queue!IndexBusy, Queue!ViewStatus,
    Queue!Claimable, Queue!RunBy, Queue!Enqueue, Queue!Reclaim, Queue!ReclaimRaises,
    Queue!ReclaimDeadlock, Queue!SelectNext, Queue!NothingPending, Queue!CommitClaim,
    Queue!MarkDone, Queue!MarkFailed, Queue!MarkFailedRaises, Queue!Crash,
    Queue!Restart, Queue!LeaseExpires, Queue!RunOnce, Queue!Next,
    QueueProofs!vars, QueueProofs!rowVars, QueueProofs!workerVars,
    QueueProofs!RetryStatus, QueueProofs!SamePayload, QueueProofs!PendingTwin,
    QueueProofs!StaleJobs, QueueProofs!RetriedStale, QueueProofs!ReclaimConflict,
    QueueProofs!Locks, QueueProofs!LockedByOther, QueueProofs!IndexBusy,
    QueueProofs!ViewStatus, QueueProofs!Claimable, QueueProofs!RunBy,
    QueueProofs!Enqueue, QueueProofs!Reclaim, QueueProofs!ReclaimRaises,
    QueueProofs!ReclaimDeadlock, QueueProofs!SelectNext, QueueProofs!NothingPending,
    QueueProofs!CommitClaim, QueueProofs!MarkDone, QueueProofs!MarkFailed,
    QueueProofs!MarkFailedRaises, QueueProofs!Crash, QueueProofs!Restart,
    QueueProofs!LeaseExpires, QueueProofs!RunOnce, QueueProofs!Next
<1>3. Talk!Init => TalkProofs!Init
  BY DEF Talk!Init, TalkProofs!Init
<1>4. [Talk!Next]_(Talk!vars) => [TalkProofs!Next]_(TalkProofs!vars)
  BY DEF
    Talk!vars, Talk!rowVars, Talk!chatVars, Talk!handlerVars, Talk!Leave, Talk!Turn,
    Talk!Precede, Talk!NeedsFold, Talk!Goto, Talk!Forget, Talk!FoldLimit,
    Talk!Prepare, Talk!CommitTurn, Talk!CountTotal, Talk!NoFoldNeeded, Talk!Enqueued,
    Talk!AbortChat, Talk!Delete, Talk!Start, Talk!LoadConversation,
    Talk!ConversationGone, Talk!LoadMessages, Talk!NothingToFold, Talk!WriteBack,
    Talk!EndHandler, Talk!ChatStep, Talk!HandlerStep, Talk!Next,
    TalkProofs!vars, TalkProofs!rowVars, TalkProofs!chatVars, TalkProofs!handlerVars,
    TalkProofs!Leave, TalkProofs!Turn, TalkProofs!Precede, TalkProofs!NeedsFold,
    TalkProofs!Goto, TalkProofs!Forget, TalkProofs!FoldLimit, TalkProofs!Prepare,
    TalkProofs!CommitTurn, TalkProofs!CountTotal, TalkProofs!NoFoldNeeded,
    TalkProofs!Enqueued, TalkProofs!AbortChat, TalkProofs!Delete, TalkProofs!Start,
    TalkProofs!LoadConversation, TalkProofs!ConversationGone,
    TalkProofs!LoadMessages, TalkProofs!NothingToFold, TalkProofs!WriteBack,
    TalkProofs!EndHandler, TalkProofs!ChatStep, TalkProofs!HandlerStep,
    TalkProofs!Next
<1> QED
  BY <1>1, <1>2, <1>3, <1>4

(* The parts' state is what the pipeline leaves alone.                     *)
LEMMA StillParts ==
  /\ UNCHANGED queueVars => UNCHANGED Queue!vars
  /\ UNCHANGED talkVars => UNCHANGED Talk!vars
BY DEF queueVars, talkVars, Queue!vars, Queue!rowVars, Queue!workerVars,
       Talk!vars, Talk!rowVars, Talk!chatVars, Talk!handlerVars

(* A step of the pipeline is one of the queue ...                          *)
LEMMA QueueStep == [Next]_vars => [Queue!Next]_(Queue!vars)
<1> SUFFICES ASSUME [Next]_vars PROVE [Queue!Next]_(Queue!vars)
  OBVIOUS
<1> USE StillParts
<1>1. ASSUME NEW c \in Chat, ChatStep(c) PROVE [Queue!Next]_(Queue!vars)
  BY <1>1 DEF ChatStep, TalkOnly, EnqueueSummary, Queue!Next
<1>2. ASSUME NEW c \in Chat, AbortChat(c) PROVE [Queue!Next]_(Queue!vars)
  BY <1>2 DEF AbortChat
<1>3. ASSUME NEW w \in Worker, RunOnce(w) PROVE [Queue!Next]_(Queue!vars)
  BY <1>3 DEF RunOnce, Poll, Claim, HandlerWorks, Done, Failed, TalkOnly,
              Queue!Next, Queue!RunOnce
<1>4. ASSUME NEW w \in Worker, Crash(w) \/ Restart(w) PROVE [Queue!Next]_(Queue!vars)
  BY <1>4 DEF Crash, Restart, Queue!Next
<1>5. ASSUME NEW j \in Job, LeaseExpires(j) PROVE [Queue!Next]_(Queue!vars)
  BY <1>5 DEF LeaseExpires, Queue!Next
<1>6. ASSUME (Talk!Delete /\ TalkOnly) \/ UNCHANGED vars
     PROVE  [Queue!Next]_(Queue!vars)
  BY <1>6 DEF TalkOnly, vars
<1> QED
  BY <1>1, <1>2, <1>3, <1>4, <1>5, <1>6 DEF Next

(* ... and one of the conversation.                                        *)
LEMMA TalkStep == [Next]_vars => [Talk!Next]_(Talk!vars)
<1> SUFFICES ASSUME [Next]_vars PROVE [Talk!Next]_(Talk!vars)
  OBVIOUS
<1> USE StillParts
<1>1. ASSUME NEW c \in Chat, ChatStep(c) \/ AbortChat(c) PROVE [Talk!Next]_(Talk!vars)
  BY <1>1 DEF ChatStep, EnqueueSummary, AbortChat, Talk!Next, Talk!ChatStep
<1>2. ASSUME NEW w \in Worker, RunOnce(w) PROVE [Talk!Next]_(Talk!vars)
  BY <1>2 DEF RunOnce, Poll, Claim, HandlerWorks, Done, Failed, QueueOnly,
              Talk!Next, Talk!HandlerStep
<1>3. ASSUME NEW w \in Worker, Crash(w) \/ Restart(w) PROVE [Talk!Next]_(Talk!vars)
  BY <1>3 DEF Crash, Restart, QueueOnly, Talk!Next, Talk!HandlerStep
<1>4. ASSUME NEW j \in Job, LeaseExpires(j) PROVE [Talk!Next]_(Talk!vars)
  BY <1>4 DEF LeaseExpires, QueueOnly
<1>5. ASSUME (Talk!Delete /\ TalkOnly) \/ UNCHANGED vars
     PROVE  [Talk!Next]_(Talk!vars)
  BY <1>5 DEF TalkOnly, vars, Talk!Next
<1> QED
  BY <1>1, <1>2, <1>3, <1>4, <1>5 DEF Next

(* Chat requests, queue and handler put together behave as the queue does  *)
(* and as the conversation does: what the pipeline adds is only when which *)
(* of their steps are taken.                                               *)
THEOREM PartsImplemented == Spec => Queue!Spec /\ Talk!Spec
<1>1. Init => Queue!Init /\ Talk!Init
  BY DEF Init
<1> QED
  BY <1>1, QueueStep, TalkStep, PTL DEF Spec, Queue!Spec, Talk!Spec

(* So their invariants hold of it.                                         *)
LEMMA PartsInvariant == Spec => [](QueueProofs!IndInv /\ TalkProofs!TypeOK)
<1>1. Spec => QueueProofs!Spec
  BY PartsImplemented, SameParts, PTL DEF Queue!Spec, QueueProofs!Spec
<1>2. Spec => TalkProofs!Spec
  BY PartsImplemented, SameParts, PTL DEF Talk!Spec, TalkProofs!Spec
<1>3. QueueProofs!Spec => []QueueProofs!IndInv
  BY QueueAssumption, QueueProofs!Invariance
<1>4. TalkProofs!Spec => []TalkProofs!TypeOK
  BY TalkAssumption, TalkProofs!TypeCorrect
<1> QED
  BY <1>1, <1>2, <1>3, <1>4, PTL

(* The queue in charge of the handlers cannot break what is proved of any  *)
(* handlers: the last window is never counted as summarized, and the       *)
(* summary is of the first messages, each once and in order, unless a turn *)
(* is committed out of order or a reply has no text.                       *)
THEOREM SummaryInPipeline == Spec => [](Talk!CountKeepsWindow /\ Talk!SummaryIsPrefix)
<1>1. Spec => TalkProofs!Spec
  BY PartsImplemented, SameParts, PTL DEF Talk!Spec, TalkProofs!Spec
<1>2. TalkProofs!Spec => []TalkProofs!CountKeepsWindow
  BY TalkAssumption, TalkProofs!WindowKept
<1>3. TalkProofs!Spec => []TalkProofs!SummaryIsPrefix
  BY TalkAssumption, TalkProofs!SummaryIsOfThePrefix
<1>4. TalkProofs!CountKeepsWindow => Talk!CountKeepsWindow
  BY DEF Talk!CountKeepsWindow, TalkProofs!CountKeepsWindow,
         Talk!LeavesWindow, TalkProofs!LeavesWindow
<1>5. TalkProofs!SummaryIsPrefix => Talk!SummaryIsPrefix
  BY DEF Talk!SummaryIsPrefix, TalkProofs!SummaryIsPrefix
<1> QED
  BY <1>1, <1>2, <1>3, <1>4, <1>5, PTL

-----------------------------------------------------------------------------
(* What is known of the parts in every state.                              *)
Parts == QueueProofs!IndInv /\ TalkProofs!TypeOK

LEMMA PartTypes ==
  ASSUME Parts
  PROVE  /\ status \in [Job -> {"absent", "pending", "processing", "done", "failed"}]
         /\ attempts \in [Job -> Nat]
         /\ \A w \in Worker : pc[w] \in {"claiming", "running"} => job[w] \in Job
         /\ NoJob \notin Job
         /\ pc \in [Worker -> {"idle", "selecting", "claiming", "running", "down", "raised"}]
         /\ job \in [Worker -> Job \cup {NoJob}]
         /\ MaxAttempts \in Nat
         /\ Len(messages) \in Nat
         /\ count \in Nat
         /\ Window \in Nat
         /\ Trigger \in Nat
         /\ chat \in [Chat -> {"idle", "asking", "committed", "enqueuing"}]
         /\ staleCount \in [Chat -> Nat]
         /\ handler \in [Worker -> {"idle", "started", "loaded", "asking", "returned"}]
         /\ already \in [Worker -> Nat]
         /\ \A w \in Worker : Len(toFold[w]) \in Nat
         /\ toFold \in [Worker -> Seq(TalkProofs!Message)]
<1>1. QueueProofs!TypeOK /\ QueueProofs!LocalsAgree
  BY DEF Parts, QueueProofs!IndInv, QueueProofs!TransactionsIsolated
<1>2. /\ status \in [Job -> {"absent", "pending", "processing", "done", "failed"}]
      /\ attempts \in [Job -> Nat]
      /\ pc \in [Worker -> {"idle", "selecting", "claiming", "running", "down", "raised"}]
      /\ job \in [Worker -> Job \cup {NoJob}]
  BY <1>1 DEF QueueProofs!TypeOK, QueueProofs!Status, QueueProofs!Location
<1>3. \A w \in Worker : pc[w] \in {"claiming", "running"} => job[w] \in Job
  BY <1>1 DEF QueueProofs!LocalsAgree
<1>4. /\ messages \in Seq(TalkProofs!Message)
      /\ count \in Nat
      /\ chat \in [Chat -> {"idle", "asking", "committed", "enqueuing"}]
      /\ staleCount \in [Chat -> Nat]
      /\ handler \in [Worker -> {"idle", "started", "loaded", "asking", "returned"}]
      /\ already \in [Worker -> Nat]
      /\ toFold \in [Worker -> Seq(TalkProofs!Message)]
  BY DEF Parts, TalkProofs!TypeOK
<1>5. Len(messages) \in Nat /\ \A w \in Worker : Len(toFold[w]) \in Nat
  BY <1>4
<1> QED
  BY <1>2, <1>3, <1>4, <1>5, PipelineAssumption

(* The ways to attend to a gap.                                            *)
Coming == \E c \in Chat : chat[c] \in {"committed", "enqueuing"}
Waiting == \E j \in Job : status[j] = "pending" \/ Orphan(j)
Closing == \E w \in Worker : WillClose(w)

LEMMA Ways ==
  /\ GapIsAttendedTo <=> (Gap => Coming \/ Waiting \/ Closing \/ dropped \/ GaveUp)
  /\ GapIsAttendedTo' <=> (Gap' => Coming' \/ Waiting' \/ Closing' \/ dropped' \/ GaveUp')
BY DEF GapIsAttendedTo, Coming, Waiting, Closing

(* A row whose status and attempts stay goes on waiting, or is given up    *)
(* for good, unless a runner comes to work on it.                          *)
LEMMA RowsStay ==
  ASSUME UNCHANGED <<status, attempts>>,
         \A w \in Worker, j \in Job : Queue!RunBy(w, j)' => Queue!RunBy(w, j)
  PROVE  (Waiting => Waiting') /\ (GaveUp => GaveUp')
BY DEF Waiting, GaveUp, Orphan

(* A request that goes from one place to another is all that has changed.  *)
LEMMA OthersCome ==
  ASSUME Parts, NEW c \in Chat, NEW place, chat' = [chat EXCEPT ![c] = place],
         chat[c] \notin {"committed", "enqueuing"}
  PROVE  Coming => Coming'
<1> SUFFICES ASSUME Coming PROVE Coming'
  OBVIOUS
<1>1. PICK d \in Chat : chat[d] \in {"committed", "enqueuing"}
  BY DEF Coming
<1>2. d # c /\ chat'[d] = chat[d]
  BY <1>1, PartTypes
<1> QED
  BY <1>1, <1>2 DEF Coming

LEMMA ChatGapStep ==
  ASSUME Parts, GapInv, NEW c \in Chat, ChatStep(c) \/ AbortChat(c)
  PROVE  GapInv'
<1> USE DEF GapInv
<1>1. /\ UNCHANGED <<count, deleted, handler, already, toFold>>
      /\ \/ staleCount' = staleCount
         \/ staleCount' = [staleCount EXCEPT ![c] = count]
         \/ staleCount' = [staleCount EXCEPT ![c] = 0]
  BY DEF ChatStep, EnqueueSummary, AbortChat, Talk!Prepare, Talk!CommitTurn,
         Talk!CountTotal, Talk!NoFoldNeeded, Talk!Enqueued, Talk!AbortChat, Talk!Leave,
         Talk!rowVars, Talk!handlerVars
<1>2. \/ UNCHANGED queueVars
      \/ \E j \in Job : Queue!Enqueue(j, ThisConversation)
  BY DEF ChatStep, EnqueueSummary, AbortChat, TalkOnly
<1>3. LoadedCounts'
  <2>1. staleCount \in [Chat -> Nat] /\ count \in Nat /\ count' = count
    BY <1>1, PartTypes
  <2>2. \A d \in Chat : staleCount[d] <= count
    BY DEF LoadedCounts
  <2>3. \A d \in Chat : staleCount'[d] \in {staleCount[d], count, 0}
    BY <1>1, <2>1
  <2> QED
    BY <2>1, <2>2, <2>3 DEF LoadedCounts
<1>4. HandlersAreCurrent'
  BY <1>1 DEF HandlersAreCurrent
<1>5. HandlersHaveRows'
  <2>1. CASE UNCHANGED queueVars
    BY <1>1, <2>1 DEF HandlersHaveRows, queueVars
  <2>2. ASSUME NEW j \in Job, Queue!Enqueue(j, ThisConversation)
        PROVE  HandlersHaveRows'
    <3>1. status[j] = "absent" /\ status' = [status EXCEPT ![j] = "pending"]
          /\ UNCHANGED <<pc, job>>
      BY <2>2 DEF Queue!Enqueue, Queue!workerVars
    <3> QED
      BY <1>1, <3>1, PartTypes DEF HandlersHaveRows
  <2> QED
    BY <1>2, <2>1, <2>2
<1>6. ASSUME UNCHANGED <<messages, queueVars, dropped>>, Coming => Coming'
      PROVE  GapIsAttendedTo'
  <2>1. Gap' <=> Gap
    BY <1>1, <1>6 DEF Gap
  <2>2. (Waiting => Waiting') /\ (GaveUp => GaveUp')
    BY <1>6, RowsStay DEF queueVars, Queue!RunBy
  <2>3. Closing => Closing'
    BY <1>1, <1>6 DEF Closing, WillClose
  <2>4. dropped' = dropped
    BY <1>6
  <2> QED
    BY <1>6, <2>1, <2>2, <2>3, <2>4, Ways
<1>7. CASE Talk!Prepare(c) /\ TalkOnly
  <2>1. /\ UNCHANGED <<messages, queueVars, dropped>>
        /\ chat' = [chat EXCEPT ![c] = "asking"]
        /\ chat[c] = "idle"
    BY <1>7 DEF Talk!Prepare, TalkOnly, Talk!rowVars
  <2> QED
    BY <1>3, <1>4, <1>5, <1>6, <2>1, OthersCome
<1>8. CASE Talk!CommitTurn(c)
  <2>1. chat'[c] = "committed"
    BY <1>8, PartTypes DEF Talk!CommitTurn
  <2> QED
    BY <1>3, <1>4, <1>5, <2>1, Ways DEF Coming
<1>9. CASE Talk!CountTotal(c)
  <2>1. chat'[c] = "enqueuing"
    BY <1>9, PartTypes DEF Talk!CountTotal
  <2> QED
    BY <1>3, <1>4, <1>5, <2>1, Ways DEF Coming
<1>10. CASE Talk!NoFoldNeeded(c)
  <2>1. ~Talk!NeedsFold(c) /\ UNCHANGED messages
    BY <1>10 DEF Talk!NoFoldNeeded, Talk!rowVars
  <2>2. staleCount[c] <= count
    BY DEF LoadedCounts
  <2>3. ~Gap
    BY <2>1, <2>2, PartTypes DEF Gap, Talk!NeedsFold
  <2>4. ~Gap'
    BY <1>1, <2>1, <2>3 DEF Gap
  <2> QED
    BY <1>3, <1>4, <1>5, <2>4 DEF GapIsAttendedTo
<1>11. CASE EnqueueSummary(c)
  <2>1. \E j \in Job : status'[j] = "pending"
    <3>1. CASE HasPending /\ UNCHANGED queueVars
      BY <3>1 DEF HasPending, queueVars
    <3>2. ASSUME NEW j \in Job, Queue!Enqueue(j, ThisConversation)
          PROVE  \E k \in Job : status'[k] = "pending"
      BY <3>2, PartTypes DEF Queue!Enqueue
    <3> QED
      BY <1>11, <3>1, <3>2 DEF EnqueueSummary
  <2> QED
    BY <1>3, <1>4, <1>5, <2>1 DEF GapIsAttendedTo
<1>12. CASE AbortChat(c)
  <2>1. /\ chat' = [chat EXCEPT ![c] = "idle"]
        /\ UNCHANGED <<messages, queueVars>>
        /\ dropped' = (dropped \/ chat[c] \in {"committed", "enqueuing"})
    BY <1>12 DEF AbortChat, Talk!AbortChat, Talk!Leave, Talk!rowVars
  <2>2. CASE chat[c] \in {"committed", "enqueuing"}
    BY <1>3, <1>4, <1>5, <2>1, <2>2 DEF GapIsAttendedTo
  <2>3. CASE chat[c] \notin {"committed", "enqueuing"}
    <3>1. CASE dropped
      BY <1>3, <1>4, <1>5, <2>1, <3>1 DEF GapIsAttendedTo
    <3>2. CASE ~dropped
      <4>1. ~dropped' /\ (Coming => Coming')
        BY <2>1, <2>3, <3>2, OthersCome
      <4>2. (Waiting => Waiting') /\ (GaveUp => GaveUp') /\ (Closing => Closing')
        BY <1>1, <2>1, RowsStay DEF queueVars, Queue!RunBy, Closing, WillClose
      <4>3. Gap' <=> Gap
        BY <1>1, <2>1 DEF Gap
      <4> QED
        BY <1>3, <1>4, <1>5, <3>2, <4>1, <4>2, <4>3, Ways
    <3> QED
      BY <3>1, <3>2
  <2> QED
    BY <2>2, <2>3
<1> QED
  BY <1>7, <1>8, <1>9, <1>10, <1>11, <1>12 DEF ChatStep

(* A claimed job has a handler that will read the messages.                *)
LEMMA ClaimGapStep ==
  ASSUME NEW u, Worker = {u}, Parts, GapInv, Claim(u)
  PROVE  GapInv'
<1> USE DEF GapInv
<1>1. /\ pc[u] = "claiming"
      /\ status' = [j \in Job |->
                      IF j = job[u] THEN "processing" ELSE Queue!ViewStatus(u, j)]
      /\ pc' = [pc EXCEPT ![u] = "running"]
      /\ handler' = [handler EXCEPT ![u] = "started"]
      /\ UNCHANGED <<job, count, staleCount, already>>
  BY DEF Claim, Queue!CommitClaim, Talk!Start, Talk!Goto, Talk!rowVars, Talk!chatVars
<1>2. job[u] \in Job
  BY <1>1, PartTypes
<1>3. handler'[u] = "started" /\ pc'[u] = "running" /\ status'[job'[u]] = "processing"
  BY <1>1, <1>2, PartTypes
<1>4. LoadedCounts'
  BY <1>1 DEF LoadedCounts
<1>5. HandlersAreCurrent' /\ HandlersHaveRows'
  BY <1>3 DEF HandlersAreCurrent, HandlersHaveRows
<1>6. Closing'
  BY <1>3 DEF Closing, WillClose
<1> QED
  BY <1>4, <1>5, <1>6, Ways

(* A handler that has read the messages closes the gap with what it folds, *)
(* unless a turn is stored meanwhile: then that request attends to it.     *)
LEMMA HandlerGapStep ==
  ASSUME NEW u, Worker = {u}, Parts, GapInv, HandlerWorks(u)
  PROVE  GapInv'
<1> USE DEF GapInv
<1>1. UNCHANGED <<queueVars, dropped, chat, staleCount, messages, deleted>>
  BY DEF HandlerWorks, TalkOnly, Talk!LoadConversation, Talk!ConversationGone,
         Talk!LoadMessages, Talk!NothingToFold, Talk!WriteBack, Talk!rowVars,
         Talk!chatVars
<1>2. pc[u] = "running" /\ handler'[u] # "idle"
  BY PartTypes
     DEF HandlersHaveRows, HandlerWorks, Talk!LoadConversation, Talk!ConversationGone,
         Talk!LoadMessages, Talk!NothingToFold, Talk!WriteBack, Talk!Goto
<1>3. HandlersHaveRows'
  BY <1>1, <1>2 DEF HandlersHaveRows, queueVars
<1>4. (Coming => Coming') /\ (Waiting => Waiting') /\ (GaveUp => GaveUp')
  BY <1>1, RowsStay DEF Coming, queueVars, Queue!RunBy
<1>5. ASSUME UNCHANGED count, handler'[u] \in {"loaded", "asking"} => already'[u] = count,
             Closing'
      PROVE  GapInv'
  <2>1. LoadedCounts'
    BY <1>1, <1>5 DEF LoadedCounts
  <2>2. HandlersAreCurrent'
    BY <1>5 DEF HandlersAreCurrent
  <2> QED
    BY <1>3, <1>5, <2>1, <2>2, Ways
<1>6. ASSUME ~Gap', LoadedCounts', HandlersAreCurrent' PROVE GapInv'
  BY <1>3, <1>6 DEF GapIsAttendedTo
<1>7. CASE Talk!LoadConversation(u)
  <2>1. handler'[u] = "loaded" /\ already'[u] = count /\ UNCHANGED count
    BY <1>7, PartTypes DEF Talk!LoadConversation, Talk!Goto, Talk!rowVars
  <2>2. Closing'
    BY <2>1 DEF Closing, WillClose
  <2> QED
    BY <1>5, <2>1, <2>2
<1>8. CASE Talk!ConversationGone(u)
  <2>1. deleted /\ handler'[u] = "returned" /\ UNCHANGED count
    BY <1>8, PartTypes DEF Talk!ConversationGone, Talk!Goto, Talk!rowVars
  <2> QED
    BY <1>1, <1>6, <2>1 DEF Gap, LoadedCounts, HandlersAreCurrent
<1>9. CASE Talk!LoadMessages(u)
  <2> DEFINE n == Talk!FoldLimit(u)
             s == SubSeq(messages, already[u] + 1, n)
  <2>1. /\ handler[u] = "loaded" /\ n > already[u]
        /\ toFold'[u] = s
        /\ handler'[u] = "asking"
        /\ UNCHANGED <<count, already>>
    BY <1>9, PartTypes DEF Talk!LoadMessages, Talk!Goto, Talk!rowVars
  <2>2. already[u] = count
    BY <2>1 DEF HandlersAreCurrent
  <2>3. already[u] + Len(s) = Len(messages) - Window
    BY <2>1, TalkAssumption, TalkProofs!FoldSlice
       DEF Parts, Talk!FoldLimit, TalkProofs!FoldLimit
  <2>4. already'[u] + Len(toFold'[u]) >= Len(messages') - Window
    <3> HIDE DEF s
    <3> QED
      BY <1>1, <2>1, <2>3, PartTypes
  <2>5. Closing'
    BY <2>1, <2>4 DEF Closing, WillClose
  <2> QED
    BY <1>5, <2>1, <2>2, <2>5
<1>10. CASE Talk!NothingToFold(u)
  <2>1. /\ handler[u] = "loaded" /\ Talk!FoldLimit(u) = already[u]
        /\ handler'[u] = "returned" /\ UNCHANGED count
    BY <1>10, PartTypes DEF Talk!NothingToFold, Talk!Goto, Talk!rowVars
  <2>2. already[u] = count
    BY <2>1 DEF HandlersAreCurrent
  <2>3. ~Gap
    BY <2>1, <2>2, PartTypes DEF Gap, Talk!FoldLimit
  <2> QED
    BY <1>1, <1>6, <2>1, <2>3 DEF Gap, LoadedCounts, HandlersAreCurrent
<1>11. CASE Talk!WriteBack(u)
  <2>1. /\ handler[u] = "asking" /\ count' = already[u] + Len(toFold[u])
        /\ handler'[u] = "returned"
    BY <1>11, PartTypes DEF Talk!WriteBack, Talk!Goto
  <2>2. already[u] = count
    BY <2>1 DEF HandlersAreCurrent
  <2>3. count \in Nat /\ count' \in Nat /\ count <= count'
    BY <2>1, <2>2, PartTypes
  <2>4. LoadedCounts'
    BY <1>1, <2>3, PartTypes DEF LoadedCounts
  <2>5. HandlersAreCurrent'
    BY <2>1 DEF HandlersAreCurrent
  <2>6. Gap' => Gap
    BY <1>1, <2>3, PartTypes DEF Gap
  <2>7. Closing => ~Gap'
    BY <1>1, <2>1, PartTypes DEF Closing, WillClose, Gap
  <2> QED
    BY <1>1, <1>3, <1>4, <2>4, <2>5, <2>6, <2>7, Ways
<1> QED
  BY <1>7, <1>8, <1>9, <1>10, <1>11 DEF HandlerWorks

(* The conversation and the rows stay; so does what a runner works on.     *)
LEMMA QuietGapStep ==
  ASSUME NEW u, Worker = {u}, GapInv,
         UNCHANGED <<talkVars, dropped, status, attempts>>,
         pc'[u] = "running" <=> pc[u] = "running",
         pc[u] = "running" => job'[u] = job[u]
  PROVE  GapInv'
<1> USE DEF GapInv
<1>1. LoadedCounts' /\ HandlersAreCurrent' /\ HandlersHaveRows'
  BY DEF LoadedCounts, HandlersAreCurrent, HandlersHaveRows, talkVars
<1>2. (Waiting => Waiting') /\ (GaveUp => GaveUp')
  BY RowsStay DEF Queue!RunBy
<1>3. (Coming => Coming') /\ (Closing => Closing') /\ (Gap' <=> Gap) /\ dropped' = dropped
  BY DEF Coming, Closing, WillClose, Gap, talkVars
<1> QED
  BY <1>1, <1>2, <1>3, Ways

LEMMA PollGapStep ==
  ASSUME NEW u, Worker = {u}, Parts, GapInv, Poll(u) \/ Restart(u)
  PROVE  GapInv'
<1>1. /\ UNCHANGED <<talkVars, dropped, status, attempts>>
      /\ pc[u] # "running" /\ pc'[u] # "running"
  BY PartTypes
     DEF Poll, Restart, QueueOnly, Queue!Reclaim, Queue!ReclaimRaises, Queue!SelectNext,
         Queue!NothingPending, Queue!Restart, Queue!rowVars
<1> QED
  BY <1>1, QuietGapStep

LEMMA LeaseGapStep ==
  ASSUME NEW u, Worker = {u}, GapInv, NEW j \in Job, LeaseExpires(j)
  PROVE  GapInv'
<1>1. /\ UNCHANGED <<talkVars, dropped, status, attempts>>
      /\ UNCHANGED <<pc, job>>
  BY DEF LeaseExpires, QueueOnly, Queue!LeaseExpires, Queue!workerVars
<1> QED
  BY <1>1, QuietGapStep

(* The handler is over: its row is settled, is given back, or is left to   *)
(* its lease.  A handler that has not done its work leaves a row behind    *)
(* that is tried again or is given up.                                     *)
LEMMA SettleGapStep ==
  ASSUME NEW u, Worker = {u}, Parts, GapInv, Talk!EndHandler(u),
         UNCHANGED <<attempts, dropped>>,
         pc[u] = "running", pc'[u] # "running",
         \/ status' = [status EXCEPT ![job[u]] = "done"] /\ handler[u] = "returned"
         \/ status' = [status EXCEPT ![job[u]] = Queue!RetryStatus(job[u])]
         \/ status' = status
  PROVE  GapInv'
<1> USE DEF GapInv
<1>1. /\ UNCHANGED <<messages, count, deleted, chat, staleCount>>
      /\ handler'[u] = "idle"
  BY PartTypes DEF Talk!EndHandler, Talk!Goto, Talk!rowVars, Talk!chatVars
<1>2. PICK j \in Job : j = job[u] /\ status[j] = "processing"
  BY PartTypes DEF HandlersHaveRows
<1>3. LoadedCounts' /\ HandlersAreCurrent' /\ HandlersHaveRows'
  BY <1>1 DEF LoadedCounts, HandlersAreCurrent, HandlersHaveRows
<1>4. (Coming => Coming') /\ (Gap' <=> Gap)
  BY <1>1 DEF Coming, Gap
<1>5. \A k \in Job \ {j} : status'[k] = status[k]
  BY <1>2, PartTypes
<1>6. \A k \in Job : ~Queue!RunBy(u, k)'
  BY DEF Queue!RunBy
<1>7. \A k \in Job : Orphan(k) \/ status[k] \in {"pending", "failed"} => k # j
  BY <1>2 DEF Orphan, Queue!RunBy
<1>8. Waiting => Waiting'
  BY <1>5, <1>6, <1>7 DEF Waiting, Orphan
<1>9. GaveUp => GaveUp'
  <2> SUFFICES ASSUME NEW k \in Job,
                      \/ status[k] = "failed"
                      \/ /\ status[k] = "processing"
                         /\ attempts[k] >= MaxAttempts
                         /\ \A w \in Worker : ~Queue!RunBy(w, k)
               PROVE  GaveUp'
    BY DEF GaveUp
  <2>1. k # j
    BY <1>2 DEF Queue!RunBy
  <2> QED
    BY <1>5, <1>6, <2>1 DEF GaveUp
<1>10. CASE handler[u] = "returned"
  <2>1. ~Closing
    BY <1>10 DEF Closing, WillClose
  <2> QED
    BY <1>3, <1>4, <1>8, <1>9, <2>1, Ways
<1>11. CASE status' = [status EXCEPT ![j] = Queue!RetryStatus(j)]
  <2>1. status'[j] \in {"failed", "pending"}
    BY <1>2, <1>11, PartTypes DEF Queue!RetryStatus
  <2>2. Waiting' \/ GaveUp'
    BY <1>2, <2>1 DEF Waiting, GaveUp
  <2> QED
    BY <1>3, <2>2, Ways
<1>12. CASE status' = status
  <2>1. status'[j] = "processing" /\ attempts'[j] = attempts[j] /\ attempts[j] \in Nat
    BY <1>2, <1>12, PartTypes
  <2>2. \A w \in Worker : ~Queue!RunBy(w, j)'
    BY <1>6
  <2>3. Waiting' \/ GaveUp'
    <3>1. CASE attempts[j] < MaxAttempts
      <4>1. Orphan(j)'
        BY <2>1, <2>2, <3>1 DEF Orphan
      <4> QED
        BY <1>2, <4>1 DEF Waiting
    <3>2. CASE attempts[j] >= MaxAttempts
      BY <1>2, <2>1, <2>2, <3>2 DEF GaveUp
    <3> QED
      BY <2>1, <3>1, <3>2, PartTypes
  <2> QED
    BY <1>3, <2>3, Ways
<1> QED
  BY <1>2, <1>10, <1>11, <1>12

LEMMA RunnerGapStep ==
  ASSUME NEW u, Worker = {u}, Parts, GapInv, RunOnce(u) \/ Crash(u) \/ Restart(u)
  PROVE  GapInv'
<1>1. CASE Done(u)
  <2>1. /\ Talk!EndHandler(u) /\ UNCHANGED <<attempts, dropped>>
        /\ pc[u] = "running" /\ pc'[u] # "running"
        /\ status' = [status EXCEPT ![job[u]] = "done"] /\ handler[u] = "returned"
    BY <1>1, PartTypes DEF Done, Queue!MarkDone
  <2> QED
    BY <2>1, SettleGapStep
<1>2. CASE Failed(u)
  <2>1. /\ Talk!EndHandler(u) /\ UNCHANGED <<attempts, dropped>>
        /\ pc[u] = "running" /\ pc'[u] # "running"
        /\ \/ status' = [status EXCEPT ![job[u]] = Queue!RetryStatus(job[u])]
           \/ status' = status
    BY <1>2, PartTypes
       DEF Failed, Queue!MarkFailed, Queue!MarkFailedRaises, Queue!rowVars
  <2> QED
    BY <2>1, SettleGapStep
<1>3. CASE Crash(u)
  <2>1. /\ UNCHANGED <<attempts, dropped, status>> /\ pc'[u] # "running"
        /\ IF pc[u] = "running" THEN Talk!EndHandler(u) ELSE UNCHANGED talkVars
    BY <1>3, PartTypes DEF Crash, Queue!Crash, Queue!rowVars
  <2>2. CASE pc[u] = "running"
    BY <2>1, <2>2, SettleGapStep
  <2>3. CASE pc[u] # "running"
    BY <2>1, <2>3, QuietGapStep
  <2> QED
    BY <2>2, <2>3
<1> QED
  BY <1>1, <1>2, <1>3, ClaimGapStep, HandlerGapStep, PollGapStep DEF RunOnce

LEMMA GapStep ==
  ASSUME NEW u, Worker = {u}
  PROVE  Parts /\ GapInv /\ [Next]_vars => GapInv'
<1> SUFFICES ASSUME Parts, GapInv, [Next]_vars PROVE GapInv'
  OBVIOUS
<1>1. CASE Talk!Delete /\ TalkOnly
  <2>1. /\ deleted' /\ UNCHANGED <<queueVars, count, staleCount, handler, already>>
    BY <1>1 DEF Talk!Delete, TalkOnly, Talk!chatVars, Talk!handlerVars
  <2>2. LoadedCounts' /\ HandlersAreCurrent' /\ HandlersHaveRows'
    BY <2>1 DEF GapInv, LoadedCounts, HandlersAreCurrent, HandlersHaveRows, queueVars
  <2> QED
    BY <2>1, <2>2 DEF GapInv, GapIsAttendedTo, Gap
<1>2. CASE UNCHANGED vars
  BY <1>2, QuietGapStep DEF vars, queueVars
<1> QED
  BY <1>1, <1>2, ChatGapStep, RunnerGapStep, LeaseGapStep DEF Next

(* With one runner no gap is left to itself, whatever requests, crashes,   *)
(* failures and lease expiries come in whichever order: the dedup against  *)
(* a pending job and the count loaded before the turn lose no wakeup.      *)
THEOREM GapsAttended ==
  ASSUME NEW u, Worker = {u}
  PROVE  Spec => []GapIsAttendedTo
<1>1. Init => GapInv
  <2> SUFFICES ASSUME Init PROVE GapInv
    OBVIOUS
  <2>1. /\ count = 0 /\ staleCount = [c \in Chat |-> 0] /\ Len(messages) = 0
        /\ handler = [w \in Worker |-> "idle"] /\ pc = [w \in Worker |-> "idle"]
    BY DEF Init, Queue!Init, Talk!Init
  <2>2. ~Gap
    BY <2>1, PipelineAssumption DEF Gap
  <2> QED
    BY <2>1, <2>2
       DEF GapInv, LoadedCounts, HandlersAreCurrent, HandlersHaveRows, GapIsAttendedTo
<1>2. Spec => []Parts
  BY PartsInvariant, PTL DEF Parts
<1>3. Parts /\ GapInv /\ [Next]_vars => GapInv'
  BY GapStep
<1>4. GapInv => GapIsAttendedTo
  BY DEF GapInv
<1> QED
  BY <1>1, <1>2, <1>3, <1>4, PTL DEF Spec
=============================================================================
