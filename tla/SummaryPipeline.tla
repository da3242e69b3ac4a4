--------------------------- MODULE SummaryPipeline --------------------------
(***************************************************************************)
(* JobQueue and RollingSummary put together for one conversation: chat     *)
(* requests enqueue summarize_conversation jobs, runners claim them, run   *)
(* the handler in the session of the claim and settle the row.  A step of  *)
(* the pipeline is a step of the queue, a step of the conversation, or the *)
(* step of both that the code makes in one call.                           *)
(***************************************************************************)
EXTENDS Integers, Sequences

CONSTANTS
  Worker, Job, NoJob, NoConversation, MaxAttempts, MaxCrashes, SlowHandlers,
  Chat, Window, Trigger, TurnSize, Reply, MaxTurns,
  ThisConversation   \* the conversation every job names

(* What JobQueue and RollingSummary assume of their constants.             *)
ASSUME PipelineAssumption ==
  /\ Job \subseteq Nat
  /\ NoJob \notin Job
  /\ NoConversation # ThisConversation
  /\ MaxAttempts \in Nat \ {0}
  /\ MaxCrashes \in Nat
  /\ SlowHandlers \in BOOLEAN
  /\ Window \in Nat
  /\ Trigger \in Nat
  /\ TurnSize \subseteq Nat \ {0}
  /\ Reply \subseteq {"text", "no_text"}
  /\ MaxTurns \in Nat

VARIABLES
  status, attempts, payload, expired, pc, job, seen, reclaimed, claims, crashes,
  messages, summary, count, deleted, clock, chat, began, staleCount,
  handler, already, previous, toFold, disturbed,
  dropped   \* history: a request ended between its commit and its enqueue

Queue == INSTANCE JobQueue WITH Conversation <- {ThisConversation}

Talk == INSTANCE RollingSummary WITH Handler <- Worker

queueVars ==
  <<status, attempts, payload, expired, pc, job, seen, reclaimed, claims, crashes>>
talkVars ==
  <<messages, summary, count, deleted, clock, chat, began, staleCount, handler,
    already, previous, toFold, disturbed>>
vars == <<queueVars, talkVars, dropped>>

TypeOK == Queue!TypeOK /\ Talk!TypeOK /\ dropped \in BOOLEAN

Init == Queue!Init /\ Talk!Init /\ dropped = FALSE

QueueOnly == UNCHANGED <<talkVars, dropped>>
TalkOnly == UNCHANGED <<queueVars, dropped>>

-----------------------------------------------------------------------------
(* Mutant of HasPending: a job that is being processed counts as one that  *)
(* is still to come.                                                       *)
HasUnfinished == \E j \in Job : status[j] \in {"pending", "processing"}

(* What the ON CONFLICT clause of enqueue finds.                           *)
HasPending == \E j \in Job : status[j] = "pending"

(* The enqueue of _finalize inserts a row, in the next place of created_at *)
(* order, or finds a pending one.                                          *)
EnqueueSummary(c) ==
  /\ Talk!Enqueued(c)
  /\ dropped' = dropped
  /\ \/ /\ ~HasPending
        /\ \E j \in Job :
             /\ \A k \in Job : status[k] = "absent" => j <= k
             /\ Queue!Enqueue(j, ThisConversation)
     \/ HasPending /\ UNCHANGED queueVars

(* A request that goes away after its commit leaves its turn unannounced.  *)
AbortChat(c) ==
  /\ Talk!AbortChat(c)
  /\ dropped' = (dropped \/ chat[c] \in {"committed", "enqueuing"})
  /\ UNCHANGED queueVars

ChatStep(c) ==
  \/ /\ \/ Talk!Prepare(c)
        \/ Talk!CommitTurn(c)
        \/ Talk!CountTotal(c)
        \/ Talk!NoFoldNeeded(c)
     /\ TalkOnly
  \/ EnqueueSummary(c)

-----------------------------------------------------------------------------
(* claim_next returned a job: run_once calls its handler.                  *)
Claim(w) == Queue!CommitClaim(w) /\ Talk!Start(w) /\ UNCHANGED dropped

HandlerWorks(w) ==
  /\ \/ Talk!LoadConversation(w)
     \/ Talk!ConversationGone(w)
     \/ Talk!LoadMessages(w)
     \/ Talk!NothingToFold(w)
     \/ Talk!WriteBack(w)
  /\ TalkOnly

(* The handler returned.                                                   *)
Done(w) ==
  /\ handler[w] = "returned"
  /\ Queue!MarkDone(w)
  /\ Talk!EndHandler(w)
  /\ UNCHANGED dropped

(* The handler raised before its commit.                                   *)
Failed(w) ==
  /\ handler[w] # "returned"
  /\ Queue!MarkFailed(w) \/ Queue!MarkFailedRaises(w)
  /\ Talk!EndHandler(w)
  /\ UNCHANGED dropped

Poll(w) ==
  /\ \/ Queue!Reclaim(w)
     \/ Queue!ReclaimRaises(w)
     \/ Queue!SelectNext(w)
     \/ Queue!NothingPending(w)
  /\ QueueOnly

Crash(w) ==
  /\ Queue!Crash(w)
  /\ IF pc[w] = "running" THEN Talk!EndHandler(w) ELSE UNCHANGED talkVars
  /\ UNCHANGED dropped

RunOnce(w) == Poll(w) \/ Claim(w) \/ HandlerWorks(w) \/ Done(w) \/ Failed(w)

Restart(w) == Queue!Restart(w) /\ QueueOnly

LeaseExpires(j) == Queue!LeaseExpires(j) /\ QueueOnly

Next ==
  \/ \E c \in Chat : ChatStep(c) \/ AbortChat(c)
  \/ Talk!Delete /\ TalkOnly
  \/ \E w \in Worker : RunOnce(w) \/ Crash(w) \/ Restart(w)
  \/ \E j \in Job : LeaseExpires(j)

Spec == Init /\ [][Next]_vars

(* A request goes on with what follows its commit; runners and clocks as   *)
(* in JobQueue.  Nothing makes a client send another turn.                 *)
Fairness ==
  /\ \A c \in Chat : WF_vars(ChatStep(c) /\ chat[c] # "idle")
  /\ \A w \in Worker : WF_vars(RunOnce(w)) /\ WF_vars(Restart(w))
  /\ \A j \in Job : WF_vars(LeaseExpires(j))

FairSpec == Spec /\ Fairness

-----------------------------------------------------------------------------
(* Messages that have left the window and are in no summary.               *)
Gap ==
  /\ ~deleted
  /\ Len(messages) > Trigger
  /\ count < Len(messages) - Window

(* A handler that is bound to close the gap if nothing fails.              *)
WillClose(w) ==
  \/ handler[w] \in {"started", "loaded"}
  \/ /\ handler[w] = "asking"
     /\ already[w] + Len(toFold[w]) >= Len(messages) - Window

(* A row no runner works on that its lease will give back.                 *)
Orphan(j) ==
  /\ status[j] = "processing"
  /\ attempts[j] < MaxAttempts
  /\ \A w \in Worker : ~Queue!RunBy(w, j)

(* The retries of some job are used up.                                    *)
GaveUp ==
  \E j \in Job :
    \/ status[j] = "failed"
    \/ /\ status[j] = "processing"
       /\ attempts[j] >= MaxAttempts
       /\ \A w \in Worker : ~Queue!RunBy(w, j)

(* No wakeup is lost: whenever there is a gap, somebody is going to close  *)
(* it: a request about to enqueue, a pending job, a handler that will read *)
(* these messages or an orphan.  The dedup of enqueue against a pending    *)
(* job and the count a request loaded before its turn must not break this. *)
(* With one runner it holds unless an enqueue was cut off or a job gave up.*)
GapIsAttendedTo ==
  Gap =>
    \/ \E c \in Chat : chat[c] \in {"committed", "enqueuing"}
    \/ \E j \in Job : status[j] = "pending" \/ Orphan(j)
    \/ \E w \in Worker : WillClose(w)
    \/ dropped
    \/ GaveUp

(* With one runner every gap is closed in the end, through failures,       *)
(* crashes and lease expiry, with the same exceptions and as long as the   *)
(* lease reclaim does not raise for ever.                                  *)
GapCloses ==
  []<>~Queue!Wedged => (Gap ~> (~Gap \/ dropped \/ GaveUp))

-----------------------------------------------------------------------------
(* README.md:58-59, "the job runner folds the newly-aged-out messages into *)
(* conversations.rolling_summary", for two runners: no summary written     *)
(* later takes a fold back and leaves it at that.                          *)
AgedOutGetsFolded ==
  []<>~Queue!Wedged => (Gap ~> (~Gap \/ dropped \/ GaveUp))
=============================================================================
