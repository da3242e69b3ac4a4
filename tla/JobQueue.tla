------------------------------ MODULE JobQueue ------------------------------
(***************************************************************************)
(* The PostgreSQL job queue of app/jobs: the table background_jobs, the    *)
(* repository that enqueues, claims and settles rows, and the runner       *)
(* processes (python -m app.jobs) that poll it.                            *)
(*                                                                         *)
(* Every statement runs at READ COMMITTED.  A claim is one transaction of  *)
(* three statements (lease reclaim, SELECT ... FOR UPDATE SKIP LOCKED,     *)
(* UPDATE + COMMIT) and is three steps here; the other operations are one  *)
(* statement followed by a commit and are one step.  A statement that      *)
(* PostgreSQL makes wait on a row or index lock is a step that is not      *)
(* enabled until the lock is gone.                                         *)
(***************************************************************************)
EXTENDS Naturals

CONSTANTS
  Worker,         \* runner processes
  Job,            \* rows that may ever be inserted; their order is created_at
  Conversation,   \* values of payload->>'conversation_id'
  NoJob,          \* Python's None in the runner's local variable job
  NoConversation, \* payload of a row that is not inserted yet
  MaxAttempts,    \* settings.worker_max_attempts
  MaxCrashes,     \* bound: how many times a runner is killed from outside
  SlowHandlers    \* may a handler outlive settings.worker_lease_seconds?

ASSUME JobQueueAssumption ==
  /\ Job \subseteq Nat
  /\ NoJob \notin Job
  /\ NoConversation \notin Conversation
  /\ MaxAttempts \in Nat \ {0}
  /\ MaxCrashes \in Nat
  /\ SlowHandlers \in BOOLEAN

VARIABLES
  status,     \* column status; "absent" before the INSERT commits
  attempts,   \* column attempts
  payload,    \* column payload, reduced to its conversation id
  expired,    \* is updated_at older than the lease cut-off?
  pc,         \* where each runner is in run_once
  job,        \* the runner's local variable job
  seen,       \* job.attempts as the runner's SELECT loaded it
  reclaimed,  \* rows the runner's open transaction has taken back
  claims,     \* history: committed claims of each row
  crashes     \* bound on Crash

rowVars == <<status, attempts, payload, expired>>
workerVars == <<pc, job, seen, reclaimed>>
vars == <<rowVars, workerVars, claims, crashes>>

Status == {"absent", "pending", "processing", "done", "failed"}

(* "down": killed from outside.  "raised": an exception left run_once, so  *)
(* main()'s loop and the process are gone.                                 *)
Location == {"idle", "selecting", "claiming", "running", "down", "raised"}

TypeOK ==
  /\ status \in [Job -> Status]
  /\ attempts \in [Job -> Nat]
  /\ payload \in [Job -> Conversation \cup {NoConversation}]
  /\ expired \in [Job -> BOOLEAN]
  /\ pc \in [Worker -> Location]
  /\ job \in [Worker -> Job \cup {NoJob}]
  /\ seen \in [Worker -> Nat]
  /\ reclaimed \in [Worker -> SUBSET Job]
  /\ claims \in [Job -> Nat]
  /\ crashes \in 0..MaxCrashes

Init ==
  /\ status = [j \in Job |-> "absent"]
  /\ attempts = [j \in Job |-> 0]
  /\ payload = [j \in Job |-> NoConversation]
  /\ expired = [j \in Job |-> FALSE]
  /\ pc = [w \in Worker |-> "idle"]
  /\ job = [w \in Worker |-> NoJob]
  /\ seen = [w \in Worker |-> 0]
  /\ reclaimed = [w \in Worker |-> {}]
  /\ claims = [j \in Job |-> 0]
  /\ crashes = 0

-----------------------------------------------------------------------------
(* Definitions whose comment begins "Mutant" are deliberate mistakes:      *)
(* each, put in the place of the definition after it, must make one of the *)
(* properties fail.                                                        *)

(* Mutant of RetryStatus: a status the CHECK on the column does not know.  *)
RetryUnknown(j) == IF attempts[j] >= MaxAttempts THEN "failed" ELSE "retrying"

(* Mutant of RetryStatus: one attempt too many.                            *)
RetryOnceMore(j) == IF attempts[j] > MaxAttempts THEN "failed" ELSE "pending"

(* The CASE expression shared by the lease reclaim and by mark_failed.     *)
RetryStatus(j) == IF attempts[j] >= MaxAttempts THEN "failed" ELSE "pending"

SamePayload(j, k) == j # k /\ payload[j] = payload[k]

(* The partial unique index on the payload of pending rows.                *)
PendingTwin(j) == \E k \in Job : SamePayload(j, k) /\ status[k] = "pending"

(* Mutant of StaleJobs: no lease, as README.md:67-70 still says.           *)
NoLease == {}

(* The WHERE clause of the lease reclaim.                                  *)
StaleJobs == {j \in Job : status[j] = "processing" /\ expired[j]}

RetriedStale == {j \in StaleJobs : RetryStatus(j) = "pending"}

(* The lease reclaim is one UPDATE: it fails as a whole if any row it      *)
(* returns to pending meets another pending row of the same payload.       *)
ReclaimConflict ==
  \E j \in RetriedStale :
     PendingTwin(j) \/ \E k \in RetriedStale : SamePayload(j, k)

(* w's open transaction holds a lock on row j.                             *)
Locks(w, j) == j \in reclaimed[w] \/ (pc[w] = "claiming" /\ job[w] = j)

LockedByOther(w, j) == \E v \in Worker \ {w} : Locks(v, j)

(* An uncommitted index entry for conversation c: an INSERT or UPDATE that *)
(* would add a second one waits for that transaction to end.               *)
IndexBusy(c) ==
  \E w \in Worker : \E j \in reclaimed[w] :
     payload[j] = c /\ RetryStatus(j) = "pending"

-----------------------------------------------------------------------------
(* Mutant of Enqueue: no ON CONFLICT clause.                               *)
EnqueueAlways(j, c) ==
  /\ status[j] = "absent"
  /\ status' = [status EXCEPT ![j] = "pending"]
  /\ payload' = [payload EXCEPT ![j] = c]
  /\ UNCHANGED <<attempts, expired, workerVars, claims, crashes>>

(* JobRepository.enqueue and the commit that follows it.  With a pending   *)
(* row for c, ON CONFLICT DO NOTHING leaves the table as it is.            *)
Enqueue(j, c) ==
  /\ status[j] = "absent"
  /\ ~IndexBusy(c)
  /\ ~\E k \in Job : status[k] = "pending" /\ payload[k] = c
  /\ status' = [status EXCEPT ![j] = "pending"]
  /\ payload' = [payload EXCEPT ![j] = c]
  /\ UNCHANGED <<attempts, expired, workerVars, claims, crashes>>

(* claim_next, first statement: _reclaim_stale_jobs.                       *)
Reclaim(w) ==
  /\ pc[w] = "idle"
  /\ \A j \in StaleJobs : ~LockedByOther(w, j)
  /\ ~ReclaimConflict
  /\ reclaimed' = [reclaimed EXCEPT ![w] = StaleJobs]
  /\ pc' = [pc EXCEPT ![w] = "selecting"]
  /\ UNCHANGED <<rowVars, job, seen, claims, crashes>>

(* The same statement when the unique index refuses it: claim_next is      *)
(* called outside run_once's try, so the exception ends the process.       *)
ReclaimRaises(w) ==
  /\ pc[w] = "idle"
  /\ \A j \in StaleJobs : ~LockedByOther(w, j)
  /\ ReclaimConflict
  /\ pc' = [pc EXCEPT ![w] = "raised"]
  /\ UNCHANGED <<rowVars, job, seen, reclaimed, claims, crashes>>

(* Two runners run the same statement at once and lock the stale rows in   *)
(* different orders.  PostgreSQL breaks the deadlock: it cancels the       *)
(* statement of w, which ends that process, and v's goes through.          *)
ReclaimDeadlock(w, v) ==
  /\ w # v
  /\ pc[w] = "idle" /\ pc[v] = "idle"
  /\ \E j, k \in StaleJobs : j # k
  /\ \A j \in StaleJobs : ~LockedByOther(v, j)
  /\ ~ReclaimConflict
  /\ reclaimed' = [reclaimed EXCEPT ![v] = StaleJobs]
  /\ pc' = [pc EXCEPT ![w] = "raised", ![v] = "selecting"]
  /\ UNCHANGED <<rowVars, job, seen, claims, crashes>>

(* What w's transaction sees: committed rows under its own update.         *)
ViewStatus(w, j) == IF j \in reclaimed[w] THEN RetryStatus(j) ELSE status[j]

(* Mutant of Claimable: the SELECT takes no row locks.                     *)
ClaimableUnlocked(w) == {j \in Job : ViewStatus(w, j) = "pending"}

(* Mutant of Claimable: only rows that were never tried.                   *)
ClaimableFresh(w) ==
  {j \in Job : /\ ViewStatus(w, j) = "pending"
               /\ attempts[j] = 0
               /\ ~LockedByOther(w, j)}

Claimable(w) ==
  {j \in Job : ViewStatus(w, j) = "pending" /\ ~LockedByOther(w, j)}

(* claim_next, second statement: oldest pending row, SKIP LOCKED.          *)
SelectNext(w) ==
  /\ pc[w] = "selecting"
  /\ \E j \in Claimable(w) :
       /\ \A k \in Claimable(w) : j <= k
       /\ job' = [job EXCEPT ![w] = j]
       /\ seen' = [seen EXCEPT ![w] = attempts[j]]
  /\ pc' = [pc EXCEPT ![w] = "claiming"]
  /\ UNCHANGED <<rowVars, reclaimed, claims, crashes>>

(* claim_next returns None without a commit and the session is closed: the *)
(* reclaim of the first statement is rolled back with the transaction.     *)
NothingPending(w) ==
  /\ pc[w] = "selecting"
  /\ Claimable(w) = {}
  /\ reclaimed' = [reclaimed EXCEPT ![w] = {}]
  /\ pc' = [pc EXCEPT ![w] = "idle"]
  /\ UNCHANGED <<rowVars, job, seen, claims, crashes>>

(* claim_next, third statement: status and attempts of the chosen row, and *)
(* the commit that also publishes the reclaimed rows.                      *)
CommitClaim(w) ==
  /\ pc[w] = "claiming"
  /\ status' = [j \in Job |->
                  IF j = job[w] THEN "processing" ELSE ViewStatus(w, j)]
  /\ attempts' = [attempts EXCEPT ![job[w]] = seen[w] + 1]
  /\ expired' = [j \in Job |-> IF Locks(w, j) THEN FALSE ELSE expired[j]]
  /\ claims' = [claims EXCEPT ![job[w]] = @ + 1]
  /\ reclaimed' = [reclaimed EXCEPT ![w] = {}]
  /\ pc' = [pc EXCEPT ![w] = "running"]
  /\ UNCHANGED <<payload, job, seen, crashes>>

(* The handler returned: mark_done.  It names the row by id only, whatever *)
(* has become of the row since the claim.                                  *)
MarkDone(w) ==
  /\ pc[w] = "running"
  /\ ~LockedByOther(w, job[w])
  /\ status' = [status EXCEPT ![job[w]] = "done"]
  /\ expired' = [expired EXCEPT ![job[w]] = FALSE]
  /\ pc' = [pc EXCEPT ![w] = "idle"]
  /\ job' = [job EXCEPT ![w] = NoJob]
  /\ UNCHANGED <<attempts, payload, seen, reclaimed, claims, crashes>>

(* Mutant of MarkFailed: every failure is retried.                         *)
MarkFailedRetries(w) ==
  /\ pc[w] = "running"
  /\ ~LockedByOther(w, job[w])
  /\ ~IndexBusy(payload[job[w]])
  /\ ~PendingTwin(job[w])
  /\ status' = [status EXCEPT ![job[w]] = "pending"]
  /\ expired' = [expired EXCEPT ![job[w]] = FALSE]
  /\ pc' = [pc EXCEPT ![w] = "idle"]
  /\ job' = [job EXCEPT ![w] = NoJob]
  /\ UNCHANGED <<attempts, payload, seen, reclaimed, claims, crashes>>

(* The handler raised: mark_failed, unless the unique index refuses it.    *)
MarkFailed(w) ==
  /\ pc[w] = "running"
  /\ ~LockedByOther(w, job[w])
  /\ RetryStatus(job[w]) = "pending" =>
       ~IndexBusy(payload[job[w]]) /\ ~PendingTwin(job[w])
  /\ status' = [status EXCEPT ![job[w]] = RetryStatus(job[w])]
  /\ expired' = [expired EXCEPT ![job[w]] = FALSE]
  /\ pc' = [pc EXCEPT ![w] = "idle"]
  /\ job' = [job EXCEPT ![w] = NoJob]
  /\ UNCHANGED <<attempts, payload, seen, reclaimed, claims, crashes>>

(* mark_failed refused: it runs inside run_once's except block, so the new *)
(* exception ends the process and the row keeps its status.                *)
MarkFailedRaises(w) ==
  /\ pc[w] = "running"
  /\ ~LockedByOther(w, job[w])
  /\ RetryStatus(job[w]) = "pending"
  /\ ~IndexBusy(payload[job[w]])
  /\ PendingTwin(job[w])
  /\ pc' = [pc EXCEPT ![w] = "raised"]
  /\ job' = [job EXCEPT ![w] = NoJob]
  /\ UNCHANGED <<rowVars, seen, reclaimed, claims, crashes>>

-----------------------------------------------------------------------------
(* The process is killed; PostgreSQL rolls its open transaction back.      *)
Crash(w) ==
  /\ pc[w] \notin {"down", "raised"}
  /\ crashes < MaxCrashes
  /\ crashes' = crashes + 1
  /\ pc' = [pc EXCEPT ![w] = "down"]
  /\ job' = [job EXCEPT ![w] = NoJob]
  /\ reclaimed' = [reclaimed EXCEPT ![w] = {}]
  /\ UNCHANGED <<rowVars, seen, claims>>

(* python -m app.jobs is started again.                                    *)
Restart(w) ==
  /\ pc[w] \in {"down", "raised"}
  /\ pc' = [pc EXCEPT ![w] = "idle"]
  /\ UNCHANGED <<rowVars, job, seen, reclaimed, claims, crashes>>

RunBy(w, j) == pc[w] = "running" /\ job[w] = j

(* worker_lease_seconds pass since the row was last updated.               *)
LeaseExpires(j) ==
  /\ status[j] = "processing"
  /\ ~expired[j]
  /\ SlowHandlers \/ \A w \in Worker : ~RunBy(w, j)
  /\ expired' = [expired EXCEPT ![j] = TRUE]
  /\ UNCHANGED <<status, attempts, payload, workerVars, claims, crashes>>

RunOnce(w) ==
  \/ Reclaim(w)
  \/ ReclaimRaises(w)
  \/ SelectNext(w)
  \/ NothingPending(w)
  \/ CommitClaim(w)
  \/ MarkDone(w)
  \/ MarkFailed(w)
  \/ MarkFailedRaises(w)

Next ==
  \/ \E j \in Job, c \in Conversation : Enqueue(j, c)
  \/ \E w \in Worker : RunOnce(w) \/ Crash(w) \/ Restart(w)
  \/ \E w, v \in Worker : ReclaimDeadlock(w, v)
  \/ \E j \in Job : LeaseExpires(j)

Spec == Init /\ [][Next]_vars

(* A runner that is up keeps going: main() loops for ever, every await in  *)
(* run_once ends (statements, and LLM calls under the SDK's timeout), and  *)
(* a runner that is down is started again.  Clocks advance.  Nothing is    *)
(* assumed of Enqueue and Crash.                                           *)
Fairness ==
  /\ \A w \in Worker : WF_vars(RunOnce(w)) /\ WF_vars(Restart(w))
  /\ \A j \in Job : WF_vars(LeaseExpires(j))

FairSpec == Spec /\ Fairness
-----------------------------------------------------------------------------
(* Safety. *)

(* idx_background_jobs_pending_dedup and the ON CONFLICT clause written    *)
(* for it: no conversation has two pending jobs, whichever of enqueue,     *)
(* reclaim and mark_failed makes a row pending.                            *)
OnePendingPerConversation ==
  \A j, k \in Job :
    status[j] = "pending" /\ status[k] = "pending" /\ payload[j] = payload[k]
      => j = k

(* job.attempts += 1 writes a value computed in Python from the SELECT: no *)
(* claim is lost although other runners claim, reclaim and settle the same *)
(* row between that SELECT and the COMMIT.                                 *)
NoClaimIsLost == \A j \in Job : attempts[j] = claims[j]

(* A row is never tried more than worker_max_attempts times, is pending    *)
(* only with tries left and failed only with none left.                    *)
RetryBudget ==
  \A j \in Job :
    /\ status[j] = "absent" => attempts[j] = 0
    /\ attempts[j] <= MaxAttempts
    /\ status[j] = "pending" => attempts[j] < MaxAttempts
    /\ status[j] = "failed" => attempts[j] = MaxAttempts

(* If no handler outlives its lease, the claim is exclusive: while a       *)
(* runner works on a row, the row is processing, not stale and its alone.  *)
ClaimIsExclusive ==
  ~SlowHandlers =>
    \A w \in Worker :
      pc[w] = "running" =>
        /\ status[job[w]] = "processing"
        /\ ~expired[job[w]]
        /\ \A v \in Worker : RunBy(v, job[w]) => v = w

(* A failed row is never tried again: only the late success of a runner    *)
(* that lost its lease still changes it.                                   *)
FailedIsFinal ==
  [][\A j \in Job : status[j] = "failed" => status'[j] \in {"failed", "done"}]_vars

(* If no handler outlives its lease, a finished row is never touched again *)
(* although mark_failed and mark_done name it by id only.                  *)
DoneIsFinal == [][\A j \in Job : status[j] = "done" => status'[j] = "done"]_vars

(* The queue implements the life cycle of its rows.                        *)
Lifecycle == INSTANCE JobLifecycle WITH LateResults <- SlowHandlers

ImplementsLifecycle == Lifecycle!Spec

-----------------------------------------------------------------------------
(* The inductive invariant behind the safety properties. *)

(* What a runner's local variables say of the table.                       *)
LocalsAgree ==
  \A w \in Worker :
    /\ pc[w] \in {"claiming", "running"} => job[w] \in Job
    /\ pc[w] = "running" => status[job[w]] # "absent"
    /\ pc[w] = "claiming" =>
         ViewStatus(w, job[w]) = "pending" /\ seen[w] = attempts[job[w]]
    /\ pc[w] \notin {"selecting", "claiming"} => reclaimed[w] = {}
    /\ reclaimed[w] \subseteq StaleJobs

LocksExclude ==
  \A v, w \in Worker : \A j \in Job : Locks(v, j) /\ Locks(w, j) => v = w

(* Pending now, or as soon as the transaction that took it back commits.   *)
InIndex(j) ==
  \/ status[j] = "pending"
  \/ RetryStatus(j) = "pending" /\ \E w \in Worker : j \in reclaimed[w]

IndexUnique ==
  \A j, k \in Job :
    InIndex(j) /\ InIndex(k) /\ payload[j] = payload[k] => j = k

(* Rows locked by a claim are what the claim saw, no row is locked twice,  *)
(* and the unique index holds with the uncommitted entries counted in.     *)
TransactionsIsolated == LocalsAgree /\ LocksExclude /\ IndexUnique

IndInv ==
  TypeOK /\ TransactionsIsolated /\ NoClaimIsLost /\ RetryBudget /\ ClaimIsExclusive

-----------------------------------------------------------------------------
(* Liveness. *)

(* The lease reclaim can only raise: every runner dies on its next poll.   *)
Wedged == ReclaimConflict

(* Unless the queue stays wedged for ever, a pending row is claimed.       *)
PendingIsServed ==
  []<>~Wedged => \A j \in Job : status[j] = "pending" ~> status[j] # "pending"

(* Unless the queue stays wedged for ever, a row with tries left does not  *)
(* stay processing: its runner settles it, or its lease runs out and a     *)
(* runner takes it back and claims it or something older.                  *)
RetriableIsReclaimed ==
  []<>~Wedged =>
    \A j \in Job : \A n \in 1..(MaxAttempts - 1) :
      status[j] = "processing" /\ attempts[j] = n
        ~> ~(status[j] = "processing" /\ attempts[j] = n)

-----------------------------------------------------------------------------
(* Statements of the documentation and the tests that the code refutes.    *)

(* tests/test_jobs.py:163 permanently_fails_stale_job_past_max_attempts.   *)
ExhaustedBecomesFailed ==
  \A j \in Job :
    j \in StaleJobs /\ attempts[j] >= MaxAttempts ~> status[j] \in {"failed", "done"}

(* tests/test_jobs.py:138 claim_next_reclaims_stale_processing_job: a      *)
(* stale row with tries left is taken back.                                *)
StaleIsReclaimed == \A j \in Job : j \in RetriedStale ~> j \notin RetriedStale
=============================================================================
