--------------------------- MODULE JobQueueProofs ---------------------------
(***************************************************************************)
(* Proofs about JobQueue for any runners, jobs, conversations and bounds.  *)
(***************************************************************************)
EXTENDS JobQueue, TLAPS

(* Assigning a value of the right type keeps a function's type; it leaves  *)
(* the function alone when the index is outside its domain.                *)
LEMMA Update ==
  ASSUME NEW S, NEW T, NEW f \in [S -> T], NEW x, NEW y, x \in S => y \in T
  PROVE  [f EXCEPT ![x] = y] \in [S -> T]
OBVIOUS

LEMMA Increment ==
  ASSUME NEW S, NEW f \in [S -> Nat], NEW x
  PROVE  [f EXCEPT ![x] = f[x] + 1] \in [S -> Nat]
<1>1. CASE x \in S
  <2>1. f[x] + 1 \in Nat
    BY <1>1
  <2> QED
    BY <2>1
<1>2. CASE x \notin S
  BY <1>2
<1> QED
  BY <1>1, <1>2

LEMMA TypeStep == TypeOK /\ [Next]_vars => TypeOK'
<1> SUFFICES ASSUME TypeOK, [Next]_vars PROVE TypeOK'
  OBVIOUS
<1> USE JobQueueAssumption DEF TypeOK, Status, Location, rowVars, workerVars
<1>1. ASSUME NEW j \in Job, NEW c \in Conversation, Enqueue(j, c) PROVE TypeOK'
  BY <1>1 DEF Enqueue
<1>2. ASSUME NEW w \in Worker, Reclaim(w) PROVE TypeOK'
  BY <1>2 DEF Reclaim, StaleJobs
<1>3. ASSUME NEW w \in Worker, ReclaimRaises(w) PROVE TypeOK'
  BY <1>3 DEF ReclaimRaises
<1>4. ASSUME NEW w \in Worker, SelectNext(w) PROVE TypeOK'
  BY <1>4 DEF SelectNext, Claimable
<1>5. ASSUME NEW w \in Worker, NothingPending(w) PROVE TypeOK'
  BY <1>5 DEF NothingPending
<1>6. ASSUME NEW w \in Worker, CommitClaim(w) PROVE TypeOK'
  <2>1. expired' \in [Job -> BOOLEAN]
    BY <1>6 DEF CommitClaim
  <2>2. status' \in [Job -> Status]
    BY <1>6 DEF CommitClaim, ViewStatus, RetryStatus
  <2>3. attempts' \in [Job -> Nat]
    <3>1. seen[w] + 1 \in Nat
      OBVIOUS
    <3> QED
      BY <1>6, <3>1 DEF CommitClaim
  <2>4. claims' \in [Job -> Nat]
    <3>1. claims' = [claims EXCEPT ![job[w]] = claims[job[w]] + 1]
      BY <1>6 DEF CommitClaim
    <3>2. claims \in [Job -> Nat]
      OBVIOUS
    <3> HIDE DEF TypeOK
    <3> QED
      BY <3>1, <3>2, Increment
  <2> QED
    BY <1>6, <2>1, <2>2, <2>3, <2>4 DEF CommitClaim
<1>7. ASSUME NEW w \in Worker, MarkDone(w) PROVE TypeOK'
  BY <1>7 DEF MarkDone
<1>8. ASSUME NEW w \in Worker, MarkFailed(w) PROVE TypeOK'
  BY <1>8 DEF MarkFailed, RetryStatus
<1>9. ASSUME NEW w \in Worker, MarkFailedRaises(w) PROVE TypeOK'
  BY <1>9 DEF MarkFailedRaises
<1>10. ASSUME NEW w \in Worker, Crash(w) PROVE TypeOK'
  BY <1>10 DEF Crash
<1>11. ASSUME NEW w \in Worker, Restart(w) PROVE TypeOK'
  BY <1>11 DEF Restart
<1>12. ASSUME NEW j \in Job, LeaseExpires(j) PROVE TypeOK'
  BY <1>12 DEF LeaseExpires
<1>13. ASSUME NEW w \in Worker, NEW v \in Worker, ReclaimDeadlock(w, v) PROVE TypeOK'
  BY <1>13 DEF ReclaimDeadlock, StaleJobs
<1>14. CASE UNCHANGED vars
  BY <1>14 DEF vars
<1> QED
  BY <1>1, <1>2, <1>3, <1>4, <1>5, <1>6, <1>7, <1>8, <1>9, <1>10, <1>11,
     <1>12, <1>13, <1>14 DEF Next, RunOnce

(* Every row, local variable and lock of the queue stays in its type.      *)
THEOREM TypeCorrect == Spec => []TypeOK
<1>1. Init => TypeOK
  BY JobQueueAssumption DEF Init, TypeOK, Status, Location
<1> QED
  BY <1>1, TypeStep, PTL DEF Spec

-----------------------------------------------------------------------------
(* Each action preserves the inductive invariant.  The parts besides the   *)
(* types are proved action by action.                                      *)
Rest == TransactionsIsolated /\ NoClaimIsLost /\ RetryBudget /\ ClaimIsExclusive

LEMMA EnqueueStep ==
  ASSUME IndInv, TypeOK', NEW j \in Job, NEW c \in Conversation, Enqueue(j, c)
  PROVE  Rest'
<1> USE JobQueueAssumption DEF IndInv, TransactionsIsolated
<1>1. /\ status[j] = "absent" /\ status'[j] = "pending" /\ payload'[j] = c
      /\ \A k \in Job \ {j} : status'[k] = status[k] /\ payload'[k] = payload[k]
      /\ UNCHANGED <<attempts, expired, pc, job, seen, reclaimed, claims>>
  BY DEF Enqueue, TypeOK, workerVars
<1>2. \A w \in Worker : j \notin reclaimed[w]
  BY <1>1 DEF LocalsAgree, StaleJobs
<1>3. LocalsAgree'
  <2>1. \A w \in Worker : reclaimed[w] \subseteq StaleJobs'
    BY <1>1, <1>2 DEF LocalsAgree, StaleJobs
  <2>2. \A w \in Worker : pc[w] = "claiming" => job[w] # j
    BY <1>1, <1>2 DEF LocalsAgree, ViewStatus
  <2>3. \A w \in Worker : pc[w] = "claiming" => ViewStatus(w, job[w])' = "pending"
    BY <1>1, <2>2 DEF LocalsAgree, ViewStatus, RetryStatus
  <2> QED
    BY <1>1, <2>1, <2>3 DEF LocalsAgree
<1>4. LocksExclude'
  BY <1>1 DEF LocksExclude, Locks
<1>5. IndexUnique'
  <2>1. \A k \in Job \ {j} : InIndex(k)' = InIndex(k)
    BY <1>1 DEF InIndex, RetryStatus
  <2>2. \A k \in Job \ {j} : InIndex(k) => payload[k] # c
    BY DEF Enqueue, InIndex, IndexBusy
  <2> QED
    BY <1>1, <2>1, <2>2 DEF IndexUnique
<1>6. NoClaimIsLost' /\ RetryBudget'
  BY <1>1 DEF NoClaimIsLost, RetryBudget, TypeOK
<1>7. ClaimIsExclusive'
  BY <1>1 DEF ClaimIsExclusive, RunBy, LocalsAgree
<1> QED
  BY <1>3, <1>4, <1>5, <1>6, <1>7 DEF Rest

(* A runner's lease reclaim goes through; others may lose theirs to it.    *)
LEMMA ReclaimStep ==
  ASSUME IndInv, TypeOK', NEW w \in Worker,
         \A j \in StaleJobs : ~LockedByOther(w, j),
         ~ReclaimConflict,
         pc[w] = "idle", pc'[w] = "selecting", reclaimed'[w] = StaleJobs,
         \A v \in Worker \ {w} :
           /\ pc'[v] = pc[v] \/ (pc[v] = "idle" /\ pc'[v] = "raised")
           /\ reclaimed'[v] = reclaimed[v],
         UNCHANGED <<status, attempts, payload, expired, job, seen, claims>>
  PROVE  Rest'
<1> USE JobQueueAssumption DEF IndInv, TransactionsIsolated
<1>1. \A v \in Worker : reclaimed[v] = {}
  BY DEF LocalsAgree, LockedByOther, Locks
<1>2. LocalsAgree'
  BY <1>1 DEF LocalsAgree, ViewStatus, RetryStatus, StaleJobs
<1>3. LocksExclude'
  <2>1. \A v \in Worker \ {w}, k \in Job : Locks(v, k)' = Locks(v, k)
    BY DEF Locks
  <2>2. \A k \in Job : Locks(w, k)' => k \in StaleJobs
    BY DEF Locks
  <2>3. \A v \in Worker \ {w}, k \in StaleJobs : ~Locks(v, k)
    BY DEF LockedByOther
  <2> QED
    BY <2>1, <2>2, <2>3 DEF LocksExclude
<1>4. IndexUnique'
  <2>1. \A k \in Job : InIndex(k)' => status[k] = "pending" \/ k \in RetriedStale
    BY <1>1 DEF InIndex, RetryStatus, RetriedStale
  <2>2. \A k \in Job : status[k] = "pending" => InIndex(k)
    BY DEF InIndex
  <2>3. ~ReclaimConflict
    OBVIOUS
  <2>4. RetriedStale \subseteq Job
    BY DEF RetriedStale, StaleJobs
  <2>5. payload' = payload
    OBVIOUS
  <2> QED
    BY <2>1, <2>2, <2>3, <2>4, <2>5
       DEF IndexUnique, ReclaimConflict, PendingTwin, SamePayload
<1>5. NoClaimIsLost' /\ RetryBudget'
  BY DEF NoClaimIsLost, RetryBudget
<1>6. ClaimIsExclusive'
  BY DEF ClaimIsExclusive, RunBy
<1> QED
  BY <1>2, <1>3, <1>4, <1>5, <1>6 DEF Rest

LEMMA SelectNextStep ==
  ASSUME IndInv, TypeOK', NEW w \in Worker, SelectNext(w)
  PROVE  Rest'
<1> USE JobQueueAssumption DEF IndInv, TransactionsIsolated
<1>1. PICK j \in Claimable(w) :
        job' = [job EXCEPT ![w] = j] /\ seen' = [seen EXCEPT ![w] = attempts[j]]
  BY DEF SelectNext
<1>2. /\ j \in Job /\ ViewStatus(w, j) = "pending" /\ ~LockedByOther(w, j)
      /\ pc[w] = "selecting" /\ pc'[w] = "claiming"
      /\ job'[w] = j /\ seen'[w] = attempts[j]
      /\ \A v \in Worker \ {w} :
           pc'[v] = pc[v] /\ job'[v] = job[v] /\ seen'[v] = seen[v]
      /\ UNCHANGED <<status, attempts, payload, expired, reclaimed, claims>>
  BY <1>1 DEF SelectNext, Claimable, TypeOK, rowVars
<1>3. LocalsAgree'
  <2>1. \A v \in Worker, k \in Job : ViewStatus(v, k)' = ViewStatus(v, k)
    BY <1>2 DEF ViewStatus, RetryStatus
  <2>2. StaleJobs' = StaleJobs
    BY <1>2 DEF StaleJobs
  <2> QED
    BY <1>2, <2>1, <2>2 DEF LocalsAgree
<1>4. LocksExclude'
  <2>1. \A v \in Worker \ {w}, k \in Job : Locks(v, k)' = Locks(v, k)
    BY <1>2 DEF Locks
  <2>2. \A k \in Job : Locks(w, k)' => Locks(w, k) \/ k = j
    BY <1>2 DEF Locks
  <2> QED
    BY <1>2, <2>1, <2>2 DEF LocksExclude, LockedByOther
<1>5. IndexUnique'
  BY <1>2 DEF IndexUnique, InIndex, RetryStatus
<1>6. NoClaimIsLost' /\ RetryBudget'
  BY <1>2 DEF NoClaimIsLost, RetryBudget
<1>7. ClaimIsExclusive'
  BY <1>2 DEF ClaimIsExclusive, RunBy
<1> QED
  BY <1>3, <1>4, <1>5, <1>6, <1>7 DEF Rest

(* A runner that lets go of its transaction and its job and writes no row. *)
LEMMA ReleaseStep ==
  ASSUME IndInv, TypeOK', NEW w \in Worker,
         pc'[w] \notin {"claiming", "running"}, reclaimed'[w] = {},
         \A v \in Worker \ {w} :
           /\ pc'[v] = pc[v] /\ job'[v] = job[v]
           /\ seen'[v] = seen[v] /\ reclaimed'[v] = reclaimed[v],
         UNCHANGED <<status, attempts, payload, expired, claims>>
  PROVE  Rest'
<1> USE JobQueueAssumption DEF IndInv, TransactionsIsolated
<1>1. LocalsAgree'
  <2>1. StaleJobs' = StaleJobs
    BY DEF StaleJobs
  <2>2. \A v \in Worker \ {w} :
          pc[v] = "claiming" => ViewStatus(v, job[v])' = ViewStatus(v, job[v])
    BY DEF ViewStatus, RetryStatus
  <2> QED
    BY <2>1, <2>2 DEF LocalsAgree
<1>2. LocksExclude'
  BY DEF LocksExclude, Locks
<1>3. IndexUnique'
  <2>1. \A k \in Job : InIndex(k)' => InIndex(k)
    BY DEF InIndex, RetryStatus
  <2> QED
    BY <2>1 DEF IndexUnique
<1>4. NoClaimIsLost' /\ RetryBudget'
  BY DEF NoClaimIsLost, RetryBudget
<1>5. ClaimIsExclusive'
  BY DEF ClaimIsExclusive, RunBy
<1> QED
  BY <1>1, <1>2, <1>3, <1>4, <1>5 DEF Rest

(* mark_done and mark_failed: the runner's row gets the status s.          *)
LEMMA SettleStep ==
  ASSUME IndInv, TypeOK', NEW w \in Worker, NEW s,
         pc[w] = "running", ~LockedByOther(w, job[w]),
         s = "done" \/ s = RetryStatus(job[w]),
         s = "pending" =>
           \A k \in Job \ {job[w]} : InIndex(k) => payload[k] # payload[job[w]],
         status' = [status EXCEPT ![job[w]] = s],
         expired' = [expired EXCEPT ![job[w]] = FALSE],
         pc' = [pc EXCEPT ![w] = "idle"],
         job' = [job EXCEPT ![w] = NoJob],
         UNCHANGED <<attempts, payload, seen, reclaimed, claims>>
  PROVE  Rest'
<1> USE JobQueueAssumption DEF IndInv, TransactionsIsolated
<1>0. PICK j \in Job : j = job[w]
  BY DEF LocalsAgree
<1>1. /\ status'[j] = s /\ expired'[j] = FALSE /\ pc'[w] = "idle"
      /\ \A k \in Job \ {j} : status'[k] = status[k] /\ expired'[k] = expired[k]
      /\ \A v \in Worker \ {w} : pc'[v] = pc[v] /\ job'[v] = job[v]
  BY <1>0 DEF TypeOK
<1>2. s \in {"done", "failed", "pending"}
  BY DEF RetryStatus
<1>3. reclaimed[w] = {} /\ \A v \in Worker : ~Locks(v, j)
  BY <1>0 DEF LocalsAgree, LockedByOther, Locks
<1>4. LocalsAgree'
  <2>1. \A v \in Worker : reclaimed[v] \subseteq StaleJobs \ {j}
    BY <1>3 DEF LocalsAgree, Locks
  <2>2. StaleJobs \ {j} \subseteq StaleJobs'
    BY <1>1 DEF StaleJobs
  <2>3. \A v \in Worker \ {w} :
          pc[v] = "claiming" =>
            job[v] \in Job \ {j} /\ ViewStatus(v, job[v])' = ViewStatus(v, job[v])
    <3> SUFFICES ASSUME NEW v \in Worker \ {w}, pc[v] = "claiming"
                 PROVE  /\ job[v] \in Job \ {j}
                        /\ ViewStatus(v, job[v])' = ViewStatus(v, job[v])
      OBVIOUS
    <3>1. job[v] \in Job \ {j}
      BY <1>3 DEF LocalsAgree, Locks
    <3>2. status'[job[v]] = status[job[v]] /\ job'[v] = job[v]
      BY <1>1, <3>1
    <3> QED
      BY <3>1, <3>2 DEF ViewStatus, RetryStatus
  <2>4. \A v \in Worker \ {w} : pc[v] = "running" => status'[job[v]] # "absent"
    BY <1>1, <1>2 DEF LocalsAgree
  <2> QED
    <3> SUFFICES ASSUME NEW v \in Worker
                 PROVE  /\ pc'[v] \in {"claiming", "running"} => job'[v] \in Job
                        /\ pc'[v] = "running" => status'[job'[v]] # "absent"
                        /\ pc'[v] = "claiming" =>
                             /\ ViewStatus(v, job[v])' = "pending"
                             /\ seen'[v] = attempts'[job'[v]]
                        /\ pc'[v] \notin {"selecting", "claiming"} => reclaimed'[v] = {}
                        /\ reclaimed'[v] \subseteq StaleJobs'
      BY DEF LocalsAgree
    <3>1. CASE v = w
      BY <1>1, <1>3, <3>1
    <3>2. CASE v # w
      BY <1>1, <3>2, <2>1, <2>2, <2>3, <2>4 DEF LocalsAgree
    <3> QED
      BY <3>1, <3>2
<1>5. LocksExclude'
  <2>1. \A v \in Worker, k \in Job : Locks(v, k)' => Locks(v, k)
    BY <1>1 DEF Locks
  <2> QED
    BY <2>1 DEF LocksExclude
<1>6. IndexUnique'
  <2>1. \A k \in Job \ {j} : InIndex(k)' => InIndex(k)
    BY <1>1 DEF InIndex, RetryStatus
  <2>2. InIndex(j)' => s = "pending"
    BY <1>1, <1>3 DEF InIndex, Locks
  <2>3. s = "pending" => \A k \in Job \ {j} : InIndex(k) => payload[k] # payload[j]
    BY <1>0
  <2> QED
    BY <2>1, <2>2, <2>3 DEF IndexUnique
<1>7. NoClaimIsLost'
  BY DEF NoClaimIsLost
<1>8. RetryBudget'
  <2>1. s # "done" => s = RetryStatus(j)
    BY <1>0
  <2> QED
    BY <1>1, <1>2, <2>1 DEF RetryBudget, RetryStatus, TypeOK
<1>9. ClaimIsExclusive'
  <2>1. \A v \in Worker \ {w} : ~SlowHandlers /\ pc[v] = "running" => job[v] \in Job \ {j}
    BY <1>0 DEF ClaimIsExclusive, RunBy, LocalsAgree
  <2> QED
    BY <1>1, <2>1 DEF ClaimIsExclusive, RunBy
<1> QED
  BY <1>4, <1>5, <1>6, <1>7, <1>8, <1>9 DEF Rest

LEMMA CommitClaimStep ==
  ASSUME IndInv, TypeOK', NEW w \in Worker, CommitClaim(w)
  PROVE  Rest'
<1> USE JobQueueAssumption DEF IndInv, TransactionsIsolated
<1>0. PICK j \in Job : j = job[w]
  BY DEF CommitClaim, LocalsAgree
<1>1. j \in Job /\ ViewStatus(w, j) = "pending" /\ seen[w] = attempts[j]
  BY <1>0 DEF CommitClaim, LocalsAgree
<1>2. /\ status'[j] = "processing" /\ expired'[j] = FALSE
      /\ \A k \in Job \ {j} : status'[k] = ViewStatus(w, k)
      /\ \A k \in Job \ {j} : expired'[k] = IF Locks(w, k) THEN FALSE ELSE expired[k]
      /\ attempts'[j] = attempts[j] + 1 /\ claims'[j] = claims[j] + 1
      /\ \A k \in Job \ {j} : attempts'[k] = attempts[k] /\ claims'[k] = claims[k]
      /\ reclaimed'[w] = {} /\ pc[w] = "claiming" /\ pc'[w] = "running"
      /\ \A v \in Worker \ {w} : reclaimed'[v] = reclaimed[v] /\ pc'[v] = pc[v]
      /\ UNCHANGED <<payload, job, seen>>
  BY <1>0, <1>1 DEF CommitClaim, TypeOK, Locks
<1>3. Locks(w, j)
  BY <1>0, <1>2 DEF Locks
<1>4. \A v \in Worker \ {w}, k \in Job : Locks(v, k) => k # j /\ ~Locks(w, k)
  BY <1>1, <1>3 DEF LocksExclude
<1>5. attempts[j] < MaxAttempts
  <2>1. attempts[j] \in Nat /\ MaxAttempts \in Nat
    BY DEF TypeOK
  <2>2. CASE status[j] = "pending"
    BY <2>2 DEF RetryBudget
  <2>3. CASE RetryStatus(j) = "pending"
    BY <2>1, <2>3 DEF RetryStatus
  <2> QED
    BY <1>1, <2>2, <2>3 DEF ViewStatus
<1>6. LocalsAgree'
  <2>1. \A v \in Worker \ {w}, k \in Job :
          Locks(v, k) => /\ status'[k] = status[k] /\ expired'[k] = expired[k]
                         /\ attempts'[k] = attempts[k]
    BY <1>2, <1>4 DEF ViewStatus, Locks
  <2>2. \A v \in Worker \ {w}, k \in Job :
          Locks(v, k) => ViewStatus(v, k)' = ViewStatus(v, k)
    BY <1>2, <2>1 DEF ViewStatus, RetryStatus
  <2>3. \A v \in Worker : reclaimed'[v] \subseteq StaleJobs'
    <3> SUFFICES ASSUME NEW v \in Worker, NEW k \in reclaimed'[v] PROVE k \in StaleJobs'
      OBVIOUS
    <3>1. v # w /\ k \in reclaimed[v]
      BY <1>2
    <3>2. k \in StaleJobs
      BY <3>1 DEF LocalsAgree
    <3>3. k \in Job /\ Locks(v, k)
      BY <3>1, <3>2 DEF StaleJobs, Locks
    <3> QED
      BY <3>1, <3>2, <3>3, <2>1 DEF StaleJobs
  <2>4. \A v \in Worker : pc'[v] \in {"claiming", "running"} => job'[v] \in Job
    BY <1>2 DEF LocalsAgree
  <2>5. \A v \in Worker : pc'[v] = "running" => status'[job'[v]] # "absent"
    <3> SUFFICES ASSUME NEW v \in Worker, pc'[v] = "running", job[v] # j
                 PROVE  status'[job[v]] # "absent"
      BY <1>2
    <3>1. v # w
      BY <1>0
    <3>2. pc[v] = "running"
      BY <3>1, <1>2
    <3>3. job[v] \in Job \ {j} /\ status[job[v]] # "absent"
      BY <3>2 DEF LocalsAgree
    <3> QED
      BY <1>2, <3>3 DEF ViewStatus, RetryStatus
  <2>6. \A v \in Worker :
          pc'[v] = "claiming" =>
            ViewStatus(v, job[v])' = "pending" /\ seen'[v] = attempts'[job'[v]]
    <3> SUFFICES ASSUME NEW v \in Worker, pc'[v] = "claiming"
                 PROVE  ViewStatus(v, job[v])' = "pending" /\ seen'[v] = attempts'[job'[v]]
      OBVIOUS
    <3>1. v # w /\ pc[v] = "claiming"
      BY <1>2
    <3>2. /\ job[v] \in Job /\ Locks(v, job[v])
          /\ ViewStatus(v, job[v]) = "pending" /\ seen[v] = attempts[job[v]]
      BY <3>1 DEF LocalsAgree, Locks
    <3>3. attempts'[job[v]] = attempts[job[v]]
      BY <3>1, <3>2, <2>1
    <3>4. ViewStatus(v, job[v])' = "pending"
      <4>1. job'[v] = job[v]
        BY <1>2
      <4> QED
        BY <1>2, <3>1, <3>2, <2>1, <4>1 DEF ViewStatus, RetryStatus
    <3> QED
      BY <1>2, <3>2, <3>3, <3>4
  <2>7. \A v \in Worker : pc'[v] \notin {"selecting", "claiming"} => reclaimed'[v] = {}
    BY <1>2 DEF LocalsAgree
  <2> QED
    BY <1>2, <2>3, <2>4, <2>5, <2>6, <2>7 DEF LocalsAgree
<1>7. LocksExclude'
  <2>1. \A v \in Worker, k \in Job : Locks(v, k)' => Locks(v, k)
    BY <1>2 DEF Locks
  <2> QED
    BY <2>1 DEF LocksExclude
<1>8. IndexUnique'
  <2>1. \A k \in Job : InIndex(k)' => InIndex(k)
    <3> SUFFICES ASSUME NEW k \in Job, InIndex(k)' PROVE InIndex(k)
      OBVIOUS
    <3>1. k # j
      <4>1. \A v \in Worker : j \notin reclaimed'[v]
        BY <1>0, <1>2, <1>4, <1>1 DEF Locks
      <4> QED
        BY <1>2, <4>1 DEF InIndex
    <3>2. attempts'[k] = attempts[k] /\ status'[k] = ViewStatus(w, k)
      BY <3>1, <1>2
    <3> QED
      BY <1>2, <3>2 DEF InIndex, ViewStatus, RetryStatus
  <2>2. payload' = payload
    BY <1>2
  <2> QED
    BY <2>1, <2>2 DEF IndexUnique
<1>9. NoClaimIsLost'
  BY <1>2 DEF NoClaimIsLost
<1>10. RetryBudget'
  <2> SUFFICES ASSUME NEW k \in Job
               PROVE  /\ status'[k] = "absent" => attempts'[k] = 0
                      /\ attempts'[k] <= MaxAttempts
                      /\ status'[k] = "pending" => attempts'[k] < MaxAttempts
                      /\ status'[k] = "failed" => attempts'[k] = MaxAttempts
    BY DEF RetryBudget
  <2>1. CASE k = j
    BY <1>1, <1>2, <1>5, <2>1 DEF TypeOK
  <2>2. CASE k # j
    BY <1>2, <2>2 DEF RetryBudget, ViewStatus, RetryStatus, TypeOK
  <2> QED
    BY <2>1, <2>2
<1>11. ClaimIsExclusive'
  <2>1. \A v \in Worker : ~SlowHandlers /\ pc[v] = "running" =>
          job[v] \in Job \ {j} /\ ~Locks(w, job[v])
    <3> SUFFICES ASSUME ~SlowHandlers, NEW v \in Worker, pc[v] = "running"
                 PROVE  job[v] \in Job \ {j} /\ ~Locks(w, job[v])
      OBVIOUS
    <3>1. job[v] \in Job /\ status[job[v]] = "processing" /\ ~expired[job[v]]
      BY DEF ClaimIsExclusive, LocalsAgree
    <3>2. job[v] \notin reclaimed[w]
      BY <3>1 DEF LocalsAgree, StaleJobs
    <3>3. job[v] # j
      BY <3>1, <3>2, <1>1 DEF ViewStatus
    <3> QED
      BY <1>0, <3>1, <3>2, <3>3 DEF Locks
  <2>2. \A v \in Worker : ~SlowHandlers /\ pc[v] = "running" =>
          status'[job[v]] = status[job[v]] /\ expired'[job[v]] = expired[job[v]]
    BY <1>2, <2>1 DEF ViewStatus, Locks
  <2> QED
    BY <1>0, <1>2, <2>1, <2>2 DEF ClaimIsExclusive, RunBy
<1> QED
  BY <1>6, <1>7, <1>8, <1>9, <1>10, <1>11 DEF Rest

LEMMA LeaseExpiresStep ==
  ASSUME IndInv, TypeOK', NEW j \in Job, LeaseExpires(j)
  PROVE  Rest'
<1> USE JobQueueAssumption DEF IndInv, TransactionsIsolated
<1>1. /\ expired'[j] = TRUE /\ \A k \in Job \ {j} : expired'[k] = expired[k]
      /\ UNCHANGED <<status, attempts, payload, pc, job, seen, reclaimed, claims>>
  BY DEF LeaseExpires, TypeOK, workerVars
<1>2. LocalsAgree'
  BY <1>1 DEF LocalsAgree, ViewStatus, RetryStatus, StaleJobs
<1>3. LocksExclude' /\ IndexUnique' /\ NoClaimIsLost' /\ RetryBudget'
  BY <1>1 DEF LocksExclude, Locks, IndexUnique, InIndex, RetryStatus,
              NoClaimIsLost, RetryBudget
<1>4. ClaimIsExclusive'
  BY <1>1 DEF ClaimIsExclusive, RunBy, LeaseExpires, LocalsAgree
<1> QED
  BY <1>2, <1>3, <1>4 DEF Rest

-----------------------------------------------------------------------------
LEMMA InvInit == Init => IndInv
BY JobQueueAssumption
   DEF Init, IndInv, TypeOK, Status, Location, TransactionsIsolated, LocalsAgree,
       LocksExclude, Locks, IndexUnique, InIndex, NoClaimIsLost, RetryBudget,
       ClaimIsExclusive

LEMMA RunOnceStep ==
  ASSUME IndInv, TypeOK', NEW w \in Worker, RunOnce(w)
  PROVE  Rest'
<1> USE DEF IndInv, TransactionsIsolated
<1>1. CASE Reclaim(w)
  BY <1>1, ReclaimStep DEF Reclaim, TypeOK, rowVars
<1>2. CASE ReclaimRaises(w)
  <2>1. reclaimed[w] = {}
    BY <1>2 DEF ReclaimRaises, LocalsAgree
  <2> QED
    BY <1>2, <2>1, ReleaseStep DEF ReclaimRaises, TypeOK, rowVars
<1>3. CASE SelectNext(w)
  BY <1>3, SelectNextStep
<1>4. CASE NothingPending(w)
  BY <1>4, ReleaseStep DEF NothingPending, TypeOK, rowVars
<1>5. CASE CommitClaim(w)
  BY <1>5, CommitClaimStep
<1>6. CASE MarkDone(w)
  BY <1>6, SettleStep DEF MarkDone
<1>7. CASE MarkFailed(w)
  <2>1. PICK j \in Job : j = job[w]
    BY <1>7 DEF MarkFailed, LocalsAgree
  <2>2. RetryStatus(j) = "pending" =>
          \A k \in Job \ {j} : InIndex(k) => payload[k] # payload[j]
    BY <1>7, <2>1 DEF MarkFailed, InIndex, IndexBusy, PendingTwin, SamePayload
  <2> QED
    BY <1>7, <2>1, <2>2, SettleStep DEF MarkFailed
<1>8. CASE MarkFailedRaises(w)
  <2>1. reclaimed[w] = {}
    BY <1>8 DEF MarkFailedRaises, LocalsAgree
  <2> QED
    BY <1>8, <2>1, ReleaseStep DEF MarkFailedRaises, TypeOK, rowVars
<1> QED
  BY <1>1, <1>2, <1>3, <1>4, <1>5, <1>6, <1>7, <1>8 DEF RunOnce

LEMMA InvStep == IndInv /\ [Next]_vars => IndInv'
<1> SUFFICES ASSUME IndInv, [Next]_vars PROVE IndInv'
  OBVIOUS
<1>1. TypeOK'
  BY TypeStep DEF IndInv
<1>2. Rest'
  <2>1. ASSUME NEW j \in Job, NEW c \in Conversation, Enqueue(j, c) PROVE Rest'
    BY <1>1, <2>1, EnqueueStep
  <2>2. ASSUME NEW w \in Worker, RunOnce(w) PROVE Rest'
    BY <1>1, <2>2, RunOnceStep
  <2>3. ASSUME NEW w \in Worker, Crash(w) PROVE Rest'
    BY <1>1, <2>3, ReleaseStep DEF Crash, IndInv, TypeOK, rowVars
  <2>4. ASSUME NEW w \in Worker, Restart(w) PROVE Rest'
    <3>1. reclaimed[w] = {}
      BY <2>4 DEF Restart, IndInv, TransactionsIsolated, LocalsAgree
    <3> QED
      BY <1>1, <2>4, <3>1, ReleaseStep DEF Restart, IndInv, TypeOK, rowVars
  <2>5. ASSUME NEW j \in Job, LeaseExpires(j) PROVE Rest'
    BY <1>1, <2>5, LeaseExpiresStep
  <2>6. ASSUME NEW w \in Worker, NEW v \in Worker, ReclaimDeadlock(w, v) PROVE Rest'
    BY <1>1, <2>6, ReclaimStep DEF ReclaimDeadlock, IndInv, TypeOK, rowVars
  <2>7. CASE UNCHANGED vars
    <3> USE <2>7 DEF vars, rowVars, workerVars
    <3>1. TransactionsIsolated'
      BY DEF IndInv, TransactionsIsolated, LocalsAgree, LocksExclude, Locks,
             IndexUnique, InIndex, RetryStatus, ViewStatus, StaleJobs
    <3>2. NoClaimIsLost' /\ RetryBudget' /\ ClaimIsExclusive'
      BY DEF IndInv, NoClaimIsLost, RetryBudget, ClaimIsExclusive, RunBy
    <3> QED
      BY <3>1, <3>2 DEF Rest
  <2> QED
    BY <2>1, <2>2, <2>3, <2>4, <2>5, <2>6, <2>7 DEF Next
<1> QED
  BY <1>1, <1>2 DEF IndInv, Rest

(* The inductive invariant holds of every reachable state.                 *)
THEOREM Invariance == Spec => []IndInv
BY InvInit, InvStep, PTL DEF Spec

(* No conversation ever has two pending jobs, for any number of runners,   *)
(* jobs and conversations.                                                 *)
THEOREM DedupHolds == Spec => []OnePendingPerConversation
<1>1. IndInv => OnePendingPerConversation
  BY DEF IndInv, TransactionsIsolated, IndexUnique, InIndex, OnePendingPerConversation
<1> QED
  BY <1>1, Invariance, PTL

(* attempts counts every committed claim of a row: two runners that claim  *)
(* at once never count as one.                                             *)
THEOREM ClaimsCounted == Spec => []NoClaimIsLost
<1>1. IndInv => NoClaimIsLost
  BY DEF IndInv
<1> QED
  BY <1>1, Invariance, PTL

(* attempts never passes MaxAttempts; a row is pending only with tries     *)
(* left and failed only without.                                           *)
THEOREM TriesBounded == Spec => []RetryBudget
<1>1. IndInv => RetryBudget
  BY DEF IndInv
<1> QED
  BY <1>1, Invariance, PTL

(* Rows under a claim are locked by one transaction only and stay as it    *)
(* saw them until it commits.                                              *)
THEOREM Isolation == Spec => []TransactionsIsolated
<1>1. IndInv => TransactionsIsolated
  BY DEF IndInv
<1> QED
  BY <1>1, Invariance, PTL

(* Without handlers that outlive their lease, a row never has two runners. *)
THEOREM Exclusion == Spec => []ClaimIsExclusive
<1>1. IndInv => ClaimIsExclusive
  BY DEF IndInv
<1> QED
  BY <1>1, Invariance, PTL

-----------------------------------------------------------------------------
(* What a step may do to one row, from the invariant.                      *)
RowStep(j) == Lifecycle!RowStep(j)

LEMMA CommitClaimRow ==
  ASSUME IndInv, NEW w \in Worker, CommitClaim(w), NEW j \in Job
  PROVE  RowStep(j)
<1> USE JobQueueAssumption DEF IndInv, TransactionsIsolated
<1>1. /\ job[w] \in Job /\ ViewStatus(w, job[w]) = "pending"
      /\ seen[w] = attempts[job[w]] /\ reclaimed[w] \subseteq StaleJobs
  BY DEF CommitClaim, LocalsAgree
<1>2. \A k \in reclaimed[w] : status[k] = "processing"
  BY <1>1 DEF StaleJobs
<1>3. \A k \in Job : attempts[k] \in Nat
  BY DEF TypeOK
<1>4. CASE j = job[w]
  <2>1. status'[j] = "processing" /\ attempts'[j] = attempts[j] + 1
    BY <1>1, <1>4 DEF CommitClaim, TypeOK
  <2>2. attempts[j] < MaxAttempts
    BY <1>1, <1>3, <1>4 DEF ViewStatus, RetryStatus, RetryBudget
  <2>3. status[j] \in {"pending", "processing"}
    BY <1>1, <1>2, <1>4 DEF ViewStatus
  <2> QED
    BY <2>1, <2>2, <2>3 DEF RowStep, Lifecycle!RowStep, Lifecycle!Claim
<1>5. CASE j # job[w]
  <2>1. status'[j] = ViewStatus(w, j) /\ attempts'[j] = attempts[j]
    BY <1>1, <1>5 DEF CommitClaim, TypeOK
  <2>2. CASE j \in reclaimed[w]
    BY <1>2, <1>3, <2>1, <2>2
       DEF ViewStatus, RetryStatus, RowStep, Lifecycle!RowStep, Lifecycle!Retry,
           Lifecycle!GiveUp, Lifecycle!Settleable, Lifecycle!Keep
  <2>3. CASE j \notin reclaimed[w]
    BY <2>1, <2>3
       DEF ViewStatus, RowStep, Lifecycle!RowStep, Lifecycle!Rest, Lifecycle!Keep
  <2> QED
    BY <2>2, <2>3
<1> QED
  BY <1>4, <1>5

LEMMA SettleRow ==
  ASSUME IndInv, NEW w \in Worker, MarkDone(w) \/ MarkFailed(w), NEW j \in Job
  PROVE  RowStep(j)
<1> USE JobQueueAssumption DEF IndInv, TransactionsIsolated
<1>1. PICK k \in Job : k = job[w]
  BY DEF MarkDone, MarkFailed, LocalsAgree
<1>2. /\ status' = [status EXCEPT ![k] = "done"]
         \/ status' = [status EXCEPT ![k] = RetryStatus(k)]
      /\ attempts' = attempts
      /\ pc[w] = "running"
  BY <1>1 DEF MarkDone, MarkFailed
<1>3. CASE j = k
  <2>1. status'[j] \in {"done", RetryStatus(j)} /\ attempts'[j] = attempts[j]
    BY <1>2, <1>3 DEF TypeOK
  <2>2. status[j] # "absent" /\ (~SlowHandlers => status[j] = "processing")
    BY <1>1, <1>2, <1>3 DEF LocalsAgree, ClaimIsExclusive
  <2>3. Lifecycle!Settleable(j)
    BY <2>2 DEF Lifecycle!Settleable, TypeOK, Status
  <2>4. attempts[j] \in Nat
    BY DEF TypeOK
  <2> QED
    BY <2>1, <2>3, <2>4
       DEF RetryStatus, RowStep, Lifecycle!RowStep, Lifecycle!Finish,
           Lifecycle!Retry, Lifecycle!GiveUp, Lifecycle!Keep
<1>4. CASE j # k
  BY <1>2, <1>4 DEF TypeOK, RowStep, Lifecycle!RowStep, Lifecycle!Rest, Lifecycle!Keep
<1> QED
  BY <1>3, <1>4

LEMMA StepRows ==
  ASSUME IndInv, [Next]_vars, NEW j \in Job
  PROVE  RowStep(j)
<1>1. ASSUME UNCHANGED <<status, attempts>> PROVE RowStep(j)
  BY <1>1 DEF RowStep, Lifecycle!RowStep, Lifecycle!Rest, Lifecycle!Keep
<1>2. ASSUME NEW k \in Job, NEW c \in Conversation, Enqueue(k, c) PROVE RowStep(j)
  BY <1>2 DEF Enqueue, IndInv, TypeOK, RowStep, Lifecycle!RowStep, Lifecycle!Submit,
              Lifecycle!Rest, Lifecycle!Keep
<1>3. ASSUME NEW w \in Worker, RunOnce(w) PROVE RowStep(j)
  <2>1. CASE CommitClaim(w)
    BY <2>1, CommitClaimRow
  <2>2. CASE MarkDone(w) \/ MarkFailed(w)
    BY <2>2, SettleRow
  <2> QED
    BY <1>1, <1>3, <2>1, <2>2
       DEF RunOnce, Reclaim, ReclaimRaises, SelectNext, NothingPending,
           MarkFailedRaises, rowVars
<1>4. ASSUME NEW w \in Worker, Crash(w) \/ Restart(w) PROVE RowStep(j)
  BY <1>1, <1>4 DEF Crash, Restart, rowVars
<1>5. ASSUME NEW k \in Job, LeaseExpires(k) PROVE RowStep(j)
  BY <1>1, <1>5 DEF LeaseExpires
<1>6. ASSUME NEW w \in Worker, NEW v \in Worker, ReclaimDeadlock(w, v) PROVE RowStep(j)
  BY <1>1, <1>6 DEF ReclaimDeadlock, rowVars
<1>7. CASE UNCHANGED vars
  BY <1>1, <1>7 DEF vars, rowVars
<1> QED
  BY <1>2, <1>3, <1>4, <1>5, <1>6, <1>7 DEF Next

(* The queue implements the life cycle of its rows: Lifecycle takes a step *)
(* for every row, or none, whenever the queue takes one.                   *)
THEOREM Refinement == Spec => ImplementsLifecycle
<1>1. Init => Lifecycle!Init
  BY DEF Init, Lifecycle!Init
<1>2. IndInv /\ IndInv' /\ [Next]_vars => [Lifecycle!Next]_(Lifecycle!vars)
  <2> SUFFICES ASSUME IndInv, IndInv', [Next]_vars PROVE Lifecycle!Next
    OBVIOUS
  <2>1. \A j \in Job : Lifecycle!RowStep(j)
    BY StepRows DEF RowStep
  <2> QED
    BY <2>1 DEF IndInv, TypeOK, Status, Lifecycle!Next
<1> QED
  BY <1>1, <1>2, Invariance, PTL DEF Spec, ImplementsLifecycle, Lifecycle!Spec

(* Only the late success of a runner changes a failed row.                 *)
THEOREM FailureFinal == Spec => FailedIsFinal
<1>1. IndInv /\ [Next]_vars =>
        [\A j \in Job : status[j] = "failed" => status'[j] \in {"failed", "done"}]_vars
  <2> SUFFICES ASSUME IndInv, [Next]_vars, NEW j \in Job, status[j] = "failed"
               PROVE  status'[j] \in {"failed", "done"}
    OBVIOUS
  <2>1. RowStep(j)
    BY StepRows
  <2>2. attempts[j] = MaxAttempts /\ MaxAttempts \in Nat
    BY JobQueueAssumption DEF IndInv, RetryBudget
  <2> QED
    BY <2>1, <2>2
       DEF RowStep, Lifecycle!RowStep, Lifecycle!Submit, Lifecycle!Claim,
           Lifecycle!Finish, Lifecycle!Retry, Lifecycle!GiveUp, Lifecycle!Rest
<1> QED
  BY <1>1, Invariance, PTL DEF Spec, FailedIsFinal

(* Without handlers that outlive their lease a finished row stays done.    *)
THEOREM CompletionFinal ==
  ASSUME ~SlowHandlers
  PROVE  Spec => DoneIsFinal
<1>1. IndInv /\ [Next]_vars =>
        [\A j \in Job : status[j] = "done" => status'[j] = "done"]_vars
  <2> SUFFICES ASSUME IndInv, [Next]_vars, NEW j \in Job, status[j] = "done"
               PROVE  status'[j] = "done"
    OBVIOUS
  <2>1. RowStep(j)
    BY StepRows
  <2> QED
    BY <2>1
       DEF RowStep, Lifecycle!RowStep, Lifecycle!Submit, Lifecycle!Claim,
           Lifecycle!Finish, Lifecycle!Retry, Lifecycle!GiveUp, Lifecycle!Rest,
           Lifecycle!Settleable
<1> QED
  BY <1>1, Invariance, PTL DEF Spec, DoneIsFinal
=============================================================================
