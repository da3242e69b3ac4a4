---------------------------- MODULE JobLifecycle ----------------------------
(***************************************************************************)
(* What the job queue promises about each row of background_jobs, with no  *)
(* runner, transaction or lock in sight: a row is claimed at most          *)
(* MaxAttempts times, is given up exactly when that budget is spent, and   *)
(* never disappears.  One commit may move several rows, so a step moves    *)
(* every row by one of the row steps below or leaves it alone.             *)
(***************************************************************************)
EXTENDS Naturals

CONSTANTS
  Job,
  MaxAttempts,
  LateResults  \* may a runner settle a row it no longer owns?

VARIABLES status, attempts

vars == <<status, attempts>>

Init ==
  /\ status = [j \in Job |-> "absent"]
  /\ attempts = [j \in Job |-> 0]

Keep(j) == attempts'[j] = attempts[j]

Submit(j) ==
  /\ status[j] = "absent"
  /\ status'[j] = "pending"
  /\ Keep(j)

(* A row that is processing may be claimed again: its lease ran out.       *)
Claim(j) ==
  /\ status[j] \in {"pending", "processing"}
  /\ attempts[j] < MaxAttempts
  /\ status'[j] = "processing"
  /\ attempts'[j] = attempts[j] + 1

Settleable(j) ==
  \/ status[j] = "processing"
  \/ LateResults /\ status[j] \in {"pending", "done", "failed"}

Finish(j) ==
  /\ Settleable(j)
  /\ status'[j] = "done"
  /\ Keep(j)

Retry(j) ==
  /\ Settleable(j)
  /\ attempts[j] < MaxAttempts
  /\ status'[j] = "pending"
  /\ Keep(j)

GiveUp(j) ==
  /\ Settleable(j)
  /\ attempts[j] >= MaxAttempts
  /\ status'[j] = "failed"
  /\ Keep(j)

Rest(j) == status'[j] = status[j] /\ Keep(j)

RowStep(j) ==
  Submit(j) \/ Claim(j) \/ Finish(j) \/ Retry(j) \/ GiveUp(j) \/ Rest(j)

Next ==
  /\ status' \in [Job -> {"absent", "pending", "processing", "done", "failed"}]
  /\ attempts' \in [Job -> Nat]
  /\ \A j \in Job : RowStep(j)

Spec == Init /\ [][Next]_vars
=============================================================================
