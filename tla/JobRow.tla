-------------------------------- MODULE JobRow --------------------------------
(***************************************************************************)
(* One row of JobBoard's `jobs` table and the synchronous helpers of       *)
(* worker/src/board.ts that rewrite it: queueTask, endTask, failRow,       *)
(* requeue, retrySync, stopSync, and the guards they call.  Each helper is *)
(* a function from a row to a row; the module JobBoard makes actions of    *)
(* them.  Columns keep their names.  NULL is 0 in a column of times, leases*)
(* and revisions, "none" and "idle" in task_kind and task_state.           *)
(***************************************************************************)
EXTENDS Credential, Steps

CONSTANTS
  Item,         \* what a person can keep or resolve: change and task ids
  Attempts,     \* LIMITS.attempts
  LeaseMs, JobMaxMs, SyncMaxMs, RetentionMs   \* the other LIMITS, in ticks

ASSUME Limits ==
  /\ Attempts \in Nat \ {0}
  /\ LeaseMs \in Nat \ {0}
  /\ JobMaxMs \in Nat \ {0}
  /\ SyncMaxMs \in Nat \ {0}
  /\ RetentionMs \in Nat \ {0}

------------------------------------------------------------------------------
(* The row *)

OutputReady == {"complete", "manual_remediation"}
Active      == {"queued", "processing"}
Terminal    == OutputReady \cup {"failed"}
JobStatus   == Active \cup Terminal

\* A key that was never used, and one whose row is gone.  Job ids are UUIDs
\* made for one upload, so a deleted one never comes back.
NoRow == {"absent", "deleted"}

TaskKind  == {"process", "review", "sync"}
TaskState == {"idle", "queued", "claimed"}

NoPrior == [status |-> "none", steps |-> PendingSteps]

Row ==
  [ status            : JobStatus \cup NoRow,
    steps             : StepsType,
    prior             : [status : JobStatus \cup {"none"}, steps : StepsType],
    rev               : Nat,
    has_state         : BOOLEAN,
    overrides         : [Item -> Nat],   \* 0: no choice stored for the item
    overrides_version : Nat,
    synced_version    : Nat,
    task_kind         : TaskKind \cup {"none"},
    task_state        : TaskState,
    task_queued_at    : Nat,
    pending_review    : Nat,             \* the leg of the waiting review
    attempt           : Nat,
    lease             : Nat,
    lease_expires     : Nat,
    deadline          : Nat,
    next_rev          : Nat,
    gateway_exp       : Nat,
    updated_at        : Nat ]

EmptyRow(status) ==
  [ status |-> status, steps |-> PendingSteps, prior |-> NoPrior,
    rev |-> 0, has_state |-> FALSE,
    overrides |-> [i \in Item |-> 0], overrides_version |-> 0,
    synced_version |-> 0,
    task_kind |-> "none", task_state |-> "idle", task_queued_at |-> 0,
    pending_review |-> NoLeg, attempt |-> 0, lease |-> 0,
    lease_expires |-> 0, deadline |-> 0, next_rev |-> 0,
    gateway_exp |-> NoLeg, updated_at |-> 0 ]

Exists(r) == r.status \notin NoRow

------------------------------------------------------------------------------
(* The guards *)

\* TASK_TRANSITIONS and taskTransitionError.
TaskTransitions ==
  [ queue |-> {"idle", "queued"}, claim |-> {"queued"}, renew |-> {"claimed"},
    complete |-> {"claimed"}, refuse |-> {"claimed"}, retry |-> {"claimed"},
    end |-> {"queued", "claimed"} ]

TaskAllowed(r, event) ==
  /\ event \notin {"end", "queue"} => r.task_kind \in TaskKind
  /\ r.task_state \in TaskTransitions[event]
  /\ event = "refuse" => r.task_kind = "review"
  /\ event = "retry" => r.attempt < Attempts
  /\ event = "queue" => r.task_kind \in {"none", "sync"}

\* JOB_TRANSITIONS.
JobTransitions ==
  [ queued             |-> {"processing", "failed"},
    processing         |-> {"queued"} \cup Terminal,
    complete           |-> {"processing", "manual_remediation", "failed"},
    manual_remediation |-> {"processing", "complete", "failed"},
    failed             |-> {} ]

\* Mutant: a failed job may be published again.
JobAllowed_Reopens(from, to) ==
  to = from \/ to \in JobTransitions[from] \/ (from = "failed" /\ to \in OutputReady)

\* guardJobTransition: staying is always allowed.
JobAllowed(from, to) == to = from \/ to \in JobTransitions[from]

\* heldRow: the lease is the row's and neither it nor the task has run out.
Held(r, lease, now) ==
  /\ r.task_state = "claimed"
  /\ r.lease = lease
  /\ r.lease_expires > now
  /\ r.deadline > now

\* Mutant: a publication clears the overlay.
OverridesAfter_None(overrides, version) == [i \in Item |-> 0]

\* overridesAfter: what a publication with the choices up to `version` leaves.
OverridesAfter(overrides, version) ==
  [i \in Item |-> IF overrides[i] > version THEN overrides[i] ELSE 0]

------------------------------------------------------------------------------
(* Queueing and ending a task *)

QueueTask(r, kind, now) ==
  [r EXCEPT !.task_kind = kind, !.task_state = "queued",
            !.task_queued_at = now, !.attempt = 0, !.lease = 0,
            !.lease_expires = 0, !.deadline = 0, !.next_rev = 0]

\* Mutant: the leg outlives the task.
ClearTask_KeepsLeg(r) ==
  [r EXCEPT !.task_kind = "none", !.task_state = "idle",
            !.task_queued_at = 0, !.attempt = 0, !.lease = 0,
            !.lease_expires = 0, !.deadline = 0, !.next_rev = 0,
            !.prior = IF r.pending_review = NoLeg THEN NoPrior ELSE r.prior]

\* Mutant: the prior result is dropped under a waiting review.
ClearTask_DropsPrior(r) ==
  [r EXCEPT !.task_kind = "none", !.task_state = "idle",
            !.task_queued_at = 0, !.attempt = 0, !.lease = 0,
            !.lease_expires = 0, !.deadline = 0, !.next_rev = 0,
            !.gateway_exp = NoLeg, !.prior = NoPrior]

\* The columns endTask clears; prior stays for a review that is waiting.
ClearTask(r) ==
  [r EXCEPT !.task_kind = "none", !.task_state = "idle",
            !.task_queued_at = 0, !.attempt = 0, !.lease = 0,
            !.lease_expires = 0, !.deadline = 0, !.next_rev = 0,
            !.gateway_exp = NoLeg,
            !.prior = IF r.pending_review = NoLeg THEN NoPrior ELSE r.prior]

\* A choice the published views do not include yet.
Unsynced(r) ==
  /\ r.overrides_version > r.synced_version
  /\ r.has_state
  /\ r.status \in OutputReady

\* Mutant: the waiting review starts without the leg it came with.
EndTask_ForgetsLeg(r, now, dirtySync) ==
  IF r.pending_review # NoLeg
  THEN QueueTask([ClearTask(r) EXCEPT !.pending_review = NoLeg], "review", now)
  ELSE IF dirtySync /\ Unsynced(r)
       THEN QueueTask(ClearTask(r), "sync", now)
       ELSE ClearTask(r)

\* endTask: the waiting review is next, then the choices not rendered yet.
EndTask(r, now, dirtySync) ==
  LET waiting == [ClearTask(r) EXCEPT !.pending_review = NoLeg,
                                      !.gateway_exp = r.pending_review]
  IN  IF r.pending_review # NoLeg
      THEN QueueTask(waiting, "review", now)
      ELSE IF dirtySync /\ Unsynced(r)
           THEN QueueTask(ClearTask(r), "sync", now)
           ELSE ClearTask(r)

\* failRow drops a waiting review with the job.
FailRow(r, now) ==
  EndTask([r EXCEPT !.status = "failed", !.steps = FailSteps(r.steps),
                    !.updated_at = now, !.pending_review = NoLeg],
          now, TRUE)

FailAllowed(r) == TaskAllowed(r, "end") /\ JobAllowed(r.status, "failed")

------------------------------------------------------------------------------
(* Retrying *)

RequeuedStatus(r) == IF r.task_kind = "process" THEN "queued" ELSE r.status

\* Mutant: a retried sync resets the steps of the finished job.
Requeue_ResetsSync(r, now) ==
  [r EXCEPT !.task_state = "queued", !.task_queued_at = now, !.lease = 0,
            !.lease_expires = 0, !.deadline = 0, !.next_rev = 0,
            !.status = RequeuedStatus(r),
            !.steps = ResetSteps(r.steps, r.task_kind = "review")]

Requeue(r, now) ==
  [r EXCEPT !.task_state = "queued", !.task_queued_at = now, !.lease = 0,
            !.lease_expires = 0, !.deadline = 0, !.next_rev = 0,
            !.status = RequeuedStatus(r),
            !.steps = IF r.task_kind = "sync" THEN r.steps
                      ELSE ResetSteps(r.steps, r.task_kind = "review")]

RequeueAllowed(r) ==
  TaskAllowed(r, "retry") /\ JobAllowed(r.status, RequeuedStatus(r))

\* Mutant: a sync that stops ends without what waits behind it.
StopSync_Alone(r, now) == ClearTask(r)

\* stopSync keeps what is published and does not start the sync again.
StopSync(r, now) == EndTask(r, now, FALSE)

\* Mutant: one attempt too many.
SyncStops_Late(r) == r.pending_review # NoLeg \/ r.attempt > Attempts

SyncStops(r) == r.pending_review # NoLeg \/ r.attempt >= Attempts

RetrySync(r, now) == IF SyncStops(r) THEN StopSync(r, now) ELSE Requeue(r, now)

------------------------------------------------------------------------------
(* The sweep's verdict on a row: "keep", "stop", "fail" or "requeue".      *)

SweepVerdict(r, now) ==
  CASE r.task_state # "claimed" -> "keep"
    [] r.task_state = "claimed" /\ r.deadline <= now ->
         IF r.task_kind = "sync" THEN "stop" ELSE "fail"
    [] r.task_state = "claimed" /\ r.deadline > now /\ r.lease_expires <= now ->
         IF r.task_kind = "sync"
         THEN IF SyncStops(r) THEN "stop" ELSE "requeue"
         ELSE IF r.attempt < Attempts THEN "requeue" ELSE "fail"
    [] OTHER -> "keep"

SweepTask(r, now) ==
  LET verdict == SweepVerdict(r, now)
  IN  CASE verdict = "stop"    -> StopSync(r, now)
        [] verdict = "fail"    -> FailRow(r, now)
        [] verdict = "requeue" -> Requeue(r, now)
        [] OTHER               -> r

\* Mutant: the retention spares a job with a task.
Stale_Idle(r, now) ==
  Exists(r) /\ r.task_kind = "none" /\ r.updated_at + RetentionMs <= now

\* The retention limit, which the same sweep applies after the tasks.
Stale(r, now) == Exists(r) /\ r.updated_at + RetentionMs <= now

------------------------------------------------------------------------------
(* What the helpers keep of a row.  The invariants of JobBoard are made of  *)
(* these parts.                                                            *)

\* A running sync with a review behind it.
ReviewFollows(r) ==
  r.task_kind = "sync" /\ r.task_state = "claimed" /\ r.pending_review # NoLeg

HasTask(r) ==
  /\ r.status = "queued" <=> (r.task_kind = "process" /\ r.task_state = "queued")
  /\ r.status = "processing"
       <=> \/ r.task_kind = "process" /\ r.task_state = "claimed"
           \/ r.task_kind = "review"
           \/ ReviewFollows(r)
  /\ r.pending_review # NoLeg => ReviewFollows(r)
  /\ r.task_kind = "none" <=> r.task_state = "idle"

LegKept(r) ==
  r.gateway_exp # NoLeg
    <=> r.task_kind \in {"process", "review"} \/ r.pending_review # NoLeg

\* A claimed task that uses the leg ends before the relay would refuse it.
DeadlineInLeg(r) ==
  r.task_state = "claimed" /\ r.task_kind # "sync" =>
    r.deadline + GatewayMargin <= r.gateway_exp

\* A review has an output to return to.
PriorKept(r) ==
  r.task_kind = "review" \/ r.pending_review # NoLeg => r.prior.status \in OutputReady

===============================================================================
