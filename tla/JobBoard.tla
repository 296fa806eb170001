------------------------------- MODULE JobBoard -------------------------------
(***************************************************************************)
(* worker/src/board.ts: the Durable Object that holds every job, its queue *)
(* position and its lease, driven by people (upload, keep or resolve, undo *)
(* or revise or edit, delete), by runners (claim, renew, progress,         *)
(* complete, fail) and by its own alarm (sweep).                           *)
(*                                                                         *)
(* A Durable Object runs one handler at a time between awaits that are not *)
(* on its own storage, so each handler is one action.  Two are split:      *)
(*   - complete awaits R2 for the files of its manifest and then reads the *)
(*     row again: CompleteBegin, then CompleteCommit, CompleteThrow or     *)
(*     CompleteDrop;                                                       *)
(*   - keep and resolve read the job and its views in the Worker and only  *)
(*     then call setOverride: CheckChoice, then SetOverride or DropChoice. *)
(* The Worker reads the time before it calls the board, so a handler works *)
(* with a `now` up to MaxLag behind the clock the alarm uses.              *)
(*                                                                         *)
(* A lease token is the position in `leases` of the claim that made it, so *)
(* it is never made twice.  Any lease ever given may be used at any time:  *)
(* late, repeated, and reordered calls of a runner are all included.       *)
(***************************************************************************)
EXTENDS JobRow, Sequences

CONSTANTS
  Job,              \* ids, one for each upload
  OwnerOf,          \* the person each upload is from
  Legs,             \* the expiry times of the Gateway legs people sign in with
  Results,          \* what a runner may report of a finished task
  Events,           \* and of a step
  ActivePerPerson, ActiveGlobal,   \* LIMITS
  MaxTime,          \* bounds of the exploration: the clock,
  MaxClaims,        \*   the claims made,
  MaxVersion,       \*   the choices made for one job,
  MaxWaiting,       \*   the requests waiting on R2 or in the Worker,
  MaxLag            \*   and how far a request's time is behind the clock

ASSUME People == OwnerOf \in [Job -> {OwnerOf[j] : j \in Job}]

ASSUME Inputs ==
  /\ Legs \subseteq Nat \ {0}
  /\ Results \subseteq [status : Terminal, steps : StepsType]
  /\ Events \subseteq StepEvent
  /\ MaxLag \in Nat

ASSUME ClaimBound == MaxClaims \in Nat

VARIABLES
  clock,        \* the board's Date.now()
  jobs,         \* table jobs
  artifacts,    \* table artifact_attempts: by job and revision
  completions,  \* table completions: the receipt of each lease
  leases,       \* what each claim gave its runner
  completing,   \* complete calls between their two reads of the row
  choosing      \* keep and resolve requests past the Worker's check

vars == <<clock, jobs, artifacts, completions, leases, completing, choosing>>

Lease == 1..Len(leases)

ArtifactState == {"staging", "sealed", "published", "abandoned"}
Artifact      == [lease : Nat, state : ArtifactState]

\* A receipt holds a result, or that the review was refused.
Refused == [status |-> "refused", steps |-> PendingSteps]

Receipts(l) == {c \in completions : c.lease = l}

\* The time a request carries: read in the Worker, a little while ago.
RequestTimes == {t \in 1..clock : t + MaxLag >= clock}

------------------------------------------------------------------------------
(* Artifacts: guardArtifactTransition and its two uses when a task ends *)

\* Mutant: one above the served revision.
NextRev_Served(j) == jobs[j].rev + 1

\* Revision numbers are given out once: artifact_attempts keeps a row for
\* each, so the highest one is how many there are.
NextRev(j) == Len(artifacts[j]) + 1

MoveArtifact(a, rev, from, to) ==
  IF rev \in DOMAIN a /\ a[rev].state \in from
  THEN [a EXCEPT ![rev].state = to]
  ELSE a

\* endTask leaves a sealed artifact alone; requeue abandons it.
EndArtifact(a, r)     == MoveArtifact(a, r.next_rev, {"staging"}, "abandoned")
RequeueArtifact(a, r) == MoveArtifact(a, r.next_rev, {"staging", "sealed"}, "abandoned")

------------------------------------------------------------------------------
(* What people do *)

ActiveJobs(js) == {j \in js : jobs[j].status \in Active}

\* admit, as createJob calls it: with the board's own time.
Admits(j, leg) ==
  /\ MayQueue("process", leg, clock)
  /\ Cardinality(ActiveJobs({k \in Job : OwnerOf[k] = OwnerOf[j]})) < ActivePerPerson
  /\ Cardinality(ActiveJobs(Job)) < ActiveGlobal

NewRow(leg, now) ==
  [EmptyRow("queued") EXCEPT !.task_kind = "process", !.task_state = "queued",
                             !.task_queued_at = now, !.gateway_exp = leg,
                             !.updated_at = now]

CreateJob(j, leg) ==
  /\ jobs[j].status = "absent"
  /\ Admits(j, leg)
  /\ jobs' = [jobs EXCEPT ![j] = NewRow(leg, clock)]
  /\ UNCHANGED <<clock, artifacts, completions, leases, completing, choosing>>

DeleteJob(j) ==
  /\ Exists(jobs[j])
  /\ jobs' = [jobs EXCEPT ![j] = EmptyRow("deleted")]
  /\ artifacts' = [artifacts EXCEPT ![j] = <<>>]
  /\ completions' = {c \in completions : c.job # j}
  /\ UNCHANGED <<clock, leases, completing, choosing>>

\* changeAction (keep) and resolveTask: the Worker sees a finished job.
CheckChoice(j, i) ==
  /\ jobs[j].status \in OutputReady
  /\ Cardinality(choosing) < MaxWaiting
  /\ choosing' = choosing \cup {[job |-> j, item |-> i, now |-> clock]}
  /\ UNCHANGED <<clock, jobs, artifacts, completions, leases, completing>>

\* setOverride records the choice whatever the job's status is by now, and
\* queues a sync when the job is idle and has a saved state.
Chosen(r, i, now) ==
  [r EXCEPT !.overrides = [r.overrides EXCEPT ![i] = r.overrides_version + 1],
            !.overrides_version = r.overrides_version + 1,
            !.updated_at = now]

SetOverride(c) ==
  LET r == jobs[c.job]
      s == Chosen(r, c.item, c.now)
  IN  /\ c.now \in RequestTimes
      /\ Exists(r)
      /\ r.overrides_version < MaxVersion
      /\ jobs' = [jobs EXCEPT ![c.job] =
                    IF r.task_kind = "none" /\ r.has_state
                    THEN QueueTask(s, "sync", c.now) ELSE s]
      /\ choosing' = choosing \ {c}
      /\ UNCHANGED <<clock, artifacts, completions, leases, completing>>

\* The job is gone, the item is no longer pending, or the request died.
DropChoice(c) ==
  /\ choosing' = choosing \ {c}
  /\ UNCHANGED <<clock, jobs, artifacts, completions, leases, completing>>

\* queueReview: undo, revise or edit.  It reads the row again itself.
ReviewAccepted(r, leg, now) ==
  /\ r.status \in OutputReady
  /\ r.task_kind \notin {"process", "review"}
  /\ r.pending_review = NoLeg
  /\ MayQueue("review", leg, now)
  /\ r.has_state

Reopened(r, leg, now) ==
  [r EXCEPT !.status = "processing",
            !.prior = [status |-> r.status, steps |-> r.steps],
            !.steps = ResetSteps(r.steps, TRUE),
            !.gateway_exp = leg, !.updated_at = now]

QueueReview(j, leg, now) ==
  LET r == jobs[j]
      s == Reopened(r, leg, now)
  IN  /\ ReviewAccepted(r, leg, now)
      /\ jobs' = [jobs EXCEPT ![j] =
                    IF r.task_kind = "sync" /\ r.task_state = "claimed"
                    THEN [s EXCEPT !.pending_review = leg]
                    ELSE QueueTask(s, "review", now)]
      /\ UNCHANGED <<clock, artifacts, completions, leases, completing, choosing>>

------------------------------------------------------------------------------
(* claim *)

Queued == {j \in Job : jobs[j].task_state = "queued"}

\* ORDER BY task_kind = 'process', task_queued_at; equal rows in any order.
Before(j, k) ==
  LET p == jobs[j].task_kind = "process"
      q == jobs[k].task_kind = "process"
  IN  \/ ~p /\ q
      \/ p = q /\ jobs[j].task_queued_at < jobs[k].task_queued_at

ClaimStatus(r) == IF r.task_kind = "process" THEN "processing" ELSE r.status

\* A queued row that is not claimable is retired: it fails and the loop goes on.
Claimable(r, now) ==
  /\ MayClaim(r.task_kind, r.gateway_exp, now)
  /\ TaskAllowed(r, "claim")
  /\ JobAllowed(r.status, ClaimStatus(r))

Lesser(a, b) == IF a < b THEN a ELSE b

\* Mutant: the leg bounds every task's deadline.
TaskDeadline_AlwaysLeg(r, now) == Lesser(now + JobMaxMs, r.gateway_exp - GatewayMargin)

\* Mutant: the leg bounds no deadline.
TaskDeadline_NoLeg(r, now) ==
  IF r.task_kind = "sync" THEN now + SyncMaxMs ELSE now + JobMaxMs

TaskDeadline(r, now) ==
  IF r.task_kind = "sync" THEN now + SyncMaxMs
  ELSE Lesser(now + JobMaxMs, r.gateway_exp - GatewayMargin)

Claimed(r, lease, rev, now) ==
  [r EXCEPT !.task_state = "claimed", !.attempt = r.attempt + 1,
            !.lease = lease, !.lease_expires = now + LeaseMs,
            !.deadline = TaskDeadline(r, now), !.next_rev = rev,
            !.status = ClaimStatus(r), !.updated_at = now]

\* The rows met before the claimed one; all of them when nothing is claimable.
Retires(skipped, now) ==
  \A k \in skipped : ~Claimable(jobs[k], now) /\ FailAllowed(jobs[k])

ClaimTask(j, skipped, now) ==
  LET lease == Len(leases) + 1
  IN  /\ Len(leases) < MaxClaims
      /\ j \in Queued /\ skipped \subseteq Queued \ {j}
      /\ \A k \in Queued : Before(k, j) => k \in skipped
      /\ \A k \in skipped : ~Before(j, k)
      /\ Retires(skipped, now)
      /\ Claimable(jobs[j], now)
      /\ jobs' = [k \in Job |->
                    IF k = j THEN Claimed(jobs[j], lease, NextRev(j), now)
                    ELSE IF k \in skipped THEN FailRow(jobs[k], now)
                    ELSE jobs[k]]
      /\ artifacts' = [artifacts EXCEPT ![j] =
                         Append(@, [lease |-> lease, state |-> "staging"])]
      /\ leases' = Append(leases, [job |-> j,
                                   version |-> jobs[j].overrides_version])
      /\ UNCHANGED <<clock, completions, completing, choosing>>

ClaimNothing(now) ==
  /\ Retires(Queued, now)
  /\ jobs' = [k \in Job |-> IF k \in Queued THEN FailRow(jobs[k], now) ELSE jobs[k]]
  /\ UNCHANGED <<clock, artifacts, completions, leases, completing, choosing>>

------------------------------------------------------------------------------
(* What a runner does with its lease *)

HeldJob(l, now) == Held(jobs[leases[l].job], l, now)

\* checkLease for input, state and files.
Renew(l, now) ==
  LET j == leases[l].job
  IN  /\ HeldJob(l, now)
      /\ jobs' = [jobs EXCEPT ![j] =
                    [jobs[j] EXCEPT !.lease_expires = now + LeaseMs,
                                    !.updated_at = now]]
      /\ UNCHANGED <<clock, artifacts, completions, leases, completing, choosing>>

\* progress: a sync's events renew the lease and leave the steps alone.
Progressed(r, e, now) ==
  [r EXCEPT !.steps = IF r.task_kind = "sync" THEN r.steps
                      ELSE ApplyStepProgress(r.steps, e),
            !.lease_expires = now + LeaseMs, !.updated_at = now]

Progress(l, e, now) ==
  LET j == leases[l].job
  IN  /\ HeldJob(l, now)
      /\ jobs[j].task_kind = "sync" \/ StepAllowed(jobs[j].steps[e.step], e.status)
      /\ jobs' = [jobs EXCEPT ![j] = Progressed(jobs[j], e, now)]
      /\ UNCHANGED <<clock, artifacts, completions, leases, completing, choosing>>

\* Only the pipeline itself can end in "failed"; a review or a sync renders
\* the finished job it restored.
MayReport(r, result) == r.task_kind = "process" \/ result.status \in OutputReady

\* complete, up to its wait for R2.
CompleteBegin(l, result, now) ==
  /\ Receipts(l) = {}
  /\ HeldJob(l, now)
  /\ MayReport(jobs[leases[l].job], result)
  /\ Cardinality(completing) < MaxWaiting
  /\ completing' = completing \cup {[lease |-> l, result |-> result, now |-> now]}
  /\ UNCHANGED <<clock, jobs, artifacts, completions, leases, choosing>>

\* A review that arrived during a sync keeps the job processing; the fresh
\* result is what a refused review returns to.
StatusAfter(r, result) ==
  IF r.pending_review # NoLeg THEN r.status ELSE result.status

Published(r, result, version, now) ==
  LET waiting == r.pending_review # NoLeg
  IN  EndTask([r EXCEPT !.status = StatusAfter(r, result),
                        !.steps = IF waiting THEN r.steps ELSE result.steps,
                        !.prior = IF waiting THEN result ELSE r.prior,
                        !.rev = r.next_rev,
                        !.has_state = result.status \in OutputReady,
                        !.synced_version = version,
                        !.overrides = OverridesAfter(r.overrides, version),
                        !.updated_at = now],
              now, TRUE)

\* The second read: no receipt came in between and the lease is still held,
\* now by the board's clock.
\* Mutant: the task is still claimed, whoever holds it.
StillCompletes_AnyLease(c) ==
  LET j == leases[c.lease].job
      r == jobs[j]
  IN  /\ c.now \in RequestTimes
      /\ Receipts(c.lease) = {}
      /\ r.task_state = "claimed"
      /\ artifacts[j][r.next_rev].state = "staging"

StillCompletes(c) ==
  LET j == leases[c.lease].job
      r == jobs[j]
  IN  /\ c.now \in RequestTimes
      /\ Receipts(c.lease) = {}
      /\ Held(r, c.lease, clock)
      /\ artifacts[j][r.next_rev].state = "staging"

Receipt(l, result) == [job |-> leases[l].job, lease |-> l, result |-> result]

CompleteCommit(c) ==
  LET j == leases[c.lease].job
      r == jobs[j]
  IN  /\ StillCompletes(c)
      /\ JobAllowed(r.status, StatusAfter(r, c.result))
      /\ jobs' = [jobs EXCEPT ![j] =
                    Published(r, c.result, leases[c.lease].version, c.now)]
      /\ artifacts' = [artifacts EXCEPT ![j] =
                         MoveArtifact(@, r.next_rev, {"staging"}, "published")]
      /\ completions' = completions \cup {Receipt(c.lease, c.result)}
      /\ completing' = completing \ {c}
      /\ UNCHANGED <<clock, leases, choosing>>

\* The artifact is sealed before guardJobTransition throws, and stays so.
CompleteThrow(c) ==
  LET j == leases[c.lease].job
      r == jobs[j]
  IN  /\ StillCompletes(c)
      /\ ~JobAllowed(r.status, StatusAfter(r, c.result))
      /\ artifacts' = [artifacts EXCEPT ![j] =
                         MoveArtifact(@, r.next_rev, {"staging"}, "sealed")]
      /\ completing' = completing \ {c}
      /\ UNCHANGED <<clock, jobs, completions, leases, choosing>>

\* The manifest is incomplete, the second read refuses, or the request died.
CompleteDrop(c) ==
  /\ completing' = completing \ {c}
  /\ UNCHANGED <<clock, jobs, artifacts, completions, leases, choosing>>

\* complete with review_refused: no R2, so one step.
RestorePrior(r, now) ==
  EndTask([r EXCEPT !.status = r.prior.status, !.steps = r.prior.steps,
                    !.updated_at = now], now, TRUE)

RefuseReview(l, now) ==
  LET j == leases[l].job
      r == jobs[j]
  IN  /\ Receipts(l) = {}
      /\ HeldJob(l, now)
      /\ TaskAllowed(r, "refuse")
      /\ r.prior.status \in OutputReady
      /\ JobAllowed(r.status, r.prior.status)
      /\ jobs' = [jobs EXCEPT ![j] = RestorePrior(r, now)]
      /\ artifacts' = [artifacts EXCEPT ![j] = EndArtifact(@, r)]
      /\ completions' = completions \cup {Receipt(l, Refused)}
      /\ UNCHANGED <<clock, leases, completing, choosing>>

\* fail: a sync is tried again or stopped, anything else fails its job.
FailTask(l, now) ==
  LET j == leases[l].job
      r == jobs[j]
      again == r.task_kind = "sync" /\ ~SyncStops(r)
  IN  /\ HeldJob(l, now)
      /\ again => RequeueAllowed(r)
      /\ r.task_kind = "sync" \/ FailAllowed(r)
      /\ jobs' = [jobs EXCEPT ![j] = IF r.task_kind = "sync" THEN RetrySync(r, now)
                                     ELSE FailRow(r, now)]
      /\ artifacts' = [artifacts EXCEPT ![j] = IF again THEN RequeueArtifact(@, r)
                                               ELSE EndArtifact(@, r)]
      /\ UNCHANGED <<clock, completions, leases, completing, choosing>>

------------------------------------------------------------------------------
(* The alarm *)

\* The guards the sweep's verdict on a row runs into; one that does not hold
\* throws and ends the alarm before it reaches the other rows.
SweepAllowed(j, now) ==
  LET r == jobs[j]
      verdict == SweepVerdict(r, now)
  IN  /\ verdict = "fail" => FailAllowed(r)
      /\ verdict = "stop" => TaskAllowed(r, "end")
      /\ verdict = "requeue" =>
           /\ RequeueAllowed(r)
           /\ r.next_rev \in DOMAIN artifacts[j] =>
                artifacts[j][r.next_rev].state \in {"staging", "sealed"}

Swept(j, now) == SweepTask(jobs[j], now)

Expired(now) == {j \in Job : Stale(Swept(j, now), now)}

SweptArtifacts(j, now) ==
  LET verdict == SweepVerdict(jobs[j], now)
  IN  CASE verdict = "requeue"         -> RequeueArtifact(artifacts[j], jobs[j])
        [] verdict \in {"stop", "fail"} -> EndArtifact(artifacts[j], jobs[j])
        [] OTHER                       -> artifacts[j]

Sweep ==
  /\ \A j \in Job : SweepAllowed(j, clock)
  /\ jobs' = [j \in Job |-> IF j \in Expired(clock) THEN EmptyRow("deleted")
                            ELSE Swept(j, clock)]
  /\ artifacts' = [j \in Job |-> IF j \in Expired(clock) THEN <<>>
                                 ELSE SweptArtifacts(j, clock)]
  /\ completions' = {c \in completions : c.job \notin Expired(clock)}
  /\ UNCHANGED <<clock, leases, completing, choosing>>

Tick ==
  /\ clock < MaxTime
  /\ clock' = clock + 1
  /\ UNCHANGED <<jobs, artifacts, completions, leases, completing, choosing>>

------------------------------------------------------------------------------

Init ==
  /\ clock = 1
  /\ jobs = [j \in Job |-> EmptyRow("absent")]
  /\ artifacts = [j \in Job |-> <<>>]
  /\ completions = {}
  /\ leases = <<>>
  /\ completing = {}
  /\ choosing = {}

PersonNext ==
  \/ \E j \in Job, leg \in Legs : CreateJob(j, leg)
  \/ \E j \in Job : DeleteJob(j)
  \/ \E j \in Job, i \in Item : CheckChoice(j, i)
  \/ \E c \in choosing : SetOverride(c)
  \/ \E c \in choosing : DropChoice(c)
  \/ \E j \in Job, leg \in Legs, t \in RequestTimes : QueueReview(j, leg, t)

Claim ==
  \/ \E j \in Job, skipped \in SUBSET Job, t \in RequestTimes : ClaimTask(j, skipped, t)
  \/ \E t \in RequestTimes : ClaimNothing(t)

RunnerNext ==
  \/ \E l \in Lease, t \in RequestTimes : Renew(l, t)
  \/ \E l \in Lease, e \in Events, t \in RequestTimes : Progress(l, e, t)
  \/ \E l \in Lease, result \in Results, t \in RequestTimes : CompleteBegin(l, result, t)
  \/ \E c \in completing : CompleteCommit(c)
  \/ \E c \in completing : CompleteThrow(c)
  \/ \E c \in completing : CompleteDrop(c)
  \/ \E l \in Lease, t \in RequestTimes : RefuseReview(l, t)
  \/ \E l \in Lease, t \in RequestTimes : FailTask(l, t)

Next == PersonNext \/ Claim \/ RunnerNext \/ Sweep \/ Tick

Spec == Init /\ [][Next]_vars

\* The clock runs and the alarm, set again while a row remains, keeps ringing.
\* Nothing is assumed of people or runners.
Fairness == WF_vars(Tick) /\ WF_vars(Sweep)

FairSpec == Spec /\ Fairness

------------------------------------------------------------------------------
(* Properties *)

Result == Results \cup {Refused}

\* Every table and request has the shape the code's schemas give it.
TypeOK ==
  /\ clock \in Nat \ {0}
  /\ jobs \in [Job -> Row]
  /\ artifacts \in [Job -> Seq(Artifact)]
  /\ completions \subseteq [job : Job, lease : Nat, result : Result]
  /\ leases \in Seq([job : Job, version : Nat])
  /\ completing \subseteq [lease : Lease, result : Results, now : 1..clock]
  /\ choosing \subseteq [job : Job, item : Item, now : 1..clock]

\* A job shows as queued or processing exactly while something will end that:
\* its process or review task, or a running sync with a review behind it.  No
\* handler (endTask, requeue, a refusal, a stopped sync) leaves a job active
\* with nothing to finish it, or a waiting review with nothing to wait for.
ActiveHasTask == \A j \in Job : HasTask(jobs[j])

\* board.ts, header: "The person's Gateway leg is kept only while the job has
\* a task that needs it", and it is kept for as long as it does.
CredentialScope == \A j \in Job : LegKept(jobs[j])

\* While a runner holds a process or review task, relayCredential gives it
\* the leg: the deadline set at the claim ends the lease before the margin
\* in which the relay refuses, also after requeues and for a review that
\* waited behind a sync with its own leg.
RelayWhileHeld ==
  \A l \in Lease, t \in RequestTimes :
    LET r == jobs[leases[l].job]
    IN  HeldJob(l, t) /\ r.task_kind # "sync" => MayRelay(r.task_kind, r.gateway_exp, t)

\* A lease that is held has not been spent: its receipt is not written yet,
\* its revision is still being staged (or sealed by a completion that threw)
\* apart from the one being served, and if the task is a review there is an
\* output a refusal can return to.
HeldCanFinish ==
  \A l \in Lease, t \in RequestTimes :
    LET j == leases[l].job
        r == jobs[j]
    IN  HeldJob(l, t) =>
          /\ Receipts(l) = {}
          /\ r.next_rev \in DOMAIN artifacts[j] /\ r.next_rev > r.rev
          /\ artifacts[j][r.next_rev].lease = l
          /\ artifacts[j][r.next_rev].state \in {"staging", "sealed"}
          /\ r.task_kind = "review" => r.prior.status \in OutputReady

\* What a job shows, or would return to after a refused review.
Shown(r) == IF r.status \in OutputReady
            THEN [status |-> r.status, steps |-> r.steps] ELSE r.prior

\* What a job shows is what the runner reported under the lease that staged
\* the served revision: no progress event, reset, refusal, retry or stopped
\* sync makes status, steps and files come from different results.
ShowsPublished ==
  \A j \in Job :
    LET r == jobs[j]
    IN  Shown(r) # NoPrior =>
          /\ r.has_state
          /\ r.rev \in DOMAIN artifacts[j]
          /\ artifacts[j][r.rev].state = "published"
          /\ [job |-> j, lease |-> artifacts[j][r.rev].lease, result |-> Shown(r)]
               \in completions

\* Receipts and publications agree: one receipt for a lease, for a published
\* revision a receipt of the lease that staged it, and no receipt of a result
\* without the publication.
PublishedOnce ==
  /\ \A c, d \in completions : c.lease = d.lease => c = d
  /\ \A j \in Job : \A v \in DOMAIN artifacts[j] :
       artifacts[j][v].state = "published"
         <=> \E c \in completions : /\ c.job = j
                                    /\ c.lease = artifacts[j][v].lease
                                    /\ c.result # Refused

\* No guard throws inside the alarm: one row that trips guardTaskTransition,
\* guardJobTransition or guardArtifactTransition would stop the sweep of
\* every other job, at every alarm.
SweepNeverThrows == \A j \in Job : SweepAllowed(j, clock)

\* overridesAfter: a choice leaves the overlay only by being part of what was
\* published (claimed at or after its version), by a newer choice on the same
\* item, or with its job.  A choice made while a task runs is not lost.  And
\* endTask: a task does not end with choices the published views lack, unless
\* it is a sync that was given up.
ChoiceKept ==
  [][\A j \in Job :
       LET r == jobs[j]
           s == jobs'[j]
       IN  /\ \A i \in Item : r.overrides[i] # 0 /\ Exists(s) =>
                \/ s.overrides[i] >= r.overrides[i]
                \/ s.rev # r.rev /\ s.synced_version >= r.overrides[i]
           /\ r.task_kind # "none" /\ s.task_kind = "none" /\ Unsynced(s) =>
                r.task_kind = "sync" /\ s.rev = r.rev]_vars

\* A review accepted behind a running sync is next whatever becomes of the
\* sync (published, failed, lapsed, overdue), with the leg it came with and
\* an output to return to; only deleting the job drops it.
WaitingReviewRuns ==
  [][\A j \in Job :
       LET r == jobs[j]
           s == jobs'[j]
       IN  r.pending_review # NoLeg /\ s.pending_review # r.pending_review /\ Exists(s) =>
             /\ s.task_kind = "review" /\ s.task_state = "queued"
             /\ s.gateway_exp = r.pending_review
             /\ s.prior.status \in OutputReady]_vars

\* Whatever runners do or fail to do, a job does not stay queued or
\* processing: attempts, leases, deadlines and retention end it.
JobEnds ==
  \A j \in Job : jobs[j].status \in Active ~> jobs[j].status \notin Active

\* The promises of JobContract.
Phases == [j \in Job |->
  CASE jobs[j].status = "absent"       -> "none"
    [] jobs[j].status = "deleted"      -> "gone"
    [] jobs[j].status \in Active       -> "working"
    [] jobs[j].status \in OutputReady  -> "ready"
    [] jobs[j].status = "failed"       -> "failed"]

Contract == INSTANCE JobContract WITH
  Output <- {r \in Results : r.status \in OutputReady}, NoOutput <- NoPrior,
  phase <- Phases, output <- [j \in Job |-> Shown(jobs[j])]

\* The board implements JobContract.
ImplementsContract == Contract!Spec

\* What the files see of a job: the module Revisions.
FileRow(j) ==
  LET r == jobs[j]
      claimed == r.task_state = "claimed"
      leaseOf(v) == artifacts[j][v].lease
  IN  [ life      |-> CASE r.status = "absent"  -> "absent"
                        [] r.status = "deleted" -> "gone"
                        [] OTHER                -> "live",
        rev       |-> r.rev,
        has_state |-> r.has_state,
        next      |-> r.next_rev,
        sealed    |-> claimed /\ artifacts[j][r.next_rev].state = "sealed",
        lapsed    |-> claimed /\ (r.lease_expires <= clock \/ r.deadline <= clock),
        given     |-> Len(artifacts[j]),
        spent     |-> {v \in DOMAIN artifacts[j] : Receipts(leaseOf(v)) # {}} ]

Revs == INSTANCE Revisions WITH
  MaxRev <- MaxClaims, Late <- MaxLag > 0, rows <- [j \in Job |-> FileRow(j)]

\* The board gives, publishes and spends revisions as Revisions says: each
\* claim a revision no earlier attempt ever had, publication only of the one
\* held, and no receipt of a lease whose revision is still held.
ImplementsRevisions == Revs!Spec

\* user-api.ts: "In-app review is only available after the app reaches a
\* complete or manual-remediation output."  No re-render is queued for a job
\* that has failed.
NoSyncAfterFailure ==
  \A j \in Job : jobs[j].status = "failed" => jobs[j].task_kind # "sync"

===============================================================================
