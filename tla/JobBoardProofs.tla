---------------------------- MODULE JobBoardProofs ----------------------------
(***************************************************************************)
(* Proofs about JobBoard for every number of jobs, people's choices, steps *)
(* and results, and for all limits that satisfy the assumptions.           *)
(*                                                                         *)
(* What a board promises of its jobs it promises row by row, so the proof  *)
(* is about rows first: each helper of JobRow, and each rewriting of a row *)
(* by an action, takes a row in order (RowOK) to a row in order.  The      *)
(* actions then follow, because the rows they do not rewrite stay.         *)
(***************************************************************************)
EXTENDS JobBoard, SequenceTheorems, TLAPS

\* HasTask and LegKept are what is to be shown; DeadlineInLeg is the fact
\* about claimed rows RelayWhileHeld follows from.
RowOK(r) == r \in Row /\ HasTask(r) /\ LegKept(r) /\ DeadlineInLeg(r)

\* A row that was never used, or is gone, is in order.
LEMMA EmptyRowOK ==
  ASSUME NEW status \in NoRow
  PROVE  RowOK(EmptyRow(status))
  BY DEF RowOK, EmptyRow, Row, NoRow, TaskState, TaskKind, NoPrior, PendingSteps, StepsType,
     StepStatus, NoLeg, HasTask, LegKept, DeadlineInLeg, ReviewFollows

\* createJob: a new job waits for its pipeline with the leg of its upload.
LEMMA NewRowOK ==
  ASSUME NEW leg \in Nat \ {0}, NEW now \in Nat
  PROVE  RowOK(NewRow(leg, now))
  BY DEF NewRow, RowOK, EmptyRow, Row, NoRow, JobStatus, Active, Terminal, OutputReady, 
     TaskState, TaskKind, NoPrior, PendingSteps, StepsType,
     StepStatus, NoLeg, HasTask, LegKept, DeadlineInLeg, ReviewFollows

\* claim: the deadline of a claimable task that uses the leg lies before the
\* relay's margin, because ClaimMinimum is more than GatewayMargin.
LEMMA ClaimedOK ==
  ASSUME NEW r, RowOK(r), NEW lease \in Nat, NEW rev \in Nat, NEW now \in Nat,
         r.task_state = "queued", Claimable(r, now)
  PROVE  RowOK(Claimed(r, lease, rev, now))
  <1>1. r \in Row
    BY DEF RowOK
  <1>2. r.task_kind # "sync" => r.gateway_exp \in Nat /\ r.gateway_exp >= now + ClaimMinimum
    BY <1>1, CredentialLimits DEF Claimable, MayClaim, CredentialEligibility, Row
  <1>3. /\ TaskDeadline(r, now) \in Nat
        /\ r.task_kind # "sync" => TaskDeadline(r, now) + GatewayMargin <= r.gateway_exp
    BY <1>1, <1>2, CredentialLimits, Limits DEF TaskDeadline, Lesser, Row
  <1> DEFINE s == Claimed(r, lease, rev, now)
  <1>4. s \in Row
    <2>1. ClaimStatus(r) \in JobStatus \cup NoRow
      BY <1>1 DEF ClaimStatus, JobStatus, Active, Row
    <2>2. r.attempt + 1 \in Nat /\ now + LeaseMs \in Nat
      BY <1>1, Limits DEF Row
    <2> QED
      BY <1>1, <1>3, <2>1, <2>2 DEF Claimed, Row, TaskState
  <1>5. /\ s.task_kind = r.task_kind /\ s.task_state = "claimed"
        /\ s.status = ClaimStatus(r) /\ s.pending_review = r.pending_review
        /\ s.gateway_exp = r.gateway_exp /\ s.deadline = TaskDeadline(r, now)
    BY <1>1 DEF Claimed, Row
  <1>6. HasTask(s)
    BY <1>1, <1>5 DEF RowOK, HasTask, ClaimStatus, ReviewFollows, Row, TaskKind
  <1>7. LegKept(s) /\ DeadlineInLeg(s)
    BY <1>3, <1>5 DEF RowOK, LegKept, DeadlineInLeg
  <1> QED
    BY <1>4, <1>6, <1>7 DEF RowOK

\* setOverride keeps a row in order, also when it queues a sync.
LEMMA ChosenOK ==
  ASSUME NEW r, RowOK(r), NEW i \in Item, NEW now \in Nat
  PROVE  /\ RowOK(Chosen(r, i, now))
         /\ r.task_kind = "none" => RowOK(QueueTask(Chosen(r, i, now), "sync", now))
  <1> DEFINE s == Chosen(r, i, now)
             q == QueueTask(s, "sync", now)
  <1>1. r \in Row
    BY DEF RowOK
  <1>2. /\ s \in Row
        /\ s.status = r.status /\ s.task_kind = r.task_kind /\ s.task_state = r.task_state
        /\ s.pending_review = r.pending_review /\ s.gateway_exp = r.gateway_exp
        /\ s.deadline = r.deadline
    <2>1. /\ [r.overrides EXCEPT ![i] = r.overrides_version + 1] \in [Item -> Nat]
          /\ r.overrides_version + 1 \in Nat
      BY <1>1 DEF Row
    <2> QED
      BY <1>1, <2>1 DEF Chosen, Row
  <1>3. RowOK(s)
    BY <1>2 DEF RowOK, HasTask, LegKept, DeadlineInLeg, ReviewFollows
  <1>4. /\ q \in Row
        /\ q.status = r.status /\ q.task_kind = "sync" /\ q.task_state = "queued"
        /\ q.pending_review = r.pending_review /\ q.gateway_exp = r.gateway_exp
    BY <1>2 DEF QueueTask, Row, TaskKind, TaskState
  <1>5. r.task_kind = "none" => RowOK(q)
    BY <1>1, <1>4 DEF RowOK, HasTask, LegKept, DeadlineInLeg, ReviewFollows, TaskKind
  <1> QED
    BY <1>3, <1>5

\* A task ends well if the row is settled: what it shows as active is nothing
\* but a review behind a sync.
LEMMA EndTaskOK ==
  ASSUME NEW r \in Row, NEW now \in Nat, NEW dirty \in BOOLEAN,
         r.status \in Active => r.status = "processing" /\ r.pending_review # NoLeg,
         r.pending_review # NoLeg => r.status = "processing"
  PROVE  RowOK(EndTask(r, now, dirty))
  <1> DEFINE c == ClearTask(r)
             w == [c EXCEPT !.pending_review = NoLeg, !.gateway_exp = r.pending_review]
             q == QueueTask(w, "review", now)
             s == QueueTask(c, "sync", now)
  <1>1. /\ c \in Row
        /\ c.status = r.status /\ c.task_kind = "none" /\ c.task_state = "idle"
        /\ c.pending_review = r.pending_review /\ c.gateway_exp = NoLeg
    BY DEF ClearTask, Row, TaskState, TaskKind, NoPrior, PendingSteps, NoLeg, StepsType, StepStatus
  <1>2. /\ w \in Row /\ w.status = r.status
        /\ w.pending_review = NoLeg /\ w.gateway_exp = r.pending_review
    BY <1>1 DEF Row, NoLeg
  <1>3. CASE r.pending_review # NoLeg
    <2>1. /\ q \in Row
          /\ q.status = r.status /\ q.task_kind = "review" /\ q.task_state = "queued"
          /\ q.pending_review = NoLeg /\ q.gateway_exp = r.pending_review
      BY <1>2 DEF QueueTask, Row, TaskKind, TaskState
    <2>2. RowOK(q)
      BY <1>3, <2>1 DEF RowOK, HasTask, LegKept, DeadlineInLeg, ReviewFollows, TaskKind
    <2> QED
      BY <1>3, <2>2 DEF EndTask
  <1>4. CASE r.pending_review = NoLeg
    <2>1. /\ s \in Row
          /\ s.status = r.status /\ s.task_kind = "sync" /\ s.task_state = "queued"
          /\ s.pending_review = NoLeg /\ s.gateway_exp = NoLeg
      BY <1>1, <1>4 DEF QueueTask, Row, TaskKind, TaskState
    <2>2. RowOK(s) /\ RowOK(c)
      BY <1>1, <1>4, <2>1 DEF RowOK, HasTask, LegKept, DeadlineInLeg, ReviewFollows, TaskKind, Active
    <2> QED
      BY <1>4, <2>2 DEF EndTask
  <1> QED
    BY <1>3, <1>4

\* failRow clears the waiting review before endTask, so a failed job is left
\* with no task or a sync, never with a review.
LEMMA FailRowOK ==
  ASSUME NEW r, RowOK(r), NEW now \in Nat
  PROVE  RowOK(FailRow(r, now))
  <1> DEFINE f == [r EXCEPT !.status = "failed", !.steps = FailSteps(r.steps),
                            !.updated_at = now, !.pending_review = NoLeg]
  <1>1. r \in Row
    BY DEF RowOK
  <1>2. FailSteps(r.steps) \in StepsType
    BY <1>1 DEF FailSteps, StepsType, StepStatus, Row
  <1>3. f \in Row /\ f.status = "failed" /\ f.pending_review = NoLeg
    BY <1>1, <1>2 DEF Row, JobStatus, Terminal, NoLeg
  <1>4. RowOK(EndTask(f, now, TRUE))
    BY <1>3, EndTaskOK DEF Active
  <1> QED
    BY <1>4 DEF FailRow

\* requeue gives a claimed row back to the queue with its leg, and a process
\* task's job shows as queued again.
LEMMA RequeueOK ==
  ASSUME NEW r, RowOK(r), NEW now \in Nat, r.task_state = "claimed", r.pending_review = NoLeg
  PROVE  RowOK(Requeue(r, now))
  <1> DEFINE s == Requeue(r, now)
             steps == IF r.task_kind = "sync" THEN r.steps
                      ELSE ResetSteps(r.steps, r.task_kind = "review")
  <1>1. r \in Row
    BY DEF RowOK
  <1>2. steps \in StepsType
    BY <1>1 DEF ResetSteps, StepsType, StepStatus, Row
  <1>3. RequeuedStatus(r) \in JobStatus \cup NoRow
    BY <1>1 DEF RequeuedStatus, Row, JobStatus, Active
  <1>4. /\ s \in Row
        /\ s.status = RequeuedStatus(r)
        /\ s.task_kind = r.task_kind /\ s.task_state = "queued"
        /\ s.pending_review = NoLeg /\ s.gateway_exp = r.gateway_exp
    BY <1>1, <1>2, <1>3 DEF Requeue, Row, TaskState
  <1> QED
    BY <1>1, <1>4 DEF RowOK, HasTask, LegKept, DeadlineInLeg, ReviewFollows, RequeuedStatus,
                      Row, TaskKind

\* stopSync ends a sync; a review that waited behind it is queued.
LEMMA StopSyncOK ==
  ASSUME NEW r, RowOK(r), NEW now \in Nat, r.task_kind = "sync"
  PROVE  RowOK(StopSync(r, now))
  <1>1. /\ r \in Row
        /\ r.status \in Active => r.status = "processing" /\ r.pending_review # NoLeg
        /\ r.pending_review # NoLeg => r.status = "processing"
    BY DEF RowOK, HasTask, ReviewFollows, Active
  <1> QED
    BY <1>1, EndTaskOK DEF StopSync

\* checkLease and progress write steps and the lease's expiry, no more.
LEMMA RenewedOK ==
  ASSUME NEW r, RowOK(r), NEW steps \in StepsType, NEW expires \in Nat, NEW now \in Nat
  PROVE  RowOK([r EXCEPT !.steps = steps, !.lease_expires = expires, !.updated_at = now])
  <1> DEFINE s == [r EXCEPT !.steps = steps, !.lease_expires = expires, !.updated_at = now]
  <1>1. /\ s \in Row
        /\ s.status = r.status /\ s.task_kind = r.task_kind /\ s.task_state = r.task_state
        /\ s.pending_review = r.pending_review /\ s.gateway_exp = r.gateway_exp
        /\ s.deadline = r.deadline
    BY DEF RowOK, Row
  <1> QED
    BY <1>1 DEF RowOK, HasTask, LegKept, DeadlineInLeg, ReviewFollows

\* queueReview: behind a claimed sync the review waits, otherwise it is queued,
\* and either way the row has the review's leg.
LEMMA ReviewQueuedOK ==
  ASSUME NEW r, RowOK(r), NEW leg \in Nat \ {0}, NEW now \in Nat,
         ReviewAccepted(r, leg, now)
  PROVE  RowOK(IF r.task_kind = "sync" /\ r.task_state = "claimed"
               THEN [Reopened(r, leg, now) EXCEPT !.pending_review = leg]
               ELSE QueueTask(Reopened(r, leg, now), "review", now))
  <1> DEFINE s == Reopened(r, leg, now)
             p == [s EXCEPT !.pending_review = leg]
             q == QueueTask(s, "review", now)
  <1>1. r \in Row /\ r.pending_review = NoLeg /\ r.task_kind \in {"sync", "none"}
    BY DEF RowOK, ReviewAccepted, Row, TaskKind
  <1>2. ResetSteps(r.steps, TRUE) \in StepsType
    BY <1>1 DEF ResetSteps, StepsType, StepStatus, Row
  <1>3. [status |-> r.status, steps |-> r.steps]
          \in [status : JobStatus \cup {"none"}, steps : StepsType]
    BY <1>1 DEF ReviewAccepted, Row, JobStatus, Terminal
  <1>4. /\ s \in Row /\ s.status = "processing"
        /\ s.task_kind = r.task_kind /\ s.task_state = r.task_state
        /\ s.gateway_exp = leg /\ s.pending_review = NoLeg
    BY <1>1, <1>2, <1>3 DEF Reopened, Row, JobStatus, Active
  <1>5. CASE r.task_kind = "sync" /\ r.task_state = "claimed"
    <2>1. /\ p \in Row /\ p.status = "processing"
          /\ p.task_kind = "sync" /\ p.task_state = "claimed"
          /\ p.gateway_exp = leg /\ p.pending_review = leg
      BY <1>4, <1>5 DEF Row
    <2>2. RowOK(p)
      BY <2>1 DEF RowOK, HasTask, LegKept, DeadlineInLeg, ReviewFollows, NoLeg
    <2> QED
      BY <1>5, <2>2
  <1>6. CASE ~(r.task_kind = "sync" /\ r.task_state = "claimed")
    <2>1. /\ q \in Row /\ q.status = "processing"
          /\ q.task_kind = "review" /\ q.task_state = "queued"
          /\ q.gateway_exp = leg /\ q.pending_review = NoLeg
      BY <1>4 DEF QueueTask, Row, TaskKind, TaskState
    <2>2. RowOK(q)
      BY <2>1 DEF RowOK, HasTask, LegKept, DeadlineInLeg, ReviewFollows, NoLeg
    <2> QED
      BY <1>6, <2>2
  <1> QED
    BY <1>5, <1>6

\* complete: the published row ends its task in order.
LEMMA PublishedOK ==
  ASSUME NEW r, RowOK(r), r.task_state = "claimed", NEW result \in Results,
         NEW version \in Nat, NEW now \in Nat
  PROVE  RowOK(Published(r, result, version, now))
  <1> DEFINE waiting == r.pending_review # NoLeg
             status == StatusAfter(r, result)
             steps == IF waiting THEN r.steps ELSE result.steps
             prior == IF waiting THEN result ELSE r.prior
             ready == result.status \in OutputReady
             overrides == OverridesAfter(r.overrides, version)
             p == [r EXCEPT !.status = status, !.steps = steps, !.prior = prior,
                            !.rev = r.next_rev, !.has_state = ready,
                            !.synced_version = version, !.overrides = overrides,
                            !.updated_at = now]
  <1>1. r \in Row /\ result \in [status : Terminal, steps : StepsType]
    BY Inputs DEF RowOK
  <1>2. overrides \in [Item -> Nat]
    BY <1>1 DEF OverridesAfter, Row
  <1>3. /\ steps \in StepsType
        /\ prior \in [status : JobStatus \cup {"none"}, steps : StepsType]
    BY <1>1 DEF Row, JobStatus
  <1>4. status \in JobStatus \cup NoRow /\ ready \in BOOLEAN
    BY <1>1 DEF StatusAfter, Row, JobStatus
  <1>5. p \in Row /\ p.status = status /\ p.pending_review = r.pending_review
    <2>1. r \in Row
      BY <1>1
    <2> HIDE DEF status, steps, prior, ready, overrides
    <2> QED
      BY <2>1, <1>2, <1>3, <1>4 DEF Row
  <1>6. /\ p.status \in Active => p.status = "processing" /\ p.pending_review # NoLeg
        /\ p.pending_review # NoLeg => p.status = "processing"
    BY <1>1, <1>5 DEF StatusAfter, RowOK, HasTask, ReviewFollows, Terminal, Active, OutputReady
  <1>7. RowOK(EndTask(p, now, TRUE))
    BY <1>5, <1>6, EndTaskOK
  <1> QED
    BY <1>7 DEF Published

\* review_refused: a review has nothing waiting behind it, so the row that
\* shows its prior result again ends in order.
LEMMA RestorePriorOK ==
  ASSUME NEW r, RowOK(r), r.task_kind = "review", r.prior.status \in OutputReady,
         NEW now \in Nat
  PROVE  RowOK(RestorePrior(r, now))
  <1> DEFINE s == [r EXCEPT !.status = r.prior.status, !.steps = r.prior.steps,
                            !.updated_at = now]
  <1>1. r \in Row /\ r.pending_review = NoLeg
    BY DEF RowOK, HasTask, ReviewFollows
  <1>2. s \in Row /\ s.status \in OutputReady /\ s.pending_review = NoLeg
    BY <1>1 DEF Row, JobStatus, Terminal
  <1>3. RowOK(EndTask(s, now, TRUE))
    BY <1>2, EndTaskOK DEF OutputReady, Active
  <1> QED
    BY <1>3 DEF RestorePrior

\* sweep, for one row; a sync with a waiting review is stopped, never requeued.
LEMMA SweepTaskOK ==
  ASSUME NEW r, RowOK(r), NEW now \in Nat
  PROVE  RowOK(SweepTask(r, now))
  <1>1. CASE SweepVerdict(r, now) = "fail"
    BY <1>1, FailRowOK DEF SweepTask
  <1>2. CASE SweepVerdict(r, now) = "stop"
    <2>1. r.task_kind = "sync"
      BY <1>2 DEF SweepVerdict
    <2> QED
      BY <1>2, <2>1, StopSyncOK DEF SweepTask
  <1>3. CASE SweepVerdict(r, now) = "requeue"
    <2>1. r.task_state = "claimed" /\ r.pending_review = NoLeg
      BY <1>3 DEF SweepVerdict, SyncStops, RowOK, HasTask, ReviewFollows
    <2> QED
      BY <1>3, <2>1, RequeueOK DEF SweepTask
  <1>4. CASE SweepVerdict(r, now) \notin {"fail", "stop", "requeue"}
    BY <1>4 DEF SweepTask
  <1> QED
    BY <1>1, <1>2, <1>3, <1>4

------------------------------------------------------------------------------
(* The steps of the board *)

\* Every row is in order, and the tables around them well typed.
RowsOK == \A j \in Job : RowOK(jobs[j])

BoardInv == TypeOK /\ RowsOK

\* The time a request carries is one the clock has shown.
LEMMA RequestTimesNat ==
  ASSUME TypeOK, NEW t \in RequestTimes
  PROVE  t \in Nat /\ t \in 1..clock
  BY DEF TypeOK, RequestTimes

\* guardArtifactTransition changes the state of one artifact.
LEMMA MoveArtifactType ==
  ASSUME NEW a \in Seq(Artifact), NEW rev \in Nat, NEW from, NEW to \in ArtifactState
  PROVE  MoveArtifact(a, rev, from, to) \in Seq(Artifact)
  <1> SUFFICES ASSUME rev \in DOMAIN a
               PROVE  [a EXCEPT ![rev].state = to] \in Seq(Artifact)
    BY DEF MoveArtifact
  <1>1. rev \in 1..Len(a) /\ a[rev] \in Artifact
    BY ElementOfSeq
  <1>2. [a[rev] EXCEPT !.state = to] \in Artifact
    BY <1>1 DEF Artifact
  <1> QED
    BY <1>1, <1>2, ExceptSeq

\* The empty board satisfies the invariant.
LEMMA InitInv == Init => BoardInv
  <1> SUFFICES ASSUME Init PROVE BoardInv
    OBVIOUS
  <1>1. \A j \in Job : RowOK(jobs[j])
    BY EmptyRowOK DEF Init, NoRow
  <1>2. jobs \in [Job -> Row]
    BY <1>1 DEF Init, RowOK
  <1>3. TypeOK
    BY <1>2 DEF Init, TypeOK
  <1> QED
    BY <1>1, <1>3 DEF BoardInv, RowsOK

\* A step that rewrites rows, each into one that is in order, keeps the table
\* in order.
LEMMA RowsStep ==
  ASSUME jobs' = [j \in Job |-> jobs'[j]], \A j \in Job : RowOK(jobs'[j])
  PROVE  jobs' \in [Job -> Row] /\ RowsOK'
  BY DEF RowsOK, RowOK

\* The same for a step that rewrites one row.
LEMMA RowStep ==
  ASSUME BoardInv, NEW j \in Job, NEW row, RowOK(row), jobs' = [jobs EXCEPT ![j] = row]
  PROVE  jobs' \in [Job -> Row] /\ RowsOK'
  BY DEF BoardInv, TypeOK, RowsOK, RowOK

\* The requests in flight keep their type when only leases are added and the
\* clock does not go back.
LEMMA RequestsType ==
  ASSUME BoardInv, clock' \in Nat, clock' >= clock,
         leases' = leases \/ \E e : leases' = Append(leases, e),
         completing' \subseteq completing, choosing' \subseteq choosing
  PROVE  /\ completing' \subseteq [lease : Lease', result : Results, now : 1..clock']
         /\ choosing' \subseteq [job : Job, item : Item, now : 1..clock']
  <1>1. /\ completing \subseteq [lease : Lease, result : Results, now : 1..clock]
        /\ choosing \subseteq [job : Job, item : Item, now : 1..clock]
        /\ clock \in Nat /\ leases \in Seq([job : Job, version : Nat])
    BY DEF BoardInv, TypeOK
  <1>2. 1..clock \subseteq 1..clock'
    BY <1>1
  <1>3. Len(leases') = Len(leases) \/ Len(leases') = Len(leases) + 1
    BY <1>1
  <1>4. Lease \subseteq Lease'
    BY <1>1, <1>3, LenProperties DEF Lease
  <1> QED
    BY <1>1, <1>2, <1>4

\* Every lease names a job, and a request waiting on R2 has a lease.
LEMMA LeaseType ==
  ASSUME BoardInv, NEW l \in Lease
  PROVE  /\ leases[l].job \in Job /\ leases[l].version \in Nat
         /\ l \in Nat
         /\ RowOK(jobs[leases[l].job]) /\ jobs[leases[l].job] \in Row
  <1>1. leases[l] \in [job : Job, version : Nat]
    BY ElementOfSeq DEF BoardInv, TypeOK, Lease
  <1> QED
    BY <1>1 DEF BoardInv, RowsOK, RowOK, Lease

\* A step that rewrites one row and nothing else keeps the invariant.
LEMMA OneRowStep ==
  ASSUME BoardInv, NEW j \in Job, NEW row, RowOK(row), jobs' = [jobs EXCEPT ![j] = row],
         UNCHANGED <<clock, artifacts, completions, leases, completing, choosing>>
  PROVE  BoardInv'
  <1>1. jobs' \in [Job -> Row] /\ RowsOK'
    BY RowStep
  <1> QED
    BY <1>1 DEF BoardInv, TypeOK, Lease

------------------------------------------------------------------------------
(* People *)

\* createJob keeps the invariant.
LEMMA CreateJobInv ==
  ASSUME BoardInv, NEW j \in Job, NEW leg \in Legs, CreateJob(j, leg)
  PROVE  BoardInv'
  <1>1. RowOK(NewRow(leg, clock))
    BY NewRowOK, Inputs DEF BoardInv, TypeOK
  <1> QED
    BY <1>1, OneRowStep DEF CreateJob

\* deleteJob keeps the invariant.
LEMMA DeleteJobInv ==
  ASSUME BoardInv, NEW j \in Job, DeleteJob(j)
  PROVE  BoardInv'
  <1>1. jobs' \in [Job -> Row] /\ RowsOK'
    BY EmptyRowOK, RowStep DEF DeleteJob, NoRow
  <1>2. artifacts' \in [Job -> Seq(Artifact)]
    BY DEF DeleteJob, BoardInv, TypeOK
  <1> QED
    BY <1>1, <1>2 DEF DeleteJob, BoardInv, TypeOK, Lease

\* The Worker's check of a finished job keeps the invariant.
LEMMA CheckChoiceInv ==
  ASSUME BoardInv, NEW j \in Job, NEW i \in Item, CheckChoice(j, i)
  PROVE  BoardInv'
  <1>1. clock \in 1..clock
    BY DEF BoardInv, TypeOK
  <1> QED
    BY <1>1 DEF CheckChoice, BoardInv, TypeOK, RowsOK, Lease

\* setOverride keeps the invariant, whatever the job became since the check.
LEMMA SetOverrideInv ==
  ASSUME BoardInv, NEW c \in choosing, SetOverride(c)
  PROVE  BoardInv'
  <1> DEFINE r == jobs[c.job]
             s == Chosen(r, c.item, c.now)
             row == IF r.task_kind = "none" /\ r.has_state
                    THEN QueueTask(s, "sync", c.now) ELSE s
  <1>1. c.job \in Job /\ c.item \in Item /\ c.now \in Nat
    BY DEF BoardInv, TypeOK
  <1>2. RowOK(r)
    BY <1>1 DEF BoardInv, RowsOK
  <1>3. RowOK(row)
    BY <1>1, <1>2, ChosenOK
  <1>4. jobs' \in [Job -> Row] /\ RowsOK'
    BY <1>1, <1>3, RowStep DEF SetOverride
  <1> QED
    BY <1>4 DEF SetOverride, BoardInv, TypeOK, Lease

\* queueReview keeps the invariant.
LEMMA QueueReviewInv ==
  ASSUME BoardInv, NEW j \in Job, NEW leg \in Legs, NEW t \in RequestTimes,
         QueueReview(j, leg, t)
  PROVE  BoardInv'
  <1>1. RowOK(jobs[j]) /\ leg \in Nat \ {0} /\ t \in Nat
    BY RequestTimesNat, Inputs DEF BoardInv, RowsOK
  <1>2. RowOK(IF jobs[j].task_kind = "sync" /\ jobs[j].task_state = "claimed"
              THEN [Reopened(jobs[j], leg, t) EXCEPT !.pending_review = leg]
              ELSE QueueTask(Reopened(jobs[j], leg, t), "review", t))
    BY <1>1, ReviewQueuedOK DEF QueueReview
  <1> QED
    BY <1>2, OneRowStep DEF QueueReview

------------------------------------------------------------------------------
(* Runners *)

\* A claim keeps the invariant: the claimed row and the rows it retired.
LEMMA ClaimTaskInv ==
  ASSUME BoardInv, NEW j \in Job, NEW skipped \in SUBSET Job, NEW t \in RequestTimes,
         ClaimTask(j, skipped, t)
  PROVE  BoardInv'
  <1> DEFINE lease == Len(leases) + 1
  <1>1. t \in Nat /\ lease \in Nat /\ NextRev(j) \in Nat
    BY RequestTimesNat, LenProperties DEF BoardInv, TypeOK, NextRev
  <1>2. RowOK(Claimed(jobs[j], lease, NextRev(j), t))
    BY <1>1, ClaimedOK DEF ClaimTask, BoardInv, RowsOK, Queued
  <1>3. \A k \in Job : RowOK(FailRow(jobs[k], t))
    BY <1>1, FailRowOK DEF BoardInv, RowsOK
  <1>4. \A k \in Job : RowOK(jobs'[k])
    BY <1>2, <1>3 DEF ClaimTask, BoardInv, RowsOK
  <1>5. jobs' \in [Job -> Row] /\ RowsOK'
    BY <1>4, RowsStep DEF ClaimTask
  <1>6. artifacts' \in [Job -> Seq(Artifact)]
    <2>1. [lease |-> lease, state |-> "staging"] \in Artifact
      BY <1>1 DEF Artifact, ArtifactState
    <2>2. Append(artifacts[j], [lease |-> lease, state |-> "staging"]) \in Seq(Artifact)
      BY <2>1, AppendProperties DEF BoardInv, TypeOK
    <2> QED
      BY <2>2 DEF ClaimTask, BoardInv, TypeOK
  <1>7. leases' \in Seq([job : Job, version : Nat])
    <2>1. [job |-> j, version |-> jobs[j].overrides_version] \in [job : Job, version : Nat]
      BY DEF BoardInv, TypeOK, Row
    <2> QED
      BY <2>1, AppendProperties DEF ClaimTask, BoardInv, TypeOK
  <1>8. /\ completing' \subseteq [lease : Lease', result : Results, now : 1..clock']
        /\ choosing' \subseteq [job : Job, item : Item, now : 1..clock']
    BY RequestsType DEF ClaimTask, BoardInv, TypeOK
  <1> QED
    BY <1>5, <1>6, <1>7, <1>8 DEF ClaimTask, BoardInv, TypeOK

\* A claim that finds nothing to give keeps the invariant.
LEMMA ClaimNothingInv ==
  ASSUME BoardInv, NEW t \in RequestTimes, ClaimNothing(t)
  PROVE  BoardInv'
  <1>1. t \in Nat
    BY RequestTimesNat DEF BoardInv
  <1>2. \A k \in Job : RowOK(jobs'[k])
    BY <1>1, FailRowOK DEF ClaimNothing, BoardInv, RowsOK
  <1>3. jobs' \in [Job -> Row] /\ RowsOK'
    BY <1>2, RowsStep DEF ClaimNothing
  <1> QED
    BY <1>3 DEF ClaimNothing, BoardInv, TypeOK, Lease

\* checkLease keeps the invariant.
LEMMA RenewInv ==
  ASSUME BoardInv, NEW l \in Lease, NEW t \in RequestTimes, Renew(l, t)
  PROVE  BoardInv'
  <1> DEFINE j == leases[l].job
             row == [jobs[j] EXCEPT !.lease_expires = t + LeaseMs, !.updated_at = t]
  <1>1. j \in Job /\ RowOK(jobs[j]) /\ t \in Nat /\ t + LeaseMs \in Nat
    BY LeaseType, RequestTimesNat, Limits DEF BoardInv
  <1>2. row = [jobs[j] EXCEPT !.steps = jobs[j].steps, !.lease_expires = t + LeaseMs,
                              !.updated_at = t]
    BY <1>1 DEF RowOK, Row
  <1>3. RowOK(row)
    <2>1. jobs[j].steps \in StepsType
      BY <1>1 DEF RowOK, Row
    <2> QED
      BY <1>1, <1>2, <2>1, RenewedOK
  <1> QED
    BY <1>1, <1>3, OneRowStep DEF Renew

\* progress keeps the invariant.
LEMMA ProgressInv ==
  ASSUME BoardInv, NEW l \in Lease, NEW e \in Events, NEW t \in RequestTimes,
         Progress(l, e, t)
  PROVE  BoardInv'
  <1> DEFINE j == leases[l].job
             steps == IF jobs[j].task_kind = "sync" THEN jobs[j].steps
                      ELSE ApplyStepProgress(jobs[j].steps, e)
  <1>1. j \in Job /\ RowOK(jobs[j]) /\ t \in Nat /\ t + LeaseMs \in Nat
    BY LeaseType, RequestTimesNat, Limits DEF BoardInv
  <1>2. steps \in StepsType
    <2>1. jobs[j].steps \in StepsType /\ e \in StepEvent
      BY <1>1, Inputs DEF RowOK, Row
    <2> QED
      BY <2>1 DEF ApplyStepProgress, StepsType, StepEvent
  <1>3. RowOK(Progressed(jobs[j], e, t))
    BY <1>1, <1>2, RenewedOK DEF Progressed
  <1> QED
    BY <1>1, <1>3, OneRowStep DEF Progress

\* The first part of complete keeps the invariant.
LEMMA CompleteBeginInv ==
  ASSUME BoardInv, NEW l \in Lease, NEW result \in Results, NEW t \in RequestTimes,
         CompleteBegin(l, result, t)
  PROVE  BoardInv'
  <1>1. [lease |-> l, result |-> result, now |-> t]
          \in [lease : Lease, result : Results, now : 1..clock]
    BY RequestTimesNat DEF BoardInv
  <1> QED
    BY <1>1 DEF CompleteBegin, BoardInv, TypeOK, RowsOK, Lease

\* What a waiting complete call carries.
LEMMA CompletingType ==
  ASSUME BoardInv, NEW c \in completing
  PROVE  c.lease \in Lease /\ c.result \in Results /\ c.now \in Nat
  BY DEF BoardInv, TypeOK

\* A receipt of a lease names the lease's job.
LEMMA ReceiptType ==
  ASSUME BoardInv, NEW l \in Lease, NEW result \in Result
  PROVE  Receipt(l, result) \in [job : Job, lease : Nat, result : Result]
  BY LeaseType DEF Receipt

\* artifactTransition keeps the table artifact_attempts well typed.
LEMMA ArtifactStep ==
  ASSUME BoardInv, NEW j \in Job, NEW from, NEW to \in ArtifactState,
         artifacts' = [artifacts EXCEPT ![j] =
                         MoveArtifact(artifacts[j], jobs[j].next_rev, from, to)]
  PROVE  artifacts' \in [Job -> Seq(Artifact)]
  <1>1. artifacts[j] \in Seq(Artifact) /\ jobs[j].next_rev \in Nat
    BY DEF BoardInv, TypeOK, Row
  <1>2. MoveArtifact(artifacts[j], jobs[j].next_rev, from, to) \in Seq(Artifact)
    BY <1>1, MoveArtifactType
  <1> QED
    BY <1>2 DEF BoardInv, TypeOK

\* The publishing part of complete keeps the invariant.
LEMMA CompleteCommitInv ==
  ASSUME BoardInv, NEW c \in completing, CompleteCommit(c)
  PROVE  BoardInv'
  <1> DEFINE j == leases[c.lease].job
  <1>1. /\ c.lease \in Lease /\ c.result \in Results /\ c.now \in Nat
        /\ j \in Job /\ RowOK(jobs[j]) /\ leases[c.lease].version \in Nat
    BY CompletingType, LeaseType
  <1>2. RowOK(Published(jobs[j], c.result, leases[c.lease].version, c.now))
    BY <1>1, PublishedOK DEF CompleteCommit, StillCompletes, Held
  <1>3. jobs' \in [Job -> Row] /\ RowsOK'
    BY <1>1, <1>2, RowStep DEF CompleteCommit
  <1>4. artifacts' \in [Job -> Seq(Artifact)]
    BY <1>1, ArtifactStep DEF CompleteCommit, ArtifactState
  <1>5. Receipt(c.lease, c.result) \in [job : Job, lease : Nat, result : Result]
    BY <1>1, ReceiptType DEF Result
  <1> QED
    BY <1>3, <1>4, <1>5 DEF CompleteCommit, BoardInv, TypeOK, Lease

\* A complete that throws after sealing keeps the invariant.
LEMMA CompleteThrowInv ==
  ASSUME BoardInv, NEW c \in completing, CompleteThrow(c)
  PROVE  BoardInv'
  <1>1. leases[c.lease].job \in Job
    BY CompletingType, LeaseType
  <1>2. artifacts' \in [Job -> Seq(Artifact)]
    BY <1>1, ArtifactStep DEF CompleteThrow, ArtifactState
  <1> QED
    BY <1>2 DEF CompleteThrow, BoardInv, TypeOK, RowsOK, Lease

\* A refused review keeps the invariant.
LEMMA RefuseReviewInv ==
  ASSUME BoardInv, NEW l \in Lease, NEW t \in RequestTimes, RefuseReview(l, t)
  PROVE  BoardInv'
  <1> DEFINE j == leases[l].job
  <1>1. j \in Job /\ RowOK(jobs[j]) /\ t \in Nat
    BY LeaseType, RequestTimesNat DEF BoardInv
  <1>2. RowOK(RestorePrior(jobs[j], t))
    BY <1>1, RestorePriorOK DEF RefuseReview, TaskAllowed
  <1>3. jobs' \in [Job -> Row] /\ RowsOK'
    BY <1>1, <1>2, RowStep DEF RefuseReview
  <1>4. artifacts' \in [Job -> Seq(Artifact)]
    BY <1>1, ArtifactStep DEF RefuseReview, EndArtifact, ArtifactState
  <1>5. Receipt(l, Refused) \in [job : Job, lease : Nat, result : Result]
    BY ReceiptType DEF Result
  <1> QED
    BY <1>3, <1>4, <1>5 DEF RefuseReview, BoardInv, TypeOK, Lease

\* fail keeps the invariant: a sync is retried or stopped, a job fails.
LEMMA FailTaskInv ==
  ASSUME BoardInv, NEW l \in Lease, NEW t \in RequestTimes, FailTask(l, t)
  PROVE  BoardInv'
  <1> DEFINE j == leases[l].job
             r == jobs[j]
  <1>1. j \in Job /\ RowOK(r) /\ t \in Nat /\ r.task_state = "claimed"
    BY LeaseType, RequestTimesNat DEF BoardInv, FailTask, HeldJob, Held
  <1>2. r.task_kind = "sync" => RowOK(RetrySync(r, t))
    <2>1. CASE r.task_kind = "sync" /\ SyncStops(r)
      BY <1>1, <2>1, StopSyncOK DEF RetrySync
    <2>2. CASE r.task_kind = "sync" /\ ~SyncStops(r)
      BY <1>1, <2>2, RequeueOK DEF RetrySync, SyncStops
    <2> QED
      BY <2>1, <2>2
  <1>3. RowOK(FailRow(r, t))
    BY <1>1, FailRowOK
  <1>4. jobs' \in [Job -> Row] /\ RowsOK'
    BY <1>1, <1>2, <1>3, RowStep DEF FailTask
  <1>5. artifacts' \in [Job -> Seq(Artifact)]
    <2>1. CASE r.task_kind = "sync" /\ ~SyncStops(r)
      BY <1>1, <2>1, ArtifactStep DEF FailTask, RequeueArtifact, ArtifactState
    <2>2. CASE ~(r.task_kind = "sync" /\ ~SyncStops(r))
      BY <1>1, <2>2, ArtifactStep DEF FailTask, EndArtifact, ArtifactState
    <2> QED
      BY <2>1, <2>2
  <1> QED
    BY <1>4, <1>5 DEF FailTask, BoardInv, TypeOK, Lease

------------------------------------------------------------------------------
(* The alarm *)

\* The alarm keeps the invariant over all rows at once.
LEMMA SweepInv ==
  ASSUME BoardInv, Sweep
  PROVE  BoardInv'
  <1>1. clock \in Nat
    BY DEF BoardInv, TypeOK
  <1>2. \A j \in Job : RowOK(Swept(j, clock)) /\ RowOK(EmptyRow("deleted"))
    BY <1>1, SweepTaskOK, EmptyRowOK DEF BoardInv, RowsOK, Swept, NoRow
  <1>3. jobs' \in [Job -> Row] /\ RowsOK'
    BY <1>2, RowsStep DEF Sweep
  <1>4. \A j \in Job : SweptArtifacts(j, clock) \in Seq(Artifact)
    <2>1. \A j \in Job : artifacts[j] \in Seq(Artifact) /\ jobs[j].next_rev \in Nat
      BY DEF BoardInv, TypeOK, Row
    <2> QED
      BY <2>1, MoveArtifactType
         DEF SweptArtifacts, RequeueArtifact, EndArtifact, ArtifactState
  <1>5. artifacts' \in [Job -> Seq(Artifact)]
    <2>1. <<>> \in Seq(Artifact)
      BY EmptySeq
    <2> QED
      BY <1>4, <2>1 DEF Sweep
  <1> QED
    BY <1>3, <1>5 DEF Sweep, BoardInv, TypeOK, Lease

\* Time passing keeps the invariant.
LEMMA TickInv ==
  ASSUME BoardInv, Tick
  PROVE  BoardInv'
  <1>1. clock' \in Nat \ {0} /\ clock' >= clock
    BY DEF Tick, BoardInv, TypeOK
  <1>2. /\ completing' \subseteq [lease : Lease', result : Results, now : 1..clock']
        /\ choosing' \subseteq [job : Job, item : Item, now : 1..clock']
    BY <1>1, RequestsType DEF Tick
  <1> QED
    BY <1>1, <1>2 DEF Tick, BoardInv, TypeOK, RowsOK

------------------------------------------------------------------------------
(* The inductive invariant *)

\* The invariant is inductive: every action of the board keeps it.
LEMMA NextInv == BoardInv /\ [Next]_vars => BoardInv'
  <1> SUFFICES ASSUME BoardInv, [Next]_vars PROVE BoardInv'
    OBVIOUS
  <1>1. CASE PersonNext
    <2>1. ASSUME NEW j \in Job, NEW leg \in Legs, CreateJob(j, leg) PROVE BoardInv'
      BY <2>1, CreateJobInv
    <2>2. ASSUME NEW j \in Job, DeleteJob(j) PROVE BoardInv'
      BY <2>2, DeleteJobInv
    <2>3. ASSUME NEW j \in Job, NEW i \in Item, CheckChoice(j, i) PROVE BoardInv'
      BY <2>3, CheckChoiceInv
    <2>4. ASSUME NEW c \in choosing, SetOverride(c) PROVE BoardInv'
      BY <2>4, SetOverrideInv
    <2>5. ASSUME NEW c \in choosing, DropChoice(c) PROVE BoardInv'
      BY <2>5 DEF DropChoice, BoardInv, TypeOK, RowsOK, Lease
    <2>6. ASSUME NEW j \in Job, NEW leg \in Legs, NEW t \in RequestTimes, QueueReview(j, leg, t)
          PROVE  BoardInv'
      BY <2>6, QueueReviewInv
    <2> QED
      BY <1>1, <2>1, <2>2, <2>3, <2>4, <2>5, <2>6 DEF PersonNext
  <1>2. CASE Claim
    <2>1. ASSUME NEW j \in Job, NEW skipped \in SUBSET Job, NEW t \in RequestTimes,
                 ClaimTask(j, skipped, t)
          PROVE  BoardInv'
      BY <2>1, ClaimTaskInv
    <2>2. ASSUME NEW t \in RequestTimes, ClaimNothing(t) PROVE BoardInv'
      BY <2>2, ClaimNothingInv
    <2> QED
      BY <1>2, <2>1, <2>2 DEF Claim
  <1>3. CASE RunnerNext
    <2>1. ASSUME NEW l \in Lease, NEW t \in RequestTimes, Renew(l, t) PROVE BoardInv'
      BY <2>1, RenewInv
    <2>2. ASSUME NEW l \in Lease, NEW e \in Events, NEW t \in RequestTimes, Progress(l, e, t)
          PROVE  BoardInv'
      BY <2>2, ProgressInv
    <2>3. ASSUME NEW l \in Lease, NEW result \in Results, NEW t \in RequestTimes,
                 CompleteBegin(l, result, t)
          PROVE  BoardInv'
      BY <2>3, CompleteBeginInv
    <2>4. ASSUME NEW c \in completing, CompleteCommit(c) PROVE BoardInv'
      BY <2>4, CompleteCommitInv
    <2>5. ASSUME NEW c \in completing, CompleteThrow(c) PROVE BoardInv'
      BY <2>5, CompleteThrowInv
    <2>6. ASSUME NEW c \in completing, CompleteDrop(c) PROVE BoardInv'
      BY <2>6 DEF CompleteDrop, BoardInv, TypeOK, RowsOK, Lease
    <2>7. ASSUME NEW l \in Lease, NEW t \in RequestTimes, RefuseReview(l, t) PROVE BoardInv'
      BY <2>7, RefuseReviewInv
    <2>8. ASSUME NEW l \in Lease, NEW t \in RequestTimes, FailTask(l, t) PROVE BoardInv'
      BY <2>8, FailTaskInv
    <2> QED
      BY <1>3, <2>1, <2>2, <2>3, <2>4, <2>5, <2>6, <2>7, <2>8 DEF RunnerNext
  <1>4. CASE Sweep
    BY <1>4, SweepInv
  <1>5. CASE Tick
    BY <1>5, TickInv
  <1>6. CASE UNCHANGED vars
    BY <1>6 DEF vars, BoardInv, TypeOK, RowsOK, Lease
  <1> QED
    BY <1>1, <1>2, <1>3, <1>4, <1>5, <1>6 DEF Next

\* The tables are well typed and every row is in order in every reachable
\* state: the handlers of board.ts never leave a row that the next one (a
\* claim, a sweep, a completion) would not expect.
THEOREM BoardInvariant == Spec => []BoardInv
  <1>1. Init => BoardInv
    BY InitInv
  <1>2. BoardInv /\ [Next]_vars => BoardInv'
    BY NextInv
  <1> QED
    BY <1>1, <1>2, PTL DEF Spec

------------------------------------------------------------------------------
(* What the invariant gives *)

\* Every table and request keeps the shape the schemas of board.ts give it.
THEOREM TypeCorrect == Spec => []TypeOK
  <1>1. BoardInv => TypeOK
    BY DEF BoardInv
  <1> QED
    BY <1>1, BoardInvariant, PTL

\* A job shows as queued or processing exactly while it has the task that ends
\* that: no way a task ends, is retried or is refused leaves it stuck.
THEOREM ActiveJobsHaveTasks == Spec => []ActiveHasTask
  <1>1. BoardInv => ActiveHasTask
    BY DEF BoardInv, RowsOK, RowOK, ActiveHasTask
  <1> QED
    BY <1>1, BoardInvariant, PTL

\* board.ts keeps a person's Gateway leg exactly while the job has a process
\* or review task, or a review waiting, that needs it.
THEOREM LegsAreScoped == Spec => []CredentialScope
  <1>1. BoardInv => CredentialScope
    BY DEF BoardInv, RowsOK, RowOK, CredentialScope
  <1> QED
    BY <1>1, BoardInvariant, PTL

\* relayCredential gives the leg to the runner that holds a process or review
\* task for as long as it holds it, also to a request whose time lags.
THEOREM RelayIsServed == Spec => []RelayWhileHeld
  <1>1. BoardInv => RelayWhileHeld
    <2> SUFFICES ASSUME BoardInv, NEW l \in Lease, NEW t \in RequestTimes,
                        HeldJob(l, t), jobs[leases[l].job].task_kind # "sync"
                 PROVE  LET r == jobs[leases[l].job]
                        IN  MayRelay(r.task_kind, r.gateway_exp, t)
      BY DEF RelayWhileHeld
    <2> DEFINE r == jobs[leases[l].job]
    <2>1. RowOK(r) /\ r \in Row /\ t \in Nat
      BY LeaseType, RequestTimesNat DEF BoardInv
    <2>2. r.task_state = "claimed" /\ r.deadline > t
      BY DEF HeldJob, Held
    <2>3. r.deadline + GatewayMargin <= r.gateway_exp
      BY <2>1, <2>2 DEF RowOK, DeadlineInLeg
    <2>4. r.gateway_exp \in Nat /\ r.gateway_exp > t + GatewayMargin /\ r.gateway_exp # NoLeg
      BY <2>1, <2>2, <2>3, CredentialLimits DEF Row, NoLeg
    <2>5. CredentialEligibility(r.task_kind, r.gateway_exp, t)
            \in {"queue_eligible", "claim_eligible", "relay_only"}
      BY <2>1, <2>4, CredentialLimits DEF CredentialEligibility
    <2> QED
      BY <2>5 DEF MayRelay
  <1> QED
    BY <1>1, BoardInvariant, PTL

------------------------------------------------------------------------------
(***************************************************************************)
(* Proofs about the results of a board: what a claim gave, what was staged *)
(* and published, the receipts, and what a job shows of them.              *)
(*                                                                         *)
(* The account of a job is its row, its revisions and its receipts.  Every *)
(* action of JobBoard moves each job by one of a few moves (NextMoves);    *)
(* each move keeps the account in order (MoveKept), so the account is an   *)
(* invariant; and each property of a step is a property of the moves.      *)
(***************************************************************************)
------------------------------------------------------------------------------
(* What is in order *)

\* What RowOK does not say of a row: a review has a result to go back to, only a result
\* that was shown is kept for it, what renders a result has one, no choice is newer than
\* the last, a row that is not there is blank, and only a claim names a revision.
KeptRow(r) ==
  /\ PriorKept(r)
  /\ r.prior = NoPrior \/ r.prior.status \in OutputReady
  /\ r.task_kind \in {"review", "sync"} => r.has_state
  /\ r.task_kind = "process" => ~r.has_state
  /\ \A i \in Item : r.overrides[i] <= r.overrides_version
  /\ ~Exists(r) => r = EmptyRow(r.status)
  /\ r.task_state # "claimed" => r.next_rev = 0

\* Revisions a and receipts cs of the job j agree with the leases ls.
Recorded(a, cs, ls, j) ==
  /\ a \in Seq(Artifact) /\ Len(a) <= Len(ls)
  /\ \A v \in 1..Len(a) : a[v].lease \in 1..Len(ls) /\ ls[a[v].lease].job = j
  /\ \A v, w \in 1..Len(a) : a[v].lease = a[w].lease => v = w
  /\ \A c \in cs : c.lease \in 1..Len(ls) /\ ls[c.lease].job = j
  /\ \A c, d \in cs : c.lease = d.lease => c = d
  /\ \A v \in 1..Len(a) :
       a[v].state = "published" <=> \E c \in cs : c.lease = a[v].lease /\ c.result # Refused

\* A claimed row stages a revision above the served one, under a lease that is not spent.
Staged(r, a, cs) ==
  r.task_state = "claimed" =>
    /\ r.next_rev \in 1..Len(a) /\ r.next_rev > r.rev
    /\ a[r.next_rev].lease = r.lease
    /\ a[r.next_rev].state \in {"staging", "sealed"}
    /\ \A c \in cs : c.lease # r.lease

\* The receipt of the served revision is of what the job shows.
Serves(r, a, cs, j) ==
  /\ r.rev \in 0..Len(a)
  /\ Shown(r) # NoPrior =>
       /\ r.has_state
       /\ r.rev \in 1..Len(a) /\ a[r.rev].state = "published"
       /\ [job |-> j, lease |-> a[r.rev].lease, result |-> Shown(r)] \in cs

\* A job that is not there has no revisions and no receipts.
Cleared(r, a, cs) == ~Exists(r) => a = <<>> /\ cs = {}

Ledger(r, a, cs, ls, j) ==
  /\ Recorded(a, cs, ls, j)
  /\ Staged(r, a, cs)
  /\ Serves(r, a, cs, j)
  /\ Cleared(r, a, cs)

JobReceipts(j) == {c \in completions : c.job = j}

------------------------------------------------------------------------------
(* Rows *)

\* e is r with its task ended: the result it shows stays, the task and what belongs to it go.
TaskEnded(r, e) ==
  /\ e.status = r.status /\ e.steps = r.steps
  /\ e.prior = IF r.pending_review = NoLeg THEN NoPrior ELSE r.prior
  /\ e.rev = r.rev /\ e.has_state = r.has_state
  /\ e.overrides = r.overrides /\ e.overrides_version = r.overrides_version
  /\ e.synced_version = r.synced_version
  /\ e.task_state # "claimed" /\ e.next_rev = 0 /\ e.pending_review = NoLeg

\* endTask; the waiting review comes next, or a sync of choices that are not rendered.
LEMMA EndTaskFields ==
  ASSUME NEW r \in Row, NEW now \in Nat, NEW dirty \in BOOLEAN
  PROVE  /\ TaskEnded(r, EndTask(r, now, dirty))
         /\ r.pending_review # NoLeg =>
              /\ EndTask(r, now, dirty).task_kind = "review"
              /\ EndTask(r, now, dirty).task_state = "queued"
              /\ EndTask(r, now, dirty).gateway_exp = r.pending_review
         /\ r.pending_review = NoLeg /\ dirty /\ Unsynced(r) =>
              EndTask(r, now, dirty).task_kind = "sync"
         /\ r.pending_review = NoLeg /\ ~(dirty /\ Unsynced(r)) =>
              EndTask(r, now, dirty).task_kind = "none"
  <1> DEFINE c == ClearTask(r)
             w == [c EXCEPT !.pending_review = NoLeg, !.gateway_exp = r.pending_review]
  <1>1. CASE r.pending_review # NoLeg
    <2>1. EndTask(r, now, dirty) = QueueTask(w, "review", now)
      BY <1>1 DEF EndTask
    <2> QED
      BY <1>1, <2>1 DEF QueueTask, ClearTask, Row, TaskEnded
  <1>2. CASE r.pending_review = NoLeg /\ dirty /\ Unsynced(r)
    <2>1. EndTask(r, now, dirty) = QueueTask(c, "sync", now)
      BY <1>2 DEF EndTask
    <2>2. r.pending_review = NoLeg
      BY <1>2
    <2>3. TaskEnded(r, QueueTask(c, "sync", now)) /\ QueueTask(c, "sync", now).task_kind = "sync"
      BY <2>2 DEF QueueTask, ClearTask, Row, TaskEnded
    <2> QED
      BY <1>2, <2>1, <2>3
  <1>3. CASE r.pending_review = NoLeg /\ ~(dirty /\ Unsynced(r))
    <2>1. EndTask(r, now, dirty) = c
      BY <1>3 DEF EndTask
    <2> QED
      BY <1>3, <2>1 DEF ClearTask, Row, TaskEnded
  <1> QED
    BY <1>1, <1>2, <1>3

\* failRow: the job has failed, has nothing to go back to, and has no task.
LEMMA FailRowFields ==
  ASSUME NEW r \in Row, NEW now \in Nat
  PROVE  LET e == FailRow(r, now)
         IN  /\ e.status = "failed" /\ e.prior = NoPrior
             /\ e.rev = r.rev /\ e.has_state = r.has_state
             /\ e.overrides = r.overrides /\ e.overrides_version = r.overrides_version
             /\ e.task_state # "claimed" /\ e.next_rev = 0
             /\ e.pending_review = NoLeg /\ e.task_kind = "none"
  <1> DEFINE f == [r EXCEPT !.status = "failed", !.steps = FailSteps(r.steps),
                            !.updated_at = now, !.pending_review = NoLeg]
  <1>1. FailSteps(r.steps) \in StepsType
    BY DEF FailSteps, StepsType, StepStatus, Row
  <1>2. /\ f \in Row /\ f.status = "failed" /\ f.pending_review = NoLeg
        /\ f.rev = r.rev /\ f.has_state = r.has_state /\ f.overrides = r.overrides
        /\ f.overrides_version = r.overrides_version
    BY <1>1 DEF Row, JobStatus, Terminal, NoLeg
  <1>3. ~Unsynced(f)
    BY <1>2 DEF Unsynced, OutputReady
  <1>4. FailRow(r, now) = EndTask(f, now, TRUE)
    BY DEF FailRow
  <1>5. TaskEnded(f, FailRow(r, now)) /\ FailRow(r, now).task_kind = "none"
    BY <1>2, <1>3, <1>4, EndTaskFields
  <1> QED
    BY <1>2, <1>5 DEF TaskEnded

\* What a job shows, by the parts it is made of.
LEMMA ShownParts ==
  ASSUME NEW r \in Row
  PROVE  /\ r.status \in OutputReady =>
              /\ Shown(r) = [status |-> r.status, steps |-> r.steps] /\ Shown(r) # NoPrior
         /\ r.status \notin OutputReady => Shown(r) = r.prior
  <1>1. NoPrior.status = "none"
    BY DEF NoPrior
  <1> QED
    BY <1>1 DEF Shown, OutputReady

\* What KeptRow asks of a row that exists.
LEMMA KeptParts ==
  ASSUME NEW r, Exists(r), PriorKept(r), r.prior = NoPrior \/ r.prior.status \in OutputReady,
         r.task_kind \in {"review", "sync"} => r.has_state,
         r.task_kind = "process" => ~r.has_state,
         \A i \in Item : r.overrides[i] <= r.overrides_version,
         r.task_state # "claimed" => r.next_rev = 0
  PROVE  KeptRow(r)
  BY DEF KeptRow

\* A row that is not there.
LEMMA EmptyRowKept ==
  ASSUME NEW status \in NoRow
  PROVE  KeptRow(EmptyRow(status))
  BY DEF KeptRow, EmptyRow, NoRow, PriorKept, NoLeg

\* createJob.
LEMMA NewRowKept ==
  ASSUME NEW leg \in Nat, NEW now \in Nat
  PROVE  KeptRow(NewRow(leg, now))
  BY DEF KeptRow, NewRow, EmptyRow, NoRow, PriorKept, NoLeg, Exists

\* claim: only the task, the times and, for a process task, the status change.
LEMMA ClaimedKept ==
  ASSUME NEW r, RowOK(r), KeptRow(r), r.task_state = "queued",
         NEW lease \in Nat, NEW rev \in Nat, NEW now \in Nat
  PROVE  KeptRow(Claimed(r, lease, rev, now))
  <1> DEFINE s == Claimed(r, lease, rev, now)
  <1>1. r \in Row
    BY DEF RowOK
  <1>2. Exists(r)
    BY DEF KeptRow, EmptyRow
  <1>3. /\ s.prior = r.prior /\ s.task_kind = r.task_kind /\ s.pending_review = r.pending_review
        /\ s.has_state = r.has_state /\ s.overrides = r.overrides
        /\ s.overrides_version = r.overrides_version
        /\ s.task_state = "claimed" /\ s.status = ClaimStatus(r)
    BY <1>1 DEF Claimed, Row
  <1>4. Exists(s)
    BY <1>2, <1>3 DEF Exists, ClaimStatus, NoRow
  <1> QED
    BY <1>3, <1>4, KeptParts DEF KeptRow, PriorKept

\* setOverride: the new choice is the newest.
LEMMA ChosenKept ==
  ASSUME NEW r, RowOK(r), KeptRow(r), Exists(r), NEW i \in Item, NEW now \in Nat
  PROVE  /\ KeptRow(Chosen(r, i, now))
         /\ r.task_kind = "none" /\ r.has_state => KeptRow(QueueTask(Chosen(r, i, now), "sync", now))
  <1> DEFINE s == Chosen(r, i, now)
             q == QueueTask(s, "sync", now)
  <1>1. r \in Row /\ r.overrides \in [Item -> Nat] /\ r.overrides_version \in Nat
    BY DEF RowOK, Row
  <1>2. /\ s.prior = r.prior /\ s.task_kind = r.task_kind /\ s.pending_review = r.pending_review
        /\ s.has_state = r.has_state /\ s.status = r.status
        /\ s.overrides = [r.overrides EXCEPT ![i] = r.overrides_version + 1]
        /\ s.overrides_version = r.overrides_version + 1
        /\ s.task_state = r.task_state /\ s.next_rev = r.next_rev
    BY <1>1 DEF Chosen, Row
  <1>3. \A k \in Item : s.overrides[k] <= s.overrides_version
    <2> TAKE k \in Item
    <2>1. CASE k = i
      BY <1>1, <1>2, <2>1
    <2>2. CASE k # i
      <3>1. r.overrides[k] \in Nat /\ r.overrides[k] <= r.overrides_version
        BY <1>1 DEF KeptRow
      <3>2. s.overrides[k] = r.overrides[k]
        BY <1>1, <1>2, <2>2
      <3> QED
        BY <1>1, <1>2, <3>1, <3>2
    <2> QED
      BY <2>1, <2>2
  <1>4. KeptRow(s)
    BY <1>2, <1>3, KeptParts DEF KeptRow, PriorKept, Exists
  <1>5. ASSUME r.task_kind = "none", r.has_state
        PROVE  KeptRow(q)
    <2>1. /\ q.prior = s.prior /\ q.task_kind = "sync" /\ q.pending_review = s.pending_review
          /\ q.has_state = s.has_state /\ q.status = s.status /\ q.overrides = s.overrides
          /\ q.overrides_version = s.overrides_version
          /\ q.task_state = "queued" /\ q.next_rev = 0
      <3>1. s \in Row
        BY ChosenOK DEF RowOK
      <3> HIDE DEF s
      <3> QED
        BY <3>1 DEF QueueTask, Row
    <2>2. q.has_state
      BY <1>2, <1>5, <2>1
    <2>3. Exists(q)
      BY <1>2, <2>1 DEF Exists
    <2> QED
      BY <1>4, <2>1, <2>2, <2>3, KeptParts DEF KeptRow, PriorKept
  <1> QED
    BY <1>4, <1>5

\* queueReview: the result that is shown is kept for a refusal.
LEMMA ReviewQueuedKept ==
  ASSUME NEW r, RowOK(r), KeptRow(r), NEW leg \in Nat \ {0}, NEW now \in Nat,
         ReviewAccepted(r, leg, now)
  PROVE  KeptRow(IF r.task_kind = "sync" /\ r.task_state = "claimed"
                 THEN [Reopened(r, leg, now) EXCEPT !.pending_review = leg]
                 ELSE QueueTask(Reopened(r, leg, now), "review", now))
  <1> DEFINE s == Reopened(r, leg, now)
             p == [s EXCEPT !.pending_review = leg]
             q == QueueTask(s, "review", now)
  <1>1. r \in Row /\ r.status \in OutputReady /\ r.has_state
    BY DEF RowOK, ReviewAccepted
  <1>2. /\ s.prior = [status |-> r.status, steps |-> r.steps] /\ s.status = "processing"
        /\ s.task_kind = r.task_kind /\ s.pending_review = r.pending_review
        /\ s.has_state = r.has_state /\ s.overrides = r.overrides
        /\ s.overrides_version = r.overrides_version
        /\ s.task_state = r.task_state /\ s.next_rev = r.next_rev
        /\ DOMAIN s = DOMAIN r
    BY <1>1 DEF Reopened, Row
  <1>3. s.prior.status \in OutputReady
    BY <1>1, <1>2
  <1>4. CASE r.task_kind = "sync" /\ r.task_state = "claimed"
    <2>1. /\ p.prior = s.prior /\ p.task_kind = "sync" /\ p.task_state = "claimed"
          /\ p.has_state = r.has_state /\ p.status = "processing" /\ p.overrides = r.overrides
          /\ p.overrides_version = r.overrides_version
      BY <1>1, <1>2, <1>4 DEF Reopened, Row
    <2>2. p.has_state /\ Exists(p)
      BY <1>1, <2>1 DEF Exists, NoRow
    <2>3. KeptRow(p)
      BY <1>3, <2>1, <2>2, KeptParts DEF KeptRow, PriorKept
    <2> QED
      BY <1>4, <2>3
  <1>5. CASE ~(r.task_kind = "sync" /\ r.task_state = "claimed")
    <2>1. /\ q.prior = s.prior /\ q.task_kind = "review" /\ q.task_state = "queued"
          /\ q.has_state = r.has_state /\ q.status = "processing" /\ q.overrides = r.overrides
          /\ q.overrides_version = r.overrides_version /\ q.next_rev = 0
      BY <1>1, <1>2 DEF QueueTask, Reopened, Row
    <2>2. q.has_state /\ Exists(q)
      BY <1>1, <2>1 DEF Exists, NoRow
    <2>3. KeptRow(q)
      BY <1>3, <2>1, <2>2, KeptParts DEF KeptRow, PriorKept
    <2> QED
      BY <1>5, <2>3
  <1> QED
    BY <1>4, <1>5

\* A task that ends leaves the row in order, if a review behind it finds a result.
LEMMA EndTaskKept ==
  ASSUME NEW r \in Row, NEW now \in Nat, NEW dirty \in BOOLEAN, Exists(r),
         r.pending_review # NoLeg => r.prior.status \in OutputReady /\ r.has_state,
         \A i \in Item : r.overrides[i] <= r.overrides_version
  PROVE  KeptRow(EndTask(r, now, dirty))
  <1> DEFINE e == EndTask(r, now, dirty)
  <1>1. TaskEnded(r, e)
    BY EndTaskFields
  <1>2. /\ Exists(e) /\ \A i \in Item : e.overrides[i] <= e.overrides_version
        /\ e.next_rev = 0 /\ e.pending_review = NoLeg
    BY <1>1 DEF TaskEnded, Exists
  <1>3. CASE r.pending_review # NoLeg
    <2>1. e.task_kind = "review" /\ e.prior = r.prior /\ e.has_state = r.has_state
      BY <1>1, <1>3, EndTaskFields DEF TaskEnded
    <2>2. e.has_state /\ e.prior.status \in OutputReady
      BY <1>3, <2>1
    <2> QED
      BY <1>2, <2>1, <2>2, KeptParts DEF PriorKept
  <1>4. CASE r.pending_review = NoLeg
    <2>1. e.prior = NoPrior
      BY <1>1, <1>4 DEF TaskEnded
    <2>2. CASE dirty /\ Unsynced(r)
      <3>1. e.task_kind = "sync"
        BY <1>4, <2>2, EndTaskFields
      <3>2. r.has_state /\ e.has_state = r.has_state
        BY <1>1, <2>2 DEF Unsynced, TaskEnded
      <3> QED
        BY <1>2, <2>1, <3>1, <3>2, KeptParts DEF PriorKept
    <2>3. CASE ~(dirty /\ Unsynced(r))
      <3>1. e.task_kind = "none"
        BY <1>4, <2>3, EndTaskFields
      <3> QED
        BY <1>2, <2>1, <3>1, KeptParts DEF PriorKept
    <2> QED
      BY <2>2, <2>3
  <1> QED
    BY <1>3, <1>4

\* failRow.
LEMMA FailRowKept ==
  ASSUME NEW r, RowOK(r), KeptRow(r), NEW now \in Nat
  PROVE  KeptRow(FailRow(r, now))
  <1> DEFINE e == FailRow(r, now)
  <1>1. r \in Row
    BY DEF RowOK
  <1>2. /\ e.status = "failed" /\ e.prior = NoPrior
        /\ e.overrides = r.overrides /\ e.overrides_version = r.overrides_version
        /\ e.next_rev = 0 /\ e.pending_review = NoLeg /\ e.task_kind = "none"
    BY <1>1, FailRowFields
  <1>3. Exists(e)
    BY <1>2 DEF Exists, NoRow
  <1> QED
    BY <1>2, <1>3, KeptParts DEF KeptRow, PriorKept

\* stopSync.
LEMMA StopSyncKept ==
  ASSUME NEW r, RowOK(r), KeptRow(r), r.task_kind = "sync", NEW now \in Nat
  PROVE  KeptRow(StopSync(r, now))
  <1>1. r \in Row /\ r.has_state
    BY DEF RowOK, KeptRow
  <1>2. Exists(r)
    BY DEF KeptRow, EmptyRow
  <1> QED
    BY <1>1, <1>2, EndTaskKept DEF StopSync, KeptRow, PriorKept

\* requeue leaves the result, the choices and the task's kind as they are.
LEMMA RequeueFields ==
  ASSUME NEW r \in Row, NEW now \in Nat
  PROVE  LET e == Requeue(r, now)
         IN  /\ e.status = RequeuedStatus(r) /\ e.prior = r.prior /\ e.rev = r.rev
             /\ e.has_state = r.has_state
             /\ e.task_kind = r.task_kind /\ e.task_state = "queued" /\ e.next_rev = 0
             /\ e.pending_review = r.pending_review
             /\ e.overrides = r.overrides /\ e.overrides_version = r.overrides_version
             /\ e.synced_version = r.synced_version
             /\ r.task_kind = "sync" => e.steps = r.steps
  BY DEF Requeue, Row

\* A requeued row is in order.
LEMMA RequeueKept ==
  ASSUME NEW r, RowOK(r), KeptRow(r), r.task_state = "claimed", NEW now \in Nat
  PROVE  KeptRow(Requeue(r, now))
  <1> DEFINE e == Requeue(r, now)
  <1>1. r \in Row
    BY DEF RowOK
  <1>2. Exists(r)
    BY DEF KeptRow, EmptyRow
  <1>3. Exists(e)
    BY <1>1, <1>2, RequeueFields DEF Exists, RequeuedStatus, NoRow
  <1>4. /\ e.prior = r.prior /\ e.has_state = r.has_state /\ e.task_kind = r.task_kind
        /\ e.next_rev = 0 /\ e.pending_review = r.pending_review
        /\ e.overrides = r.overrides /\ e.overrides_version = r.overrides_version
    BY <1>1, RequeueFields
  <1> QED
    BY <1>3, <1>4, KeptParts DEF KeptRow, PriorKept

\* checkLease and progress.
LEMMA RenewedKept ==
  ASSUME NEW r, RowOK(r), KeptRow(r), r.task_state = "claimed",
         NEW steps, NEW expires, NEW now
  PROVE  KeptRow([r EXCEPT !.steps = steps, !.lease_expires = expires, !.updated_at = now])
  <1> DEFINE e == [r EXCEPT !.steps = steps, !.lease_expires = expires, !.updated_at = now]
  <1>1. r \in Row
    BY DEF RowOK
  <1>2. Exists(r)
    BY DEF KeptRow, EmptyRow
  <1>3. /\ e.prior = r.prior /\ e.has_state = r.has_state /\ e.task_kind = r.task_kind
        /\ e.task_state = "claimed" /\ e.pending_review = r.pending_review
        /\ e.overrides = r.overrides /\ e.overrides_version = r.overrides_version
        /\ e.status = r.status
    BY <1>1 DEF Row
  <1>4. Exists(e)
    BY <1>2, <1>3 DEF Exists
  <1> QED
    BY <1>3, <1>4, KeptParts DEF KeptRow, PriorKept

\* complete: what the published row has before its task ends.
PublishedRow(r, result, version, now) ==
  [r EXCEPT !.status = StatusAfter(r, result),
            !.steps = IF r.pending_review # NoLeg THEN r.steps ELSE result.steps,
            !.prior = IF r.pending_review # NoLeg THEN result ELSE r.prior,
            !.rev = r.next_rev,
            !.has_state = result.status \in OutputReady,
            !.synced_version = version,
            !.overrides = OverridesAfter(r.overrides, version),
            !.updated_at = now]

\* p is r with the result published.
ResultIn(r, p, result, version) ==
  /\ p.status = StatusAfter(r, result)
  /\ p.steps = IF r.pending_review # NoLeg THEN r.steps ELSE result.steps
  /\ p.prior = IF r.pending_review # NoLeg THEN result ELSE r.prior
  /\ p.rev = r.next_rev
  /\ p.has_state <=> result.status \in OutputReady
  /\ p.synced_version = version
  /\ p.overrides = OverridesAfter(r.overrides, version)
  /\ p.overrides_version = r.overrides_version
  /\ p.pending_review = r.pending_review

\* complete writes the result into the row and then ends its task.
LEMMA PublishedFields ==
  ASSUME NEW r \in Row, NEW result \in Results, NEW version \in Nat, NEW now \in Nat
  PROVE  /\ PublishedRow(r, result, version, now) \in Row
         /\ ResultIn(r, PublishedRow(r, result, version, now), result, version)
         /\ Published(r, result, version, now)
              = EndTask(PublishedRow(r, result, version, now), now, TRUE)
  <1> DEFINE waiting == r.pending_review # NoLeg
             status == StatusAfter(r, result)
             steps == IF waiting THEN r.steps ELSE result.steps
             prior == IF waiting THEN result ELSE r.prior
             ready == result.status \in OutputReady
             overrides == OverridesAfter(r.overrides, version)
  <1>1. result \in [status : Terminal, steps : StepsType]
    BY Inputs
  <1>2. overrides \in [Item -> Nat]
    BY DEF OverridesAfter, Row
  <1>3. /\ steps \in StepsType
        /\ prior \in [status : JobStatus \cup {"none"}, steps : StepsType]
    BY <1>1 DEF Row, JobStatus
  <1>4. status \in JobStatus \cup NoRow /\ ready \in BOOLEAN
    BY <1>1 DEF StatusAfter, Row, JobStatus
  <1>5. Published(r, result, version, now) = EndTask(PublishedRow(r, result, version, now), now, TRUE)
    BY DEF Published, PublishedRow
  <1> HIDE DEF status, steps, prior, ready, overrides
  <1>6. LET p == [r EXCEPT !.status = status, !.steps = steps, !.prior = prior,
                           !.rev = r.next_rev, !.has_state = ready,
                           !.synced_version = version, !.overrides = overrides,
                           !.updated_at = now]
        IN  /\ p \in Row
            /\ p.status = status /\ p.steps = steps /\ p.prior = prior /\ p.rev = r.next_rev
            /\ p.has_state = ready /\ p.synced_version = version /\ p.overrides = overrides
            /\ p.overrides_version = r.overrides_version
            /\ p.pending_review = r.pending_review
    BY <1>2, <1>3, <1>4 DEF Row
  <1> QED
    BY <1>5, <1>6 DEF PublishedRow, ResultIn, status, steps, prior, ready, overrides

\* A published row is in order.
LEMMA PublishedKept ==
  ASSUME NEW r, RowOK(r), KeptRow(r), r.task_state = "claimed", NEW result \in Results,
         MayReport(r, result), NEW version \in Nat, NEW now \in Nat
  PROVE  KeptRow(Published(r, result, version, now))
  <1> DEFINE p == PublishedRow(r, result, version, now)
  <1>1. r \in Row
    BY DEF RowOK
  <1>2. Exists(r)
    BY DEF KeptRow, EmptyRow
  <1>3. result \in [status : Terminal, steps : StepsType]
    BY Inputs
  <1>4. /\ p \in Row /\ ResultIn(r, p, result, version)
        /\ Published(r, result, version, now) = EndTask(p, now, TRUE)
    BY <1>1, PublishedFields
  <1> HIDE DEF p
  <1>5. Exists(p)
    BY <1>2, <1>3, <1>4 DEF ResultIn, Exists, StatusAfter, NoRow, Terminal, OutputReady
  <1>6. ASSUME r.pending_review # NoLeg
        PROVE  p.prior.status \in OutputReady /\ p.has_state
    <2>1. result.status \in OutputReady
      BY <1>6 DEF RowOK, HasTask, ReviewFollows, MayReport
    <2> QED
      BY <1>4, <1>6, <2>1 DEF ResultIn
  <1>7. \A i \in Item : p.overrides[i] <= p.overrides_version
    <2> TAKE i \in Item
    <2>1. p.overrides[i] \in {0, r.overrides[i]}
      BY <1>4 DEF ResultIn, OverridesAfter
    <2>2. r.overrides[i] <= r.overrides_version /\ r.overrides_version \in Nat
      BY <1>1 DEF KeptRow, Row
    <2> QED
      BY <1>4, <2>1, <2>2 DEF ResultIn
  <1>8. p.pending_review = r.pending_review
    BY <1>4 DEF ResultIn
  <1> QED
    BY <1>4, <1>5, <1>8, <1>6, <1>7, EndTaskKept

\* review_refused: what the restored row has before its task ends.
RestoredRow(r, now) ==
  [r EXCEPT !.status = r.prior.status, !.steps = r.prior.steps, !.updated_at = now]

\* review_refused writes the prior result into the row and then ends its task.
LEMMA RestoredFields ==
  ASSUME NEW r \in Row, r.prior.status \in OutputReady, NEW now \in Nat
  PROVE  LET p == RestoredRow(r, now)
         IN  /\ p \in Row
             /\ p.status = r.prior.status /\ p.steps = r.prior.steps /\ p.prior = r.prior
             /\ p.rev = r.rev /\ p.has_state = r.has_state
             /\ p.overrides = r.overrides /\ p.overrides_version = r.overrides_version
             /\ p.synced_version = r.synced_version
             /\ p.pending_review = r.pending_review
             /\ RestorePrior(r, now) = EndTask(p, now, TRUE)
  BY DEF RestoredRow, RestorePrior, Row, JobStatus, Terminal

\* A row whose review was refused is in order.
LEMMA RestorePriorKept ==
  ASSUME NEW r, RowOK(r), KeptRow(r), r.task_kind = "review", NEW now \in Nat
  PROVE  KeptRow(RestorePrior(r, now))
  <1> DEFINE p == RestoredRow(r, now)
  <1>1. r \in Row /\ r.pending_review = NoLeg /\ r.prior.status \in OutputReady
    BY DEF RowOK, HasTask, ReviewFollows, KeptRow, PriorKept
  <1>2. /\ p \in Row /\ p.pending_review = NoLeg /\ p.status \in OutputReady
        /\ p.overrides = r.overrides /\ p.overrides_version = r.overrides_version
        /\ RestorePrior(r, now) = EndTask(p, now, TRUE)
    BY <1>1, RestoredFields
  <1>3. Exists(p) /\ \A i \in Item : p.overrides[i] <= p.overrides_version
    BY <1>2 DEF Exists, OutputReady, NoRow, KeptRow
  <1> HIDE DEF p
  <1> QED
    BY <1>2, <1>3, EndTaskKept

------------------------------------------------------------------------------
(* What is shown *)

\* Ending a task leaves what is shown, or clears what nothing waits for.
LEMMA EndedShown ==
  ASSUME NEW r \in Row, NEW e \in Row, TaskEnded(r, e)
  PROVE  Shown(e) = Shown(r) \/ Shown(e) = NoPrior
  BY ShownParts DEF TaskEnded

\* A result is its status and its steps.
LEMMA ResultParts ==
  ASSUME NEW result, NEW S, NEW T, result \in [status : S, steps : T]
  PROVE  [status |-> result.status, steps |-> result.steps] = result
  OBVIOUS

\* A published result is what is then shown, or nothing is.
LEMMA PublishedShown ==
  ASSUME NEW r, RowOK(r), r.task_state = "claimed", NEW result \in Results,
         MayReport(r, result), NEW version \in Nat, NEW now \in Nat
  PROVE  Shown(Published(r, result, version, now)) # NoPrior =>
           /\ Published(r, result, version, now).has_state
           /\ Shown(Published(r, result, version, now)) = result
  <1> DEFINE p == PublishedRow(r, result, version, now)
             e == Published(r, result, version, now)
  <1> SUFFICES Shown(e) # NoPrior => e.has_state /\ Shown(e) = result
    OBVIOUS
  <1>1. r \in Row /\ RowOK(e) /\ e \in Row
    BY PublishedOK DEF RowOK
  <1>2. result \in [status : Terminal, steps : StepsType]
    BY Inputs
  <1>3. p \in Row /\ ResultIn(r, p, result, version) /\ e = EndTask(p, now, TRUE)
    BY <1>1, PublishedFields
  <1>4. TaskEnded(p, e)
    BY <1>3, EndTaskFields
  <1> HIDE DEF p, e
  <1>5. e.has_state <=> result.status \in OutputReady
    BY <1>3, <1>4 DEF TaskEnded, ResultIn
  <1>6. CASE r.pending_review # NoLeg
    <2>1. result.status \in OutputReady
      BY <1>6 DEF RowOK, HasTask, ReviewFollows, MayReport
    <2>2. r.status = "processing"
      BY <1>6 DEF RowOK, HasTask, ReviewFollows
    <2>3. e.status = "processing" /\ e.prior = result
      BY <1>3, <1>4, <1>6, <2>2 DEF TaskEnded, ResultIn, StatusAfter
    <2>4. Shown(e) = result
      BY <1>1, <2>3, ShownParts DEF OutputReady
    <2> QED
      BY <1>5, <2>1, <2>4
  <1>7. CASE r.pending_review = NoLeg
    <2>1. /\ e.status = result.status /\ e.steps = result.steps /\ e.prior = NoPrior
      BY <1>3, <1>4, <1>7 DEF TaskEnded, ResultIn, StatusAfter
    <2>2. CASE result.status \in OutputReady
      <3>1. Shown(e) = result
        BY <1>1, <1>2, <2>1, <2>2, ShownParts, ResultParts
      <3> QED
        BY <1>5, <2>2, <3>1
    <2>3. CASE result.status \notin OutputReady
      <3>1. Shown(e) = NoPrior
        BY <1>1, <2>1, <2>3, ShownParts
      <3> QED
        BY <3>1
    <2> QED
      BY <2>2, <2>3
  <1> QED
    BY <1>6, <1>7

\* A refused review shows again what it set aside.
LEMMA RestoredShown ==
  ASSUME NEW r, RowOK(r), KeptRow(r), r.task_kind = "review", NEW now \in Nat
  PROVE  /\ RestorePrior(r, now).status = r.prior.status
         /\ Shown(RestorePrior(r, now)) = Shown(r)
         /\ RestorePrior(r, now).rev = r.rev /\ RestorePrior(r, now).has_state = r.has_state
         /\ RestorePrior(r, now).task_state # "claimed"
  <1> DEFINE p == RestoredRow(r, now)
             e == RestorePrior(r, now)
  <1>1. /\ r \in Row /\ r.prior.status \in OutputReady /\ r.status = "processing"
    BY DEF RowOK, HasTask, KeptRow, PriorKept
  <1>2. e \in Row
    BY <1>1, RestorePriorOK DEF RowOK
  <1>3. /\ p \in Row /\ p.status = r.prior.status /\ p.steps = r.prior.steps
        /\ p.rev = r.rev /\ p.has_state = r.has_state /\ e = EndTask(p, now, TRUE)
    BY <1>1, RestoredFields
  <1>4. TaskEnded(p, e)
    BY <1>3, EndTaskFields
  <1> HIDE DEF p, e
  <1>5. e.status = r.prior.status /\ e.steps = r.prior.steps
    BY <1>3, <1>4 DEF TaskEnded
  <1>6. [status |-> r.prior.status, steps |-> r.prior.steps] = r.prior
    <2>1. r.prior \in [status : JobStatus \cup {"none"}, steps : StepsType]
      BY <1>1 DEF Row
    <2> QED
      BY <2>1, ResultParts
  <1>7. Shown(e) = r.prior /\ Shown(r) = r.prior
    BY <1>1, <1>2, <1>5, <1>6, ShownParts DEF OutputReady
  <1>8. e.rev = r.rev /\ e.has_state = r.has_state /\ e.task_state # "claimed"
    BY <1>3, <1>4 DEF TaskEnded
  <1> QED
    BY <1>5, <1>7, <1>8 DEF e

------------------------------------------------------------------------------
(* Revisions and receipts *)

\* A job that is not there, and a new one, has no revisions and no receipts.
LEMMA EmptyRecorded ==
  ASSUME NEW ls \in Seq([job : Job, version : Nat]), NEW j
  PROVE  Recorded(<<>>, {}, ls, j)
  BY EmptySeq, LenProperties DEF Recorded

\* A claim of another job changes nothing in the account of this one.
LEMMA LeaseGivenElsewhere ==
  ASSUME NEW ls \in Seq([job : Job, version : Nat]), NEW e \in [job : Job, version : Nat],
         NEW a, NEW cs, NEW j, Recorded(a, cs, ls, j)
  PROVE  Recorded(a, cs, Append(ls, e), j)
  <1>1. /\ Append(ls, e) \in Seq([job : Job, version : Nat])
        /\ Len(Append(ls, e)) = Len(ls) + 1 /\ Len(ls) \in Nat
        /\ \A l \in 1..Len(ls) : Append(ls, e)[l] = ls[l]
    BY AppendProperties, LenProperties
  <1>2. 1..Len(ls) \subseteq 1..Len(Append(ls, e)) /\ Len(a) \in Nat
    BY <1>1, LenProperties DEF Recorded
  <1> QED
    BY <1>1, <1>2 DEF Recorded

\* b is a with a revision staged above the others, under the lease.
NewRevision(a, b, lease) ==
  /\ b \in Seq(Artifact) /\ Len(b) = Len(a) + 1
  /\ b[Len(a) + 1].lease = lease /\ b[Len(a) + 1].state = "staging"
  /\ \A v \in 1..Len(a) : b[v] = a[v]

\* claim appends to the revisions of its job.
LEMMA RevisionAdded ==
  ASSUME NEW a \in Seq(Artifact), NEW lease \in Nat
  PROVE  NewRevision(a, Append(a, [lease |-> lease, state |-> "staging"]), lease)
  <1> DEFINE n == [lease |-> lease, state |-> "staging"]
  <1>1. n \in Artifact /\ n.lease = lease /\ n.state = "staging"
    BY DEF Artifact, ArtifactState
  <1> HIDE DEF n
  <1>2. /\ Append(a, n) \in Seq(Artifact) /\ Len(Append(a, n)) = Len(a) + 1
        /\ Append(a, n)[Len(a) + 1] = n
        /\ \A v \in 1..Len(a) : Append(a, n)[v] = a[v]
    BY <1>1, AppendProperties
  <1>3. NewRevision(a, Append(a, n), lease)
    BY <1>1, <1>2 DEF NewRevision
  <1> QED
    BY <1>3 DEF n

\* claim: a new revision under a new lease, neither of which has a receipt.
LEMMA LeaseGiven ==
  ASSUME NEW ls \in Seq([job : Job, version : Nat]), NEW e \in [job : Job, version : Nat],
         NEW a, NEW b, NEW cs, Recorded(a, cs, ls, e.job), NewRevision(a, b, Len(ls) + 1)
  PROVE  /\ Recorded(b, cs, Append(ls, e), e.job)
         /\ \A c \in cs : c.lease # Len(ls) + 1
  <1> DEFINE ms == Append(ls, e)
             j == e.job
  <1>1. /\ Len(ls) \in Nat /\ a \in Seq(Artifact) /\ Len(a) \in Nat /\ Len(a) <= Len(ls)
    BY LenProperties DEF Recorded
  <1>3. /\ Len(ms) = Len(ls) + 1 /\ ms[Len(ls) + 1] = e
        /\ \A l \in 1..Len(ls) : ms[l] = ls[l]
    BY <1>1, AppendProperties
  <1>4. /\ b \in Seq(Artifact) /\ Len(b) = Len(a) + 1
        /\ b[Len(a) + 1].lease = Len(ls) + 1 /\ b[Len(a) + 1].state = "staging"
        /\ \A v \in 1..Len(a) : b[v] = a[v]
    BY DEF NewRevision
  <1>5. \A c \in cs : c.lease \in 1..Len(ls) /\ ls[c.lease].job = j
    BY DEF Recorded
  <1>6. \A v \in 1..Len(a) : a[v].lease \in 1..Len(ls) /\ ls[a[v].lease].job = j
    BY DEF Recorded
  <1> HIDE DEF ms
  <1>7. \A v \in 1..Len(b) : b[v].lease \in 1..Len(ms) /\ ms[b[v].lease].job = j
    <2> TAKE v \in 1..Len(b)
    <2>1. CASE v \in 1..Len(a)
      <3>1. b[v] = a[v]
        BY <1>4, <2>1
      <3>2. a[v].lease \in 1..Len(ls) /\ ls[a[v].lease].job = j
        BY <1>6, <2>1
      <3>3. a[v].lease \in 1..Len(ms) /\ ms[a[v].lease] = ls[a[v].lease]
        BY <1>1, <1>3, <3>2
      <3> QED
        BY <3>1, <3>2, <3>3
    <2>2. CASE v = Len(a) + 1
      BY <1>1, <1>3, <1>4, <2>2
    <2> QED
      BY <1>1, <1>4, <2>1, <2>2
  <1>8. \A v, w \in 1..Len(b) : b[v].lease = b[w].lease => v = w
    <2> TAKE v, w \in 1..Len(b)
    <2>1. CASE v \in 1..Len(a) /\ w \in 1..Len(a)
      BY <1>4, <2>1 DEF Recorded
    <2>2. CASE v \in 1..Len(a) /\ w = Len(a) + 1
      BY <1>1, <1>4, <1>6, <2>2
    <2>3. CASE v = Len(a) + 1 /\ w \in 1..Len(a)
      BY <1>1, <1>4, <1>6, <2>3
    <2> QED
      BY <1>1, <1>4, <2>1, <2>2, <2>3
  <1>9. \A v \in 1..Len(b) :
          b[v].state = "published" <=> \E c \in cs : c.lease = b[v].lease /\ c.result # Refused
    <2> TAKE v \in 1..Len(b)
    <2>1. CASE v \in 1..Len(a)
      <3>1. b[v] = a[v]
        BY <1>4, <2>1
      <3>2. a[v].state = "published" <=> \E c \in cs : c.lease = a[v].lease /\ c.result # Refused
        BY <2>1 DEF Recorded
      <3> QED
        BY <3>1, <3>2
    <2>2. CASE v = Len(a) + 1
      BY <1>1, <1>4, <1>5, <2>2
    <2> QED
      BY <1>1, <1>4, <2>1, <2>2
  <1>10. \A c \in cs : c.lease \in 1..Len(ms) /\ ms[c.lease].job = j
    BY <1>1, <1>3, <1>5
  <1>11. \A c, d \in cs : c.lease = d.lease => c = d
    BY DEF Recorded
  <1>12. Recorded(b, cs, ms, j)
    BY <1>1, <1>3, <1>4, <1>7, <1>8, <1>9, <1>10, <1>11 DEF Recorded
  <1>13. \A c \in cs : c.lease # Len(ls) + 1
    BY <1>1, <1>5
  <1> QED
    BY <1>12, <1>13 DEF ms

\* b is a with the state of one revision moved, if it was one of `from`.
StateMoved(a, b, rev, from, to) ==
  /\ b \in Seq(Artifact) /\ Len(b) = Len(a)
  /\ \A v \in 1..Len(a) :
       /\ b[v].lease = a[v].lease
       /\ b[v].state = IF v = rev /\ a[v].state \in from THEN to ELSE a[v].state

\* guardArtifactTransition: the state of one revision moves, or nothing does.
LEMMA Moved ==
  ASSUME NEW a \in Seq(Artifact), NEW rev, NEW from, NEW to \in ArtifactState
  PROVE  StateMoved(a, MoveArtifact(a, rev, from, to), rev, from, to)
  <1>1. CASE rev \in DOMAIN a /\ a[rev].state \in from
    <2>1. rev \in 1..Len(a) /\ Len(a) \in Nat
      BY <1>1, LenProperties
    <2> DEFINE n == [a[rev] EXCEPT !.state = to]
               b == [a EXCEPT ![rev] = n]
    <2>2. n \in Artifact /\ n.lease = a[rev].lease /\ n.state = to
      <3>1. a[rev] \in Artifact
        BY <2>1, ElementOfSeq
      <3> QED
        BY <3>1 DEF Artifact
    <2> HIDE DEF n
    <2>3. /\ b \in Seq(Artifact) /\ Len(b) = Len(a)
          /\ \A v \in 1..Len(a) : b[v] = IF v = rev THEN n ELSE a[v]
      BY <2>1, <2>2, ExceptSeq
    <2>4. MoveArtifact(a, rev, from, to) = b
      BY <1>1 DEF MoveArtifact, n
    <2> HIDE DEF b
    <2>5. StateMoved(a, b, rev, from, to)
      BY <1>1, <2>1, <2>2, <2>3 DEF StateMoved
    <2> QED
      BY <2>4, <2>5
  <1>2. CASE ~(rev \in DOMAIN a /\ a[rev].state \in from)
    <2>1. MoveArtifact(a, rev, from, to) = a /\ DOMAIN a = 1..Len(a)
      BY <1>2, LenProperties DEF MoveArtifact
    <2>2. StateMoved(a, a, rev, from, to)
      BY <1>2, <2>1 DEF StateMoved
    <2> QED
      BY <2>1, <2>2
  <1> QED
    BY <1>1, <1>2

\* A revision that is abandoned or sealed was not published and is not.
LEMMA EndedRecorded ==
  ASSUME NEW a, NEW b, NEW cs, NEW ls, NEW j, NEW rev, Recorded(a, cs, ls, j),
         NEW from \in SUBSET {"staging", "sealed"}, NEW to \in {"abandoned", "sealed"},
         StateMoved(a, b, rev, from, to)
  PROVE  Recorded(b, cs, ls, j)
  <1>1. /\ b \in Seq(Artifact) /\ Len(b) = Len(a)
        /\ \A v \in 1..Len(a) :
             /\ b[v].lease = a[v].lease
             /\ b[v].state = "published" <=> a[v].state = "published"
    BY DEF StateMoved
  <1> QED
    BY <1>1 DEF Recorded

\* complete: the staged revision is published with a receipt of its lease.
LEMMA PublishedRecorded ==
  ASSUME NEW a, NEW b, NEW cs, NEW ls, NEW j, NEW rev \in 1..Len(a), NEW result,
         Recorded(a, cs, ls, j), a[rev].state = "staging", result # Refused,
         \A c \in cs : c.lease # a[rev].lease,
         StateMoved(a, b, rev, {"staging"}, "published")
  PROVE  Recorded(b, cs \cup {[job |-> j, lease |-> a[rev].lease, result |-> result]}, ls, j)
  <1> DEFINE d == [job |-> j, lease |-> a[rev].lease, result |-> result]
             ds == cs \cup {d}
  <1>1. d.job = j /\ d.lease = a[rev].lease /\ d.result = result
    OBVIOUS
  <1> HIDE DEF d
  <1>2. /\ b \in Seq(Artifact) /\ Len(b) = Len(a)
        /\ \A v \in 1..Len(a) : b[v].lease = a[v].lease
        /\ b[rev].state = "published"
        /\ \A v \in 1..Len(a) : v # rev => b[v].state = a[v].state
    BY DEF StateMoved
  <1>3. \A v \in 1..Len(a) :
          b[v].state = "published" <=> \E c \in ds : c.lease = b[v].lease /\ c.result # Refused
    <2> TAKE v \in 1..Len(a)
    <2>1. CASE v = rev
      BY <1>1, <1>2, <2>1
    <2>2. CASE v # rev
      <3>1. b[v].lease = a[v].lease /\ b[v].state = a[v].state /\ a[v].lease # d.lease
        BY <1>1, <1>2, <2>2 DEF Recorded
      <3>2. a[v].state = "published" <=> \E c \in cs : c.lease = a[v].lease /\ c.result # Refused
        BY DEF Recorded
      <3> QED
        BY <3>1, <3>2
    <2> QED
      BY <2>1, <2>2
  <1>4. \A c \in ds : c.lease \in 1..Len(ls) /\ ls[c.lease].job = j
    BY <1>1 DEF Recorded
  <1>5. \A c, e \in ds : c.lease = e.lease => c = e
    BY <1>1 DEF Recorded
  <1>6. Recorded(b, ds, ls, j)
    BY <1>2, <1>3, <1>4, <1>5 DEF Recorded
  <1> QED
    BY <1>6 DEF d

\* review_refused: a receipt that publishes nothing.
LEMMA RefusedRecorded ==
  ASSUME NEW a, NEW cs, NEW ls, NEW j, NEW lease \in 1..Len(ls), ls[lease].job = j,
         Recorded(a, cs, ls, j), \A c \in cs : c.lease # lease
  PROVE  Recorded(a, cs \cup {[job |-> j, lease |-> lease, result |-> Refused]}, ls, j)
  <1> DEFINE d == [job |-> j, lease |-> lease, result |-> Refused]
             ds == cs \cup {d}
  <1>1. d.job = j /\ d.lease = lease /\ d.result = Refused
    OBVIOUS
  <1> HIDE DEF d
  <1>2. \A v \in 1..Len(a) :
          a[v].state = "published" <=> \E c \in ds : c.lease = a[v].lease /\ c.result # Refused
    BY <1>1 DEF Recorded
  <1>3. Recorded(a, ds, ls, j)
    BY <1>1, <1>2 DEF Recorded
  <1> QED
    BY <1>3 DEF d

\* What is served stays served while the row serves the same revision, shows the same result
\* or none, and nothing published or received is taken back.
LEMMA ServesKept ==
  ASSUME NEW r, NEW s, NEW a, NEW b, NEW cs, NEW ds, NEW j, Serves(r, a, cs, j),
         s.rev = r.rev, s.has_state = r.has_state, Shown(s) = Shown(r) \/ Shown(s) = NoPrior,
         Len(a) \in Nat, Len(b) \in Nat, Len(b) >= Len(a), cs \subseteq ds,
         \A v \in 1..Len(a) :
           /\ b[v].lease = a[v].lease
           /\ a[v].state = "published" => b[v].state = "published"
  PROVE  Serves(s, b, ds, j)
  BY DEF Serves

\* The revision just published is of the result that is now shown.
LEMMA ServesNew ==
  ASSUME NEW s, NEW b, NEW cs, NEW j, NEW result, NEW lease,
         s.rev \in 1..Len(b), Len(b) \in Nat, b[s.rev].lease = lease, b[s.rev].state = "published",
         Shown(s) # NoPrior => s.has_state /\ Shown(s) = result
  PROVE  Serves(s, b, cs \cup {[job |-> j, lease |-> lease, result |-> result]}, j)
  BY DEF Serves

------------------------------------------------------------------------------
(* The account of a job *)

JobAccount(j) ==
  /\ KeptRow(jobs[j])
  /\ Ledger(jobs[j], artifacts[j], JobReceipts(j), leases, j)

\* complete asks what may be reported before it waits for R2; the answer stays right for as
\* long as the lease does.
ReportsFit ==
  \A c \in completing :
    LET r == jobs[leases[c.lease].job]
    IN  r.task_state = "claimed" /\ r.lease = c.lease => MayReport(r, c.result)

LedgerInv == BoardInv /\ (\A j \in Job : JobAccount(j)) /\ ReportsFit

------------------------------------------------------------------------------
(* The moves *)

\* Only the row of the job is written.
OnlyRow(j) == artifacts'[j] = artifacts[j] /\ JobReceipts(j)' = JobReceipts(j)

\* The row and the state of the claimed revision are written.
RowAndRevision(j, from, to) ==
  /\ artifacts'[j] = MoveArtifact(artifacts[j], jobs[j].next_rev, from, to)
  /\ JobReceipts(j)' = JobReceipts(j)

\* The lease of the row is held at the time t.
Holding(j, t) == Held(jobs[j], jobs[j].lease, t)

Untouched(j) == jobs'[j] = jobs[j] /\ OnlyRow(j)

Created(j, leg, t) ==
  jobs[j].status = "absent" /\ jobs'[j] = NewRow(leg, t) /\ OnlyRow(j)

Removed(j) ==
  /\ Exists(jobs[j]) /\ jobs'[j] = EmptyRow("deleted")
  /\ artifacts'[j] = <<>> /\ JobReceipts(j)' = {}

Chose(j, i, t) ==
  /\ Exists(jobs[j])
  /\ jobs'[j] = IF jobs[j].task_kind = "none" /\ jobs[j].has_state
                THEN QueueTask(Chosen(jobs[j], i, t), "sync", t) ELSE Chosen(jobs[j], i, t)
  /\ OnlyRow(j)

Asked(j, leg, t) ==
  /\ ReviewAccepted(jobs[j], leg, t)
  /\ jobs'[j] = IF jobs[j].task_kind = "sync" /\ jobs[j].task_state = "claimed"
                THEN [Reopened(jobs[j], leg, t) EXCEPT !.pending_review = leg]
                ELSE QueueTask(Reopened(jobs[j], leg, t), "review", t)
  /\ OnlyRow(j)

Gave(j, t) ==
  /\ jobs[j].task_state = "queued" /\ Claimable(jobs[j], t) /\ Len(leases) < MaxClaims
  /\ jobs'[j] = Claimed(jobs[j], Len(leases) + 1, NextRev(j), t)
  /\ artifacts'[j] = Append(artifacts[j], [lease |-> Len(leases) + 1, state |-> "staging"])
  /\ JobReceipts(j)' = JobReceipts(j)
  /\ leases' = Append(leases, [job |-> j, version |-> jobs[j].overrides_version])

Retired(j, t) ==
  /\ jobs[j].task_state = "queued" /\ ~Claimable(jobs[j], t) /\ FailAllowed(jobs[j])
  /\ jobs'[j] = FailRow(jobs[j], t) /\ OnlyRow(j)

Renewed(j, steps, t) ==
  /\ Holding(j, t)
  /\ jobs[j].task_kind = "sync" => steps = jobs[j].steps
  /\ jobs'[j] = [jobs[j] EXCEPT !.steps = steps, !.lease_expires = t + LeaseMs,
                                !.updated_at = t]
  /\ OnlyRow(j)

Completes(j, result) ==
  /\ Holding(j, clock) /\ MayReport(jobs[j], result)
  /\ artifacts[j][jobs[j].next_rev].state = "staging"

Publishes(j, result, t) ==
  /\ Completes(j, result)
  /\ JobAllowed(jobs[j].status, StatusAfter(jobs[j], result))
  /\ jobs'[j] = Published(jobs[j], result, leases[jobs[j].lease].version, t)
  /\ artifacts'[j] = MoveArtifact(artifacts[j], jobs[j].next_rev, {"staging"}, "published")
  /\ JobReceipts(j)' = JobReceipts(j)
       \cup {[job |-> j, lease |-> jobs[j].lease, result |-> result]}

Seals(j, result) ==
  /\ Completes(j, result)
  /\ ~JobAllowed(jobs[j].status, StatusAfter(jobs[j], result))
  /\ jobs'[j] = jobs[j]
  /\ RowAndRevision(j, {"staging"}, "sealed")

TakesBack(j, t) ==
  /\ Holding(j, t) /\ jobs[j].task_kind = "review"
  /\ jobs'[j] = RestorePrior(jobs[j], t)
  /\ artifacts'[j] = EndArtifact(artifacts[j], jobs[j])
  /\ JobReceipts(j)' = JobReceipts(j)
       \cup {[job |-> j, lease |-> jobs[j].lease, result |-> Refused]}

Fails(j, t) ==
  /\ jobs[j].task_state = "claimed" /\ jobs[j].task_kind # "sync"
  /\ jobs'[j] = FailRow(jobs[j], t)
  /\ RowAndRevision(j, {"staging"}, "abandoned")

Stops(j, t) ==
  /\ jobs[j].task_state = "claimed" /\ jobs[j].task_kind = "sync"
  /\ jobs'[j] = StopSync(jobs[j], t)
  /\ RowAndRevision(j, {"staging"}, "abandoned")

Requeues(j, t) ==
  /\ jobs[j].task_state = "claimed" /\ jobs[j].pending_review = NoLeg
  /\ jobs'[j] = Requeue(jobs[j], t)
  /\ RowAndRevision(j, {"staging", "sealed"}, "abandoned")

\* The moves that are made at a time t, and the others but Untouched.
TimedMove(j, t) ==
  \/ \E leg \in Legs : Created(j, leg, t) \/ Asked(j, leg, t)
  \/ \E i \in Item : Chose(j, i, t)
  \/ Gave(j, t) \/ Retired(j, t)
  \/ \E steps \in StepsType : Renewed(j, steps, t)
  \/ \E result \in Results : Publishes(j, result, t)
  \/ TakesBack(j, t) \/ Fails(j, t) \/ Stops(j, t) \/ Requeues(j, t)

Move(j) ==
  \/ Untouched(j)
  \/ /\ clock' = clock
     /\ \/ Removed(j)
        \/ \E result \in Results : Seals(j, result)
        \/ \E t \in RequestTimes : TimedMove(j, t)

\* Leases are only added.
LeasesGrow ==
  leases' = leases \/ \E e \in [job : Job, version : Nat] : leases' = Append(leases, e)

------------------------------------------------------------------------------
(* A move keeps the account *)

AccountAfter(j) ==
  /\ KeptRow(jobs'[j])
  /\ Recorded(artifacts'[j], JobReceipts(j)', leases', j)
  /\ Staged(jobs'[j], artifacts'[j], JobReceipts(j)')
  /\ Serves(jobs'[j], artifacts'[j], JobReceipts(j)', j)
  /\ Cleared(jobs'[j], artifacts'[j], JobReceipts(j)')

\* What is known of a job whose account is in order.
LEMMA AccountParts ==
  ASSUME LedgerInv, NEW j \in Job
  PROVE  /\ RowOK(jobs[j]) /\ jobs[j] \in Row /\ KeptRow(jobs[j])
         /\ artifacts[j] \in Seq(Artifact) /\ Len(artifacts[j]) \in Nat
         /\ Recorded(artifacts[j], JobReceipts(j), leases, j)
         /\ Staged(jobs[j], artifacts[j], JobReceipts(j))
         /\ Serves(jobs[j], artifacts[j], JobReceipts(j), j)
         /\ Cleared(jobs[j], artifacts[j], JobReceipts(j))
         /\ leases \in Seq([job : Job, version : Nat])
  <1>1. RowOK(jobs[j]) /\ artifacts[j] \in Seq(Artifact) /\ leases \in Seq([job : Job, version : Nat])
    BY DEF LedgerInv, BoardInv, RowsOK, TypeOK
  <1>2. Len(artifacts[j]) \in Nat /\ jobs[j] \in Row
    BY <1>1, LenProperties DEF RowOK
  <1> QED
    BY <1>1, <1>2 DEF LedgerInv, JobAccount, Ledger

\* A later claim leaves the record in order.
LEMMA RecordedLater ==
  ASSUME BoardInv, LeasesGrow, NEW a, NEW cs, NEW j, Recorded(a, cs, leases, j)
  PROVE  Recorded(a, cs, leases', j)
  <1>1. leases \in Seq([job : Job, version : Nat])
    BY DEF BoardInv, TypeOK
  <1>2. CASE leases' = leases
    BY <1>2
  <1>3. ASSUME NEW e \in [job : Job, version : Nat], leases' = Append(leases, e)
        PROVE  Recorded(a, cs, leases', j)
    BY <1>1, <1>3, LeaseGivenElsewhere
  <1> QED
    BY <1>2, <1>3 DEF LeasesGrow

\* A step that writes only the row keeps the account, if the row serves and shows what it
\* did, or shows nothing, and is claimed only if it was, for the same revision.
LEMMA OnlyRowKept ==
  ASSUME LedgerInv, LeasesGrow, NEW j \in Job, OnlyRow(j), KeptRow(jobs'[j]), Exists(jobs[j]),
         jobs'[j].rev = jobs[j].rev, jobs'[j].has_state = jobs[j].has_state,
         Shown(jobs'[j]) = Shown(jobs[j]) \/ Shown(jobs'[j]) = NoPrior,
         Exists(jobs'[j]),
         jobs'[j].task_state = "claimed" =>
           /\ jobs[j].task_state = "claimed"
           /\ jobs'[j].lease = jobs[j].lease /\ jobs'[j].next_rev = jobs[j].next_rev
  PROVE  AccountAfter(j)
  <1> DEFINE r == jobs[j]
             s == jobs'[j]
             a == artifacts[j]
             cs == JobReceipts(j)
  <1>1. /\ Len(a) \in Nat /\ Recorded(a, cs, leases, j) /\ Staged(r, a, cs) /\ Serves(r, a, cs, j)
    BY AccountParts
  <1>2. artifacts'[j] = a /\ JobReceipts(j)' = cs
    BY DEF OnlyRow
  <1>3. Recorded(a, cs, leases', j)
    BY <1>1, RecordedLater DEF LedgerInv
  <1>4. Serves(s, a, cs, j)
    BY <1>1, ServesKept
  <1>5. Staged(s, a, cs)
    BY <1>1 DEF Staged
  <1>6. Cleared(s, a, cs)
    BY DEF Cleared
  <1> QED
    BY <1>2, <1>3, <1>4, <1>5, <1>6 DEF AccountAfter

\* The same for a step that also ends the claimed revision and leaves the row unclaimed.
LEMMA RevisionEndedKept ==
  ASSUME LedgerInv, LeasesGrow, NEW j \in Job, KeptRow(jobs'[j]), Exists(jobs'[j]),
         NEW from \in SUBSET {"staging", "sealed"},
         RowAndRevision(j, from, "abandoned"),
         jobs'[j].rev = jobs[j].rev, jobs'[j].has_state = jobs[j].has_state,
         Shown(jobs'[j]) = Shown(jobs[j]) \/ Shown(jobs'[j]) = NoPrior,
         jobs'[j].task_state # "claimed"
  PROVE  AccountAfter(j)
  <1> DEFINE r == jobs[j]
             s == jobs'[j]
             a == artifacts[j]
             b == artifacts'[j]
             cs == JobReceipts(j)
  <1>1. /\ a \in Seq(Artifact) /\ Len(a) \in Nat
        /\ Recorded(a, cs, leases, j) /\ Serves(r, a, cs, j)
    BY AccountParts
  <1>2. JobReceipts(j)' = cs
    BY DEF RowAndRevision
  <1>3. StateMoved(a, b, r.next_rev, from, "abandoned")
    BY <1>1, Moved DEF RowAndRevision, ArtifactState
  <1> HIDE DEF b
  <1>4. Recorded(b, cs, leases', j)
    <2>1. Recorded(b, cs, leases, j)
      BY <1>1, <1>3, EndedRecorded
    <2> QED
      BY <2>1, RecordedLater DEF LedgerInv
  <1>5. Serves(s, b, cs, j)
    <2>1. /\ Len(b) = Len(a)
          /\ \A v \in 1..Len(a) :
               /\ b[v].lease = a[v].lease
               /\ a[v].state = "published" => b[v].state = "published"
      BY <1>3 DEF StateMoved
    <2> QED
      BY <1>1, <2>1, ServesKept
  <1>6. Staged(s, b, cs) /\ Cleared(s, b, cs)
    BY DEF Staged, Cleared
  <1> QED
    BY <1>2, <1>4, <1>5, <1>6 DEF AccountAfter, b

\* A job that is created or removed has nothing yet, or nothing any more.
LEMMA BlankKept ==
  ASSUME LedgerInv, LeasesGrow, NEW j \in Job, KeptRow(jobs'[j]),
         artifacts'[j] = <<>>, JobReceipts(j)' = {},
         jobs'[j].rev = 0, Shown(jobs'[j]) = NoPrior, jobs'[j].task_state # "claimed"
  PROVE  AccountAfter(j)
  <1>1. Recorded(<<>>, {}, leases', j)
    BY AccountParts, EmptyRecorded, RecordedLater DEF LedgerInv
  <1>2. Serves(jobs'[j], <<>>, {}, j)
    <2>1. Len(<<>>) = 0
      BY EmptySeq
    <2> QED
      BY <2>1 DEF Serves
  <1> QED
    BY <1>1, <1>2 DEF AccountAfter, Staged, Cleared

\* createJob.
LEMMA CreatedKept ==
  ASSUME LedgerInv, LeasesGrow, NEW j \in Job, NEW leg \in Legs, NEW t \in Nat, Created(j, leg, t)
  PROVE  AccountAfter(j)
  <1>1. leg \in Nat \ {0}
    BY Inputs
  <1>2. ~Exists(jobs[j])
    BY DEF Created, Exists, NoRow
  <1>3. artifacts'[j] = <<>> /\ JobReceipts(j)' = {}
    BY <1>2, AccountParts DEF Created, OnlyRow, Cleared
  <1>4. KeptRow(jobs'[j])
    BY <1>1, NewRowKept DEF Created
  <1>5. /\ jobs'[j].rev = 0 /\ jobs'[j].status = "queued" /\ jobs'[j].prior = NoPrior
        /\ jobs'[j].task_state = "queued"
    BY DEF Created, NewRow, EmptyRow
  <1>6. Shown(jobs'[j]) = NoPrior
    BY <1>5 DEF Shown, OutputReady
  <1> QED
    BY <1>3, <1>4, <1>5, <1>6, BlankKept

\* A deletion, by its owner or by the sweep.
LEMMA RemovedKept ==
  ASSUME LedgerInv, LeasesGrow, NEW j \in Job, Removed(j)
  PROVE  AccountAfter(j)
  <1>1. KeptRow(jobs'[j])
    BY EmptyRowKept DEF Removed, NoRow
  <1>2. /\ jobs'[j].rev = 0 /\ jobs'[j].status = "deleted" /\ jobs'[j].prior = NoPrior
        /\ jobs'[j].task_state = "idle"
    BY DEF Removed, EmptyRow
  <1>3. Shown(jobs'[j]) = NoPrior
    BY <1>2 DEF Shown, OutputReady
  <1> QED
    BY <1>1, <1>2, <1>3, BlankKept DEF Removed

\* A claimed or queued row is of a job that exists.
LEMMA TaskExists ==
  ASSUME NEW r, KeptRow(r), r.task_state # "idle"
  PROVE  Exists(r)
  BY DEF KeptRow, EmptyRow

\* setOverride.
LEMMA ChoseKept ==
  ASSUME LedgerInv, LeasesGrow, NEW j \in Job, NEW i \in Item, NEW t \in Nat, Chose(j, i, t)
  PROVE  AccountAfter(j)
  <1> DEFINE r == jobs[j]
             c == Chosen(r, i, t)
             q == QueueTask(c, "sync", t)
             s == jobs'[j]
  <1>1. RowOK(r) /\ r \in Row /\ KeptRow(r) /\ Exists(r)
    BY AccountParts DEF Chose
  <1>2. KeptRow(s)
    BY <1>1, ChosenKept DEF Chose
  <1>3. c \in Row /\ (r.task_kind = "none" => q \in Row)
    BY <1>1, ChosenOK DEF RowOK
  <1>4. /\ c.status = r.status /\ c.steps = r.steps /\ c.prior = r.prior /\ c.rev = r.rev
        /\ c.has_state = r.has_state /\ c.task_state = r.task_state /\ c.lease = r.lease
        /\ c.next_rev = r.next_rev
    BY <1>1 DEF Chosen, Row
  <1>5. /\ q.status = c.status /\ q.steps = c.steps /\ q.prior = c.prior /\ q.rev = c.rev
        /\ q.has_state = c.has_state /\ q.task_state = "queued"
    <2> HIDE DEF c
    <2> QED
      BY <1>3 DEF QueueTask, Row
  <1>6. s = c \/ (r.task_kind = "none" /\ s = q)
    BY DEF Chose
  <1> HIDE DEF c, q
  <1>7. /\ s \in Row /\ s.status = r.status /\ s.steps = r.steps /\ s.prior = r.prior
        /\ s.rev = r.rev /\ s.has_state = r.has_state
        /\ s.task_state = "claimed" =>
             r.task_state = "claimed" /\ s.lease = r.lease /\ s.next_rev = r.next_rev
    BY <1>3, <1>4, <1>5, <1>6
  <1>8. Shown(s) = Shown(r)
    BY <1>7 DEF Shown
  <1>9. Exists(s) /\ OnlyRow(j)
    BY <1>1, <1>7 DEF Exists, Chose
  <1> QED
    BY <1>1, <1>2, <1>7, <1>8, <1>9, OnlyRowKept

\* queueReview.
LEMMA AskedKept ==
  ASSUME LedgerInv, LeasesGrow, NEW j \in Job, NEW leg \in Legs, NEW t \in Nat, Asked(j, leg, t)
  PROVE  AccountAfter(j)
  <1> DEFINE r == jobs[j]
             o == Reopened(r, leg, t)
             s == jobs'[j]
  <1>1. RowOK(r) /\ r \in Row /\ KeptRow(r) /\ leg \in Nat \ {0} /\ r.status \in OutputReady
    BY AccountParts, Inputs DEF Asked, ReviewAccepted
  <1>2. KeptRow(s)
    BY <1>1, ReviewQueuedKept DEF Asked
  <1>3. /\ o.status = "processing" /\ o.prior = [status |-> r.status, steps |-> r.steps]
        /\ o.rev = r.rev /\ o.has_state = r.has_state /\ o.task_state = r.task_state
        /\ o.lease = r.lease /\ o.next_rev = r.next_rev
        /\ DOMAIN o = DOMAIN r
    BY <1>1 DEF Reopened, Row
  <1>4. CASE r.task_kind = "sync" /\ r.task_state = "claimed"
    <2>1. s = [o EXCEPT !.pending_review = leg]
      BY <1>4 DEF Asked
    <2>2. /\ s.status = "processing" /\ s.prior = o.prior /\ s.rev = r.rev
          /\ s.has_state = r.has_state /\ s.lease = r.lease /\ s.next_rev = r.next_rev
      BY <1>1, <2>1 DEF Reopened, Row
    <2>3. Shown(s) = Shown(r) /\ Exists(s) /\ Exists(r)
      BY <1>1, <1>3, <2>2 DEF Shown, OutputReady, Exists, NoRow
    <2> QED
      BY <1>2, <1>4, <2>2, <2>3, OnlyRowKept DEF Asked
  <1>5. CASE ~(r.task_kind = "sync" /\ r.task_state = "claimed")
    <2>1. s = QueueTask(o, "review", t)
      BY <1>5 DEF Asked
    <2>2. /\ s.status = "processing" /\ s.prior = o.prior /\ s.rev = r.rev
          /\ s.has_state = r.has_state /\ s.task_state = "queued"
      BY <1>1, <2>1 DEF Reopened, QueueTask, Row
    <2>3. Shown(s) = Shown(r) /\ Exists(s) /\ Exists(r)
      BY <1>1, <1>3, <2>2 DEF Shown, OutputReady, Exists, NoRow
    <2> QED
      BY <1>2, <2>2, <2>3, OnlyRowKept DEF Asked
  <1> QED
    BY <1>4, <1>5

\* failRow shows nothing any more.
LEMMA FailRowShown ==
  ASSUME NEW r, RowOK(r), KeptRow(r), NEW t \in Nat
  PROVE  /\ KeptRow(FailRow(r, t)) /\ Exists(FailRow(r, t))
         /\ Shown(FailRow(r, t)) = NoPrior
         /\ FailRow(r, t).rev = r.rev /\ FailRow(r, t).has_state = r.has_state
         /\ FailRow(r, t).task_state # "claimed"
  <1>1. r \in Row
    BY DEF RowOK
  <1>2. /\ FailRow(r, t).status = "failed" /\ FailRow(r, t).prior = NoPrior
        /\ FailRow(r, t).rev = r.rev /\ FailRow(r, t).has_state = r.has_state
        /\ FailRow(r, t).task_state # "claimed"
    BY <1>1, FailRowFields
  <1> QED
    BY <1>2, FailRowKept DEF Shown, OutputReady, Exists, NoRow

\* claim, of a task it retires.
LEMMA RetiredKept ==
  ASSUME LedgerInv, LeasesGrow, NEW j \in Job, NEW t \in Nat, Retired(j, t)
  PROVE  AccountAfter(j)
  <1>1. RowOK(jobs[j]) /\ KeptRow(jobs[j]) /\ Exists(jobs[j])
    BY AccountParts, TaskExists DEF Retired
  <1> QED
    BY <1>1, FailRowShown, OnlyRowKept DEF Retired

\* checkLease and progress.
LEMMA RenewedAccountKept ==
  ASSUME LedgerInv, LeasesGrow, NEW j \in Job, NEW steps \in StepsType, NEW t \in Nat,
         Renewed(j, steps, t)
  PROVE  AccountAfter(j)
  <1> DEFINE r == jobs[j]
             s == jobs'[j]
  <1>1. /\ RowOK(r) /\ r \in Row /\ KeptRow(r) /\ Exists(r) /\ r.task_state = "claimed"
    BY AccountParts, TaskExists DEF Renewed, Holding, Held
  <1>2. KeptRow(s)
    <2>1. \A expires : KeptRow([r EXCEPT !.steps = steps, !.lease_expires = expires,
                                         !.updated_at = t])
      BY <1>1, RenewedKept
    <2> QED
      BY <2>1 DEF Renewed
  <1>3. /\ s.status = r.status /\ s.steps = steps /\ s.prior = r.prior /\ s.rev = r.rev
        /\ s.has_state = r.has_state /\ s.lease = r.lease /\ s.next_rev = r.next_rev
    BY <1>1 DEF Renewed, Row
  <1>4. r.status \in OutputReady => steps = r.steps
    <2>1. r.status \in OutputReady => r.status # "processing" /\ r.task_kind # "none"
      BY <1>1 DEF RowOK, HasTask, OutputReady
    <2>2. r.status \in OutputReady => r.task_kind = "sync"
      BY <1>1, <2>1 DEF RowOK, HasTask, Row, TaskKind
    <2> QED
      BY <2>2 DEF Renewed
  <1>5. Shown(s) = Shown(r) /\ Exists(s)
    BY <1>1, <1>3, <1>4 DEF Shown, Exists
  <1> QED
    BY <1>1, <1>2, <1>3, <1>5, OnlyRowKept DEF Renewed

\* fail and the sweep, of a process or review task.
LEMMA FailsKept ==
  ASSUME LedgerInv, LeasesGrow, NEW j \in Job, NEW t \in Nat, Fails(j, t)
  PROVE  AccountAfter(j)
  <1>1. RowOK(jobs[j]) /\ KeptRow(jobs[j])
    BY AccountParts
  <1> QED
    BY <1>1, FailRowShown, RevisionEndedKept DEF Fails

\* fail and the sweep, of a sync that is given up.
LEMMA StopsKept ==
  ASSUME LedgerInv, LeasesGrow, NEW j \in Job, NEW t \in Nat, Stops(j, t)
  PROVE  AccountAfter(j)
  <1> DEFINE r == jobs[j]
             s == jobs'[j]
  <1>1. RowOK(r) /\ r \in Row /\ KeptRow(r) /\ Exists(r) /\ r.task_kind = "sync"
    BY AccountParts, TaskExists DEF Stops
  <1>2. KeptRow(s) /\ s \in Row
    BY <1>1, StopSyncKept, StopSyncOK DEF Stops, RowOK
  <1>3. TaskEnded(r, s)
    BY <1>1, EndTaskFields DEF Stops, StopSync
  <1>4. Shown(s) = Shown(r) \/ Shown(s) = NoPrior
    BY <1>1, <1>2, <1>3, EndedShown
  <1>5. /\ s.rev = r.rev /\ s.has_state = r.has_state /\ s.task_state # "claimed" /\ Exists(s)
    BY <1>1, <1>3 DEF TaskEnded, Exists
  <1> QED
    BY <1>2, <1>4, <1>5, RevisionEndedKept DEF Stops

\* fail and the sweep, of a task that is tried again.
LEMMA RequeuesKept ==
  ASSUME LedgerInv, LeasesGrow, NEW j \in Job, NEW t \in Nat, Requeues(j, t)
  PROVE  AccountAfter(j)
  <1> DEFINE r == jobs[j]
             s == jobs'[j]
  <1>1. /\ RowOK(r) /\ r \in Row /\ KeptRow(r) /\ Exists(r) /\ r.task_state = "claimed"
    BY AccountParts, TaskExists DEF Requeues
  <1>2. KeptRow(s) /\ s \in Row
    BY <1>1, RequeueKept, RequeueOK DEF Requeues, RowOK
  <1>3. /\ s.status = RequeuedStatus(r) /\ s.prior = r.prior /\ s.rev = r.rev
        /\ s.has_state = r.has_state /\ s.task_state = "queued"
        /\ r.task_kind = "sync" => s.steps = r.steps
    BY <1>1, RequeueFields DEF Requeues
  <1>4. Shown(s) = Shown(r) /\ Exists(s)
    <2>1. CASE r.task_kind = "sync"
      BY <1>1, <1>3, <2>1 DEF Shown, RequeuedStatus, Exists
    <2>2. CASE r.task_kind # "sync"
      <3>1. r.status = "processing"
        <4>1. r.task_kind # "none"
          BY <1>1 DEF RowOK, HasTask
        <4> QED
          BY <1>1, <2>2, <4>1 DEF RowOK, HasTask, Row, TaskKind
      <3> QED
        BY <1>3, <3>1 DEF Shown, RequeuedStatus, OutputReady, Exists, NoRow
    <2> QED
      BY <2>1, <2>2
  <1> QED
    BY <1>2, <1>3, <1>4, RevisionEndedKept DEF Requeues

\* complete, when it throws: the revision is sealed and the row stays.
LEMMA SealsKept ==
  ASSUME LedgerInv, LeasesGrow, NEW j \in Job, NEW result \in Results, Seals(j, result)
  PROVE  AccountAfter(j)
  <1> DEFINE r == jobs[j]
             a == artifacts[j]
             b == artifacts'[j]
             cs == JobReceipts(j)
  <1>1. /\ a \in Seq(Artifact) /\ Len(a) \in Nat /\ KeptRow(r)
        /\ Recorded(a, cs, leases, j) /\ Staged(r, a, cs) /\ Serves(r, a, cs, j)
        /\ r.task_state = "claimed" /\ Exists(r)
    BY AccountParts, TaskExists DEF Seals, Completes, Holding, Held
  <1>2. jobs'[j] = r /\ JobReceipts(j)' = cs
    BY DEF Seals, RowAndRevision
  <1>3. StateMoved(a, b, r.next_rev, {"staging"}, "sealed")
    BY <1>1, Moved DEF Seals, RowAndRevision, ArtifactState
  <1> HIDE DEF b
  <1>4. Recorded(b, cs, leases', j)
    <2>1. Recorded(b, cs, leases, j)
      BY <1>1, <1>3, EndedRecorded
    <2> QED
      BY <2>1, RecordedLater DEF LedgerInv
  <1>5. Serves(r, b, cs, j)
    <2>1. /\ Len(b) = Len(a)
          /\ \A v \in 1..Len(a) :
               /\ b[v].lease = a[v].lease
               /\ a[v].state = "published" => b[v].state = "published"
      BY <1>3 DEF StateMoved
    <2> QED
      BY <1>1, <2>1, ServesKept
  <1>6. Staged(r, b, cs) /\ Cleared(r, b, cs)
    BY <1>1, <1>3 DEF Staged, Cleared, StateMoved
  <1> QED
    BY <1>1, <1>2, <1>4, <1>5, <1>6 DEF AccountAfter, b

\* What a held row has staged.
LEMMA HeldStaged ==
  ASSUME LedgerInv, NEW j \in Job, jobs[j].task_state = "claimed"
  PROVE  /\ jobs[j].next_rev \in 1..Len(artifacts[j]) /\ jobs[j].next_rev > jobs[j].rev
         /\ artifacts[j][jobs[j].next_rev].lease = jobs[j].lease
         /\ artifacts[j][jobs[j].next_rev].state \in {"staging", "sealed"}
         /\ \A c \in JobReceipts(j) : c.lease # jobs[j].lease
         /\ jobs[j].lease \in 1..Len(leases) /\ leases[jobs[j].lease].job = j
  <1> DEFINE r == jobs[j]
             a == artifacts[j]
  <1>1. /\ r.next_rev \in 1..Len(a) /\ r.next_rev > r.rev /\ a[r.next_rev].lease = r.lease
        /\ a[r.next_rev].state \in {"staging", "sealed"}
        /\ \A c \in JobReceipts(j) : c.lease # r.lease
    BY AccountParts DEF Staged
  <1>2. \A v \in 1..Len(a) : a[v].lease \in 1..Len(leases) /\ leases[a[v].lease].job = j
    BY AccountParts DEF Recorded
  <1>3. a[r.next_rev].lease \in 1..Len(leases) /\ leases[a[r.next_rev].lease].job = j
    BY <1>1, <1>2
  <1> QED
    BY <1>1, <1>3

\* review_refused.
LEMMA TakesBackKept ==
  ASSUME LedgerInv, LeasesGrow, NEW j \in Job, NEW t \in Nat, TakesBack(j, t)
  PROVE  AccountAfter(j)
  <1> DEFINE r == jobs[j]
             s == jobs'[j]
             a == artifacts[j]
             b == artifacts'[j]
             cs == JobReceipts(j)
             ds == cs \cup {[job |-> j, lease |-> r.lease, result |-> Refused]}
  <1>1. /\ a \in Seq(Artifact) /\ Len(a) \in Nat /\ KeptRow(r) /\ RowOK(r)
        /\ Recorded(a, cs, leases, j) /\ Serves(r, a, cs, j)
        /\ r.task_state = "claimed" /\ r.task_kind = "review"
    BY AccountParts DEF TakesBack, Holding, Held
  <1>2. JobReceipts(j)' = ds
    BY DEF TakesBack
  <1>3. StateMoved(a, b, r.next_rev, {"staging"}, "abandoned")
    BY <1>1, Moved DEF TakesBack, EndArtifact, ArtifactState
  <1>4. /\ KeptRow(s) /\ Shown(s) = Shown(r) /\ s.rev = r.rev /\ s.has_state = r.has_state
        /\ s.task_state # "claimed" /\ s.status \in OutputReady
    BY <1>1, RestorePriorKept, RestoredShown DEF TakesBack, KeptRow, PriorKept
  <1> HIDE DEF b, ds
  <1>5. Recorded(b, ds, leases', j)
    <2>1. Recorded(b, cs, leases, j)
      BY <1>1, <1>3, EndedRecorded
    <2>2. Recorded(b, ds, leases, j)
      BY <1>1, <2>1, HeldStaged, RefusedRecorded DEF ds
    <2> QED
      BY <2>2, RecordedLater DEF LedgerInv
  <1>6. Serves(s, b, ds, j)
    <2>1. /\ Len(b) = Len(a) /\ cs \subseteq ds
          /\ \A v \in 1..Len(a) :
               /\ b[v].lease = a[v].lease
               /\ a[v].state = "published" => b[v].state = "published"
      BY <1>3 DEF StateMoved, ds
    <2> QED
      BY <1>1, <1>4, <2>1, ServesKept
  <1>7. Staged(s, b, ds) /\ Cleared(s, b, ds)
    BY <1>4 DEF Staged, Cleared, Exists, OutputReady, NoRow
  <1> QED
    BY <1>2, <1>4, <1>5, <1>6, <1>7 DEF AccountAfter, b

\* No runner reports that a review was refused as a result.
LEMMA ResultNotRefused ==
  ASSUME NEW result \in Results
  PROVE  result # Refused
  <1>1. result.status \in Terminal /\ Refused.status = "refused"
    BY Inputs DEF Refused
  <1> QED
    BY <1>1 DEF Terminal, OutputReady

\* complete.
LEMMA PublishesKept ==
  ASSUME LedgerInv, LeasesGrow, NEW j \in Job, NEW result \in Results, NEW t \in Nat,
         Publishes(j, result, t)
  PROVE  AccountAfter(j)
  <1> DEFINE r == jobs[j]
             s == jobs'[j]
             a == artifacts[j]
             b == artifacts'[j]
             cs == JobReceipts(j)
             ds == cs \cup {[job |-> j, lease |-> r.lease, result |-> result]}
             version == leases[r.lease].version
             p == PublishedRow(r, result, version, t)
  <1>1. /\ a \in Seq(Artifact) /\ Len(a) \in Nat /\ KeptRow(r) /\ RowOK(r) /\ r \in Row
        /\ Recorded(a, cs, leases, j)
        /\ r.task_state = "claimed" /\ MayReport(r, result)
    BY AccountParts DEF Publishes, Completes, Holding, Held
  <1>2. JobReceipts(j)' = ds /\ s = Published(r, result, version, t)
    BY DEF Publishes
  <1>3. version \in Nat
    BY <1>1, HeldStaged, LeaseType DEF LedgerInv, Lease
  <1>4. StateMoved(a, b, r.next_rev, {"staging"}, "published")
    BY <1>1, Moved DEF Publishes, ArtifactState
  <1>5. /\ r.next_rev \in 1..Len(a) /\ a[r.next_rev].lease = r.lease
        /\ a[r.next_rev].state = "staging" /\ \A c \in cs : c.lease # r.lease
    BY <1>1, HeldStaged DEF Publishes, Completes
  <1>6. /\ KeptRow(s) /\ s \in Row
        /\ Shown(s) # NoPrior => s.has_state /\ Shown(s) = result
    BY <1>1, <1>2, <1>3, PublishedKept, PublishedOK, PublishedShown DEF RowOK
  <1>7. s.rev = r.next_rev /\ s.task_state # "claimed" /\ s.status = StatusAfter(r, result)
    <2>1. p \in Row /\ ResultIn(r, p, result, version) /\ s = EndTask(p, t, TRUE)
      BY <1>1, <1>2, <1>3, PublishedFields
    <2>2. TaskEnded(p, s)
      BY <2>1, EndTaskFields
    <2> QED
      BY <2>1, <2>2 DEF TaskEnded, ResultIn
  <1>8. Exists(s)
    <2>1. Exists(r) /\ result.status \in Terminal
      BY <1>1, TaskExists, Inputs
    <2> QED
      BY <1>7, <2>1 DEF Exists, StatusAfter, Terminal, OutputReady, NoRow
  <1> HIDE DEF b, ds, s
  <1>9. Recorded(b, ds, leases', j)
    <2>1. Recorded(b, cs \cup {[job |-> j, lease |-> a[r.next_rev].lease, result |-> result]},
                   leases, j)
      BY <1>1, <1>4, <1>5, ResultNotRefused, PublishedRecorded
    <2> QED
      BY <1>5, <2>1, RecordedLater DEF LedgerInv, ds
  <1>10. Serves(s, b, ds, j)
    <2>1. /\ Len(b) = Len(a) /\ b[r.next_rev].lease = r.lease
          /\ b[r.next_rev].state = "published"
      BY <1>4, <1>5 DEF StateMoved
    <2> QED
      BY <1>1, <1>5, <1>6, <1>7, <2>1, ServesNew DEF ds
  <1>11. Staged(s, b, ds) /\ Cleared(s, b, ds)
    BY <1>7, <1>8 DEF Staged, Cleared
  <1> QED
    BY <1>2, <1>6, <1>9, <1>10, <1>11 DEF AccountAfter, b, s

\* claim: a new lease for a new revision above the served one.
LEMMA GaveKept ==
  ASSUME LedgerInv, NEW j \in Job, NEW t \in Nat, Gave(j, t)
  PROVE  AccountAfter(j)
  <1> DEFINE r == jobs[j]
             s == jobs'[j]
             a == artifacts[j]
             b == artifacts'[j]
             cs == JobReceipts(j)
             lease == Len(leases) + 1
             e == [job |-> j, version |-> r.overrides_version]
  <1>1. /\ a \in Seq(Artifact) /\ Len(a) \in Nat /\ KeptRow(r) /\ RowOK(r) /\ r \in Row
        /\ Recorded(a, cs, leases, j) /\ Serves(r, a, cs, j) /\ Exists(r)
        /\ r.task_state = "queued" /\ lease \in Nat
        /\ leases \in Seq([job : Job, version : Nat]) /\ NextRev(j) = Len(a) + 1
    <2>1. /\ a \in Seq(Artifact) /\ Len(a) \in Nat /\ KeptRow(r) /\ RowOK(r) /\ r \in Row
          /\ Recorded(a, cs, leases, j) /\ Serves(r, a, cs, j)
          /\ leases \in Seq([job : Job, version : Nat])
      BY AccountParts
    <2>2. r.task_state = "queued" /\ NextRev(j) = Len(a) + 1
      BY DEF Gave, NextRev
    <2>3. Exists(r)
      BY <2>1, <2>2, TaskExists
    <2>4. Len(leases) \in Nat
      BY <2>1, LenProperties
    <2> QED
      BY <2>1, <2>2, <2>3, <2>4
  <1>2. JobReceipts(j)' = cs /\ leases' = Append(leases, e)
        /\ s = Claimed(r, lease, Len(a) + 1, t)
    BY <1>1 DEF Gave
  <1>3. NewRevision(a, b, lease)
    BY <1>1, RevisionAdded DEF Gave
  <1>4. KeptRow(s)
    BY <1>1, <1>2, ClaimedKept
  <1>5. /\ s.status = ClaimStatus(r) /\ s.steps = r.steps /\ s.prior = r.prior
        /\ s.rev = r.rev /\ s.has_state = r.has_state
        /\ s.lease = lease /\ s.next_rev = Len(a) + 1 /\ s.task_state = "claimed"
    BY <1>1, <1>2 DEF Claimed, Row
  <1>6. Shown(s) = Shown(r) /\ Exists(s)
    <2>1. CASE r.task_kind = "process"
      <3>1. r.status = "queued"
        BY <1>1, <2>1 DEF RowOK, HasTask
      <3> QED
        BY <1>5, <2>1, <3>1 DEF ClaimStatus, Shown, OutputReady, Exists, NoRow
    <2>2. CASE r.task_kind # "process"
      BY <1>1, <1>5, <2>2 DEF ClaimStatus, Shown, Exists
    <2> QED
      BY <2>1, <2>2
  <1>7. Recorded(b, cs, leases', j) /\ \A c \in cs : c.lease # lease
    <2>1. e \in [job : Job, version : Nat] /\ e.job = j
      BY <1>1 DEF Row
    <2> HIDE DEF e, b, a
    <2> QED
      BY <1>1, <1>2, <1>3, <2>1, LeaseGiven
  <1> HIDE DEF b, s
  <1>8. Serves(s, b, cs, j)
    <2>1. /\ Len(b) \in Nat /\ Len(b) >= Len(a)
          /\ \A v \in 1..Len(a) :
               /\ b[v].lease = a[v].lease
               /\ a[v].state = "published" => b[v].state = "published"
      BY <1>1, <1>3 DEF NewRevision
    <2> QED
      BY <1>1, <1>5, <1>6, <2>1, ServesKept
  <1>9. Staged(s, b, cs)
    <2>1. s.rev \in 0..Len(a)
      BY <1>1, <1>5 DEF Serves
    <2> QED
      BY <1>1, <1>3, <1>5, <1>7, <2>1 DEF Staged, NewRevision
  <1>10. Cleared(s, b, cs)
    BY <1>6 DEF Cleared
  <1> QED
    BY <1>2, <1>4, <1>7, <1>8, <1>9, <1>10 DEF AccountAfter, b, s

\* Nothing but the leases of others changes.
LEMMA UntouchedKept ==
  ASSUME LedgerInv, LeasesGrow, NEW j \in Job, Untouched(j)
  PROVE  AccountAfter(j)
  BY AccountParts, RecordedLater DEF LedgerInv, Untouched, OnlyRow, AccountAfter

\* Every move of a job keeps its account in order.
LEMMA MoveKept ==
  ASSUME LedgerInv, LeasesGrow, NEW j \in Job, Move(j)
  PROVE  AccountAfter(j)
  <1>1. CASE Untouched(j)
    BY <1>1, UntouchedKept
  <1>2. CASE Removed(j)
    BY <1>2, RemovedKept
  <1>3. ASSUME NEW result \in Results, Seals(j, result) PROVE AccountAfter(j)
    BY <1>3, SealsKept
  <1>4. ASSUME NEW t \in RequestTimes, TimedMove(j, t) PROVE AccountAfter(j)
    <2>1. t \in Nat
      BY RequestTimesNat DEF LedgerInv, BoardInv
    <2>2. ASSUME NEW leg \in Legs, Created(j, leg, t) \/ Asked(j, leg, t) PROVE AccountAfter(j)
      BY <2>1, <2>2, CreatedKept, AskedKept
    <2>3. ASSUME NEW i \in Item, Chose(j, i, t) PROVE AccountAfter(j)
      BY <2>1, <2>3, ChoseKept
    <2>4. CASE Gave(j, t)
      BY <2>1, <2>4, GaveKept
    <2>5. CASE Retired(j, t)
      BY <2>1, <2>5, RetiredKept
    <2>6. ASSUME NEW steps \in StepsType, Renewed(j, steps, t) PROVE AccountAfter(j)
      BY <2>1, <2>6, RenewedAccountKept
    <2>7. ASSUME NEW result \in Results, Publishes(j, result, t) PROVE AccountAfter(j)
      BY <2>1, <2>7, PublishesKept
    <2>8. CASE TakesBack(j, t)
      BY <2>1, <2>8, TakesBackKept
    <2>9. CASE Fails(j, t) \/ Stops(j, t) \/ Requeues(j, t)
      BY <2>1, <2>9, FailsKept, StopsKept, RequeuesKept
    <2> QED
      BY <1>4, <2>2, <2>3, <2>4, <2>5, <2>6, <2>7, <2>8, <2>9 DEF TimedMove
  <1> QED
    BY <1>1, <1>2, <1>3, <1>4 DEF Move

------------------------------------------------------------------------------
(* The actions of the board move each job *)

\* A request made now carries a time of its own.
LEMMA NowIsRequestTime ==
  ASSUME BoardInv
  PROVE  clock \in RequestTimes /\ clock \in Nat
  BY Inputs DEF RequestTimes, BoardInv, TypeOK

\* An action on one job leaves the others as they are.
LEMMA OneJob ==
  ASSUME BoardInv, NEW j \in Job, NEW row, NEW b,
         jobs' = [jobs EXCEPT ![j] = row], artifacts' = [artifacts EXCEPT ![j] = b],
         \A k \in Job \ {j} : JobReceipts(k)' = JobReceipts(k)
  PROVE  jobs'[j] = row /\ artifacts'[j] = b /\ \A k \in Job \ {j} : Untouched(k)
  BY DEF BoardInv, TypeOK, Untouched, OnlyRow

\* The same for an action that writes its row and nothing else.
LEMMA OneRow ==
  ASSUME BoardInv, NEW j \in Job, NEW row,
         jobs' = [jobs EXCEPT ![j] = row], UNCHANGED <<artifacts, completions>>
  PROVE  jobs'[j] = row /\ OnlyRow(j) /\ \A k \in Job \ {j} : Untouched(k)
  BY DEF BoardInv, TypeOK, Untouched, OnlyRow, JobReceipts

\* The same for an action that writes a row and the state of its revision.
LEMMA OneRevision ==
  ASSUME BoardInv, NEW j \in Job, NEW row, NEW b,
         jobs' = [jobs EXCEPT ![j] = row], artifacts' = [artifacts EXCEPT ![j] = b],
         UNCHANGED completions
  PROVE  /\ jobs'[j] = row /\ artifacts'[j] = b /\ JobReceipts(j)' = JobReceipts(j)
         /\ \A k \in Job \ {j} : Untouched(k)
  BY DEF BoardInv, TypeOK, Untouched, OnlyRow, JobReceipts

\* A receipt is one of its lease's job.
LEMMA OneReceipt ==
  ASSUME NEW l, NEW result, NEW j, j = leases[l].job,
         completions' = completions \cup {Receipt(l, result)}
  PROVE  /\ JobReceipts(j)' = JobReceipts(j)
              \cup {[job |-> j, lease |-> l, result |-> result]}
         /\ \A k : k # j => JobReceipts(k)' = JobReceipts(k)
  <1> DEFINE d == [job |-> j, lease |-> l, result |-> result]
  <1>1. d.job = j /\ Receipt(l, result) = d
    BY DEF Receipt
  <1> HIDE DEF d
  <1>2. completions' = completions \cup {d}
    BY <1>1
  <1>3. JobReceipts(j)' = JobReceipts(j) \cup {d}
    BY <1>1, <1>2 DEF JobReceipts
  <1>4. ASSUME NEW k, k # j PROVE JobReceipts(k)' = JobReceipts(k)
    BY <1>1, <1>2, <1>4 DEF JobReceipts
  <1> QED
    BY <1>3, <1>4 DEF d

Moves == LeasesGrow /\ \A k \in Job : Move(k)

\* An action that moves one job.
LEMMA MovesOne ==
  ASSUME NEW j \in Job, leases' = leases, Move(j), \A k \in Job \ {j} : Untouched(k)
  PROVE  Moves
  BY DEF Moves, LeasesGrow, Move

\* A move at a request's time is a move.
LEMMA MoveTimed ==
  ASSUME NEW j, NEW t \in RequestTimes, clock' = clock, TimedMove(j, t)
  PROVE  Move(j)
  BY DEF Move

\* What people do.
LEMMA PersonMoves ==
  ASSUME LedgerInv, PersonNext
  PROVE  Moves
  <1> USE DEF LedgerInv
  <1>1. ASSUME NEW j \in Job, NEW leg \in Legs, CreateJob(j, leg) PROVE Moves
    <2>1. Created(j, leg, clock) /\ \A k \in Job \ {j} : Untouched(k)
      BY <1>1, OneRow DEF CreateJob, Created
    <2>2. Move(j)
      BY <1>1, <2>1, NowIsRequestTime, MoveTimed DEF CreateJob, TimedMove
    <2> QED
      BY <1>1, <2>1, <2>2, MovesOne DEF CreateJob
  <1>2. ASSUME NEW j \in Job, DeleteJob(j) PROVE Moves
    <2>1. JobReceipts(j)' = {} /\ \A k \in Job \ {j} : JobReceipts(k)' = JobReceipts(k)
      BY <1>2 DEF DeleteJob, JobReceipts
    <2>2. Removed(j) /\ \A k \in Job \ {j} : Untouched(k)
      BY <1>2, <2>1, OneJob DEF DeleteJob, Removed
    <2> QED
      BY <1>2, <2>2, MovesOne DEF DeleteJob, Move
  <1>3. ASSUME NEW c \in choosing, SetOverride(c) PROVE Moves
    <2> DEFINE j == c.job
    <2>1. j \in Job /\ c.item \in Item /\ c.now \in RequestTimes
      BY <1>3 DEF SetOverride, BoardInv, TypeOK
    <2>2. Chose(j, c.item, c.now) /\ \A k \in Job \ {j} : Untouched(k)
      BY <1>3, <2>1, OneRow DEF SetOverride, Chose
    <2>3. Move(j)
      BY <1>3, <2>1, <2>2, MoveTimed DEF SetOverride, TimedMove
    <2> QED
      BY <1>3, <2>1, <2>2, <2>3, MovesOne DEF SetOverride
  <1>4. ASSUME NEW j \in Job, NEW leg \in Legs, NEW t \in RequestTimes, QueueReview(j, leg, t)
        PROVE  Moves
    <2>1. Asked(j, leg, t) /\ \A k \in Job \ {j} : Untouched(k)
      BY <1>4, OneRow DEF QueueReview, Asked
    <2>2. Move(j)
      BY <1>4, <2>1, MoveTimed DEF QueueReview, TimedMove
    <2> QED
      BY <1>4, <2>1, <2>2, MovesOne DEF QueueReview
  <1>5. CASE \/ \E j \in Job, i \in Item : CheckChoice(j, i)
             \/ \E c \in choosing : DropChoice(c)
    BY <1>5 DEF CheckChoice, DropChoice, Moves, LeasesGrow, Move, Untouched, OnlyRow, JobReceipts
  <1> QED
    BY <1>1, <1>2, <1>3, <1>4, <1>5 DEF PersonNext

\* claim: the rows met before the claimed one are retired, the claimed one is given away.
LEMMA ClaimMoves ==
  ASSUME LedgerInv, Claim
  PROVE  Moves
  <1> USE DEF LedgerInv
  <1>1. ASSUME NEW j \in Job, NEW skipped \in SUBSET Job, NEW t \in RequestTimes,
               ClaimTask(j, skipped, t)
        PROVE  Moves
    <2>1. /\ clock' = clock /\ \A k \in Job : JobReceipts(k)' = JobReceipts(k)
          /\ \A k \in Job \ {j} : artifacts'[k] = artifacts[k]
      BY <1>1 DEF ClaimTask, JobReceipts, BoardInv, TypeOK
    <2>2. Gave(j, t)
      BY <1>1, <2>1 DEF ClaimTask, Gave, Queued, BoardInv, TypeOK
    <2>3. ASSUME NEW k \in skipped, k # j PROVE Retired(k, t)
      BY <1>1, <2>1, <2>3 DEF ClaimTask, Retired, Retires, Queued, OnlyRow
    <2>4. ASSUME NEW k \in Job \ skipped, k # j PROVE Untouched(k)
      BY <1>1, <2>1, <2>4 DEF ClaimTask, Untouched, OnlyRow
    <2>5. \A k \in Job : Move(k)
      BY <2>1, <2>2, <2>3, <2>4 DEF Move, TimedMove
    <2>6. LeasesGrow
      <3>1. [job |-> j, version |-> jobs[j].overrides_version] \in [job : Job, version : Nat]
        BY DEF BoardInv, TypeOK, Row
      <3> QED
        BY <1>1, <3>1 DEF ClaimTask, LeasesGrow
    <2> QED
      BY <2>5, <2>6 DEF Moves
  <1>2. ASSUME NEW t \in RequestTimes, ClaimNothing(t) PROVE Moves
    <2>1. clock' = clock /\ LeasesGrow /\ \A k \in Job : OnlyRow(k)
      BY <1>2 DEF ClaimNothing, LeasesGrow, OnlyRow, JobReceipts
    <2>2. ASSUME NEW k \in Queued PROVE Retired(k, t)
      BY <1>2, <2>1, <2>2 DEF ClaimNothing, Retired, Retires, Queued
    <2>3. ASSUME NEW k \in Job \ Queued PROVE Untouched(k)
      BY <1>2, <2>1 DEF ClaimNothing, Untouched
    <2>4. \A k \in Job : Move(k)
      BY <2>1, <2>2, <2>3 DEF Move, TimedMove
    <2> QED
      BY <2>1, <2>4 DEF Moves
  <1> QED
    BY <1>1, <1>2 DEF Claim

\* A runner that holds a lease holds the row of the lease's job.
LEMMA HeldRow ==
  ASSUME LedgerInv, NEW l \in Lease, NEW t, HeldJob(l, t), NEW j, j = leases[l].job
  PROVE  j \in Job /\ jobs[j].lease = l /\ jobs[j].task_state = "claimed" /\ Holding(j, t)
  BY LeaseType DEF LedgerInv, HeldJob, Holding, Held

\* A complete call whose second look at the lease succeeds.
LEMMA StillHeld ==
  ASSUME LedgerInv, NEW c \in completing, StillCompletes(c), NEW j, j = leases[c.lease].job
  PROVE  /\ j \in Job /\ jobs[j].lease = c.lease
         /\ c.result \in Results /\ c.now \in RequestTimes
         /\ Completes(j, c.result)
  <1>1. c.lease \in Lease /\ c.result \in Results /\ j \in Job
    BY CompletingType, LeaseType DEF LedgerInv
  <1>2. Held(jobs[j], c.lease, clock)
    BY DEF StillCompletes
  <1>3. MayReport(jobs[j], c.result)
    BY <1>2 DEF LedgerInv, ReportsFit, Held
  <1> QED
    BY <1>1, <1>2, <1>3 DEF StillCompletes, Completes, Holding, Held

\* complete, where it publishes or throws.
LEMMA CompleteMoves ==
  ASSUME LedgerInv, NEW c \in completing, CompleteCommit(c) \/ CompleteThrow(c)
  PROVE  Moves
  <1>1. BoardInv
    BY DEF LedgerInv
  <1>0. PICK j : j = leases[c.lease].job
    OBVIOUS
  <1>2. CASE CompleteCommit(c)
    <2>1. /\ j \in Job /\ jobs[j].lease = c.lease /\ c.result \in Results
          /\ c.now \in RequestTimes /\ Completes(j, c.result)
      BY <1>0, <1>2, StillHeld DEF CompleteCommit
    <2>2. /\ JobReceipts(j)' = JobReceipts(j)
               \cup {[job |-> j, lease |-> c.lease, result |-> c.result]}
          /\ \A k : k # j => JobReceipts(k)' = JobReceipts(k)
      BY <1>0, <1>2, OneReceipt DEF CompleteCommit
    <2> DEFINE row == Published(jobs[j], c.result, leases[c.lease].version, c.now)
               b == MoveArtifact(artifacts[j], jobs[j].next_rev, {"staging"}, "published")
    <2>3. /\ jobs' = [jobs EXCEPT ![j] = row] /\ artifacts' = [artifacts EXCEPT ![j] = b]
          /\ JobAllowed(jobs[j].status, StatusAfter(jobs[j], c.result))
          /\ clock' = clock /\ leases' = leases
      BY <1>0, <1>2 DEF CompleteCommit
    <2> HIDE DEF row, b
    <2>4. jobs'[j] = row /\ artifacts'[j] = b /\ \A k \in Job \ {j} : Untouched(k)
      BY <1>1, <2>1, <2>2, <2>3, OneJob
    <2>5. Publishes(j, c.result, c.now)
      BY <2>1, <2>2, <2>3, <2>4 DEF Publishes, row, b
    <2>6. Move(j)
      BY <2>1, <2>3, <2>5, MoveTimed DEF TimedMove
    <2> QED
      BY <2>1, <2>3, <2>4, <2>6, MovesOne
  <1>3. CASE CompleteThrow(c)
    <2>1. /\ j \in Job /\ c.result \in Results /\ Completes(j, c.result)
      BY <1>0, <1>3, StillHeld DEF CompleteThrow
    <2>2. /\ artifacts' = [artifacts EXCEPT ![j] =
                             MoveArtifact(artifacts[j], jobs[j].next_rev, {"staging"}, "sealed")]
          /\ ~JobAllowed(jobs[j].status, StatusAfter(jobs[j], c.result))
          /\ UNCHANGED <<clock, leases, jobs, completions>>
      BY <1>0, <1>3 DEF CompleteThrow
    <2>3. jobs' = [jobs EXCEPT ![j] = jobs[j]]
      BY <1>1, <2>1, <2>2 DEF BoardInv, TypeOK
    <2>4. /\ jobs'[j] = jobs[j] /\ RowAndRevision(j, {"staging"}, "sealed")
          /\ \A k \in Job \ {j} : Untouched(k)
      BY <1>1, <2>1, <2>2, <2>3, OneRevision DEF RowAndRevision
    <2>5. Seals(j, c.result)
      BY <2>1, <2>2, <2>4 DEF Seals
    <2> QED
      BY <2>1, <2>2, <2>4, <2>5, MovesOne DEF Move
  <1> QED
    BY <1>2, <1>3

\* review_refused.
LEMMA RefuseMoves ==
  ASSUME LedgerInv, NEW l \in Lease, NEW t \in RequestTimes, RefuseReview(l, t)
  PROVE  Moves
  <1>1. BoardInv
    BY DEF LedgerInv
  <1>0. PICK j : j = leases[l].job
    OBVIOUS
  <1>2. j \in Job /\ jobs[j].lease = l /\ Holding(j, t)
    BY <1>0, HeldRow DEF RefuseReview
  <1>3. /\ JobReceipts(j)' = JobReceipts(j) \cup {[job |-> j, lease |-> l, result |-> Refused]}
        /\ \A k : k # j => JobReceipts(k)' = JobReceipts(k)
    BY <1>0, OneReceipt DEF RefuseReview
  <1>4. /\ jobs' = [jobs EXCEPT ![j] = RestorePrior(jobs[j], t)]
        /\ artifacts' = [artifacts EXCEPT ![j] = EndArtifact(artifacts[j], jobs[j])]
        /\ jobs[j].task_kind = "review" /\ clock' = clock /\ leases' = leases
    BY <1>0 DEF RefuseReview, TaskAllowed
  <1>5. /\ jobs'[j] = RestorePrior(jobs[j], t) /\ artifacts'[j] = EndArtifact(artifacts[j], jobs[j])
        /\ \A k \in Job \ {j} : Untouched(k)
    BY <1>1, <1>2, <1>3, <1>4, OneJob
  <1>6. TakesBack(j, t)
    BY <1>2, <1>3, <1>4, <1>5 DEF TakesBack
  <1> QED
    BY <1>2, <1>4, <1>5, <1>6, MoveTimed, MovesOne DEF TimedMove

\* fail.
LEMMA FailMoves ==
  ASSUME LedgerInv, NEW l \in Lease, NEW t \in RequestTimes, FailTask(l, t)
  PROVE  Moves
  <1>0. PICK j : j = leases[l].job
    OBVIOUS
  <1> DEFINE r == jobs[j]
             again == r.task_kind = "sync" /\ ~SyncStops(r)
             row == IF r.task_kind = "sync" THEN RetrySync(r, t) ELSE FailRow(r, t)
             b == IF again THEN RequeueArtifact(artifacts[j], r) ELSE EndArtifact(artifacts[j], r)
  <1>1. BoardInv
    BY DEF LedgerInv
  <1>2. j \in Job /\ r.task_state = "claimed"
    BY <1>0, HeldRow DEF FailTask
  <1>3. /\ jobs' = [jobs EXCEPT ![j] = row] /\ artifacts' = [artifacts EXCEPT ![j] = b]
        /\ clock' = clock /\ leases' = leases /\ completions' = completions
    BY <1>0 DEF FailTask
  <1> HIDE DEF row, b
  <1>4. /\ jobs'[j] = row /\ artifacts'[j] = b /\ JobReceipts(j)' = JobReceipts(j)
        /\ \A k \in Job \ {j} : Untouched(k)
    BY <1>1, <1>2, <1>3, OneRevision
  <1>5. TimedMove(j, t)
    <2>1. CASE again
      <3>1. Requeues(j, t)
        BY <1>2, <1>4, <2>1 DEF Requeues, row, b, RowAndRevision, RequeueArtifact, RetrySync, SyncStops
      <3> QED
        BY <3>1 DEF TimedMove
    <2>2. CASE r.task_kind = "sync" /\ SyncStops(r)
      <3>1. Stops(j, t)
        BY <1>2, <1>4, <2>2 DEF Stops, row, b, RowAndRevision, EndArtifact, RetrySync
      <3> QED
        BY <3>1 DEF TimedMove
    <2>3. CASE r.task_kind # "sync"
      <3>1. Fails(j, t)
        BY <1>2, <1>4, <2>3 DEF Fails, row, b, RowAndRevision, EndArtifact
      <3> QED
        BY <3>1 DEF TimedMove
    <2> QED
      BY <2>1, <2>2, <2>3
  <1> QED
    BY <1>2, <1>3, <1>4, <1>5, MoveTimed, MovesOne

\* A lease that is renewed, with or without a step's event.
LEMMA RenewMoves ==
  ASSUME LedgerInv, NEW l \in Lease, NEW t \in RequestTimes,
         Renew(l, t) \/ \E e \in Events : Progress(l, e, t)
  PROVE  Moves
  <1>1. BoardInv
    BY DEF LedgerInv
  <1>0. PICK j : j = leases[l].job
    OBVIOUS
  <1> DEFINE r == jobs[j]
  <1>2. j \in Job /\ Holding(j, t) /\ r.steps \in StepsType /\ r \in Row
    <2>1. j \in Job /\ Holding(j, t)
      BY <1>0, HeldRow DEF Renew, Progress
    <2> QED
      BY <1>1, <2>1 DEF BoardInv, TypeOK, Row
  <1>3. PICK steps \in StepsType :
          /\ r.task_kind = "sync" => steps = r.steps
          /\ jobs' = [jobs EXCEPT ![j] =
                        [r EXCEPT !.steps = steps, !.lease_expires = t + LeaseMs, !.updated_at = t]]
    <2>1. CASE Renew(l, t)
      <3>1. [r EXCEPT !.lease_expires = t + LeaseMs, !.updated_at = t]
              = [r EXCEPT !.steps = r.steps, !.lease_expires = t + LeaseMs, !.updated_at = t]
        BY <1>2 DEF Row
      <3> QED
        BY <1>0, <1>2, <2>1, <3>1 DEF Renew
    <2>2. ASSUME NEW e \in Events, Progress(l, e, t)
          PROVE  \E steps \in StepsType :
                   /\ r.task_kind = "sync" => steps = r.steps
                   /\ jobs' = [jobs EXCEPT ![j] =
                                 [r EXCEPT !.steps = steps, !.lease_expires = t + LeaseMs,
                                           !.updated_at = t]]
      <3> DEFINE steps == IF r.task_kind = "sync" THEN r.steps ELSE ApplyStepProgress(r.steps, e)
      <3>1. steps \in StepsType
        <4>1. e \in StepEvent
          BY Inputs
        <4> QED
          BY <1>2, <4>1 DEF ApplyStepProgress, StepsType, StepEvent
      <3>2. r.task_kind = "sync" => steps = r.steps
        OBVIOUS
      <3>3. jobs' = [jobs EXCEPT ![j] = [r EXCEPT !.steps = steps, !.lease_expires = t + LeaseMs,
                                                  !.updated_at = t]]
        BY <1>0, <2>2 DEF Progress, Progressed
      <3> HIDE DEF steps
      <3> QED
        BY <3>1, <3>2, <3>3
    <2> QED
      BY <2>1, <2>2
  <1>4. clock' = clock /\ leases' = leases /\ UNCHANGED <<artifacts, completions>>
    BY DEF Renew, Progress
  <1>5. Renewed(j, steps, t) /\ \A k \in Job \ {j} : Untouched(k)
    BY <1>1, <1>2, <1>3, <1>4, OneRow DEF Renewed
  <1> QED
    BY <1>2, <1>3, <1>4, <1>5, MoveTimed, MovesOne DEF TimedMove

\* sweep: each row is moved by its verdict, or removed when it is stale.
LEMMA SweepMoves ==
  ASSUME LedgerInv, Sweep
  PROVE  Moves
  <1> DEFINE t == clock
  <1>1. BoardInv /\ t \in RequestTimes /\ clock' = clock /\ LeasesGrow
    BY NowIsRequestTime DEF LedgerInv, Sweep, LeasesGrow
  <1>2. ASSUME NEW j \in Job PROVE Move(j)
    <2> DEFINE r == jobs[j]
    <2>1. RowOK(r) /\ r \in Row /\ KeptRow(r)
      BY AccountParts
    <2>2. CASE j \in Expired(clock)
      <3>1. Exists(r)
        <4>1. CASE r.task_state = "claimed"
          BY <2>1, <4>1, TaskExists
        <4>2. CASE r.task_state # "claimed"
          <5>1. Swept(j, clock) = r
            BY <4>2 DEF Swept, SweepTask, SweepVerdict
          <5> QED
            BY <2>2, <5>1 DEF Expired, Stale
        <4> QED
          BY <4>1, <4>2
      <3>2. jobs'[j] = EmptyRow("deleted") /\ artifacts'[j] = <<>> /\ JobReceipts(j)' = {}
        BY <2>2 DEF Sweep, JobReceipts
      <3> QED
        BY <1>1, <3>1, <3>2 DEF Move, Removed
    <2>3. CASE j \notin Expired(clock)
      <3>1. /\ jobs'[j] = SweepTask(r, t) /\ artifacts'[j] = SweptArtifacts(j, t)
            /\ JobReceipts(j)' = JobReceipts(j)
        BY <2>3 DEF Sweep, Swept, JobReceipts
      <3>2. CASE SweepVerdict(r, t) = "stop"
        <4>1. r.task_state = "claimed" /\ r.task_kind = "sync"
          BY <3>2 DEF SweepVerdict
        <4>2. Stops(j, t)
          BY <3>1, <3>2, <4>1 DEF Stops, RowAndRevision, SweepTask, SweptArtifacts, EndArtifact
        <4> QED
          BY <1>1, <4>2, MoveTimed DEF TimedMove
      <3>3. CASE SweepVerdict(r, t) = "fail"
        <4>1. r.task_state = "claimed" /\ r.task_kind # "sync"
          BY <3>3 DEF SweepVerdict
        <4>2. Fails(j, t)
          BY <3>1, <3>3, <4>1 DEF Fails, RowAndRevision, SweepTask, SweptArtifacts, EndArtifact
        <4> QED
          BY <1>1, <4>2, MoveTimed DEF TimedMove
      <3>4. CASE SweepVerdict(r, t) = "requeue"
        <4>1. r.task_state = "claimed" /\ r.pending_review = NoLeg
          BY <2>1, <3>4 DEF SweepVerdict, SyncStops, RowOK, HasTask, ReviewFollows
        <4>2. Requeues(j, t)
          BY <3>1, <3>4, <4>1
             DEF Requeues, RowAndRevision, SweepTask, SweptArtifacts, RequeueArtifact
        <4> QED
          BY <1>1, <4>2, MoveTimed DEF TimedMove
      <3>5. CASE SweepVerdict(r, t) \notin {"stop", "fail", "requeue"}
        <4>1. Untouched(j)
          BY <3>1, <3>5 DEF Untouched, OnlyRow, SweepTask, SweptArtifacts
        <4> QED
          BY <4>1 DEF Move
      <3> QED
        BY <3>2, <3>3, <3>4, <3>5
    <2> QED
      BY <2>2, <2>3
  <1> QED
    BY <1>1, <1>2 DEF Moves

\* Every step of the board moves every job.
LEMMA NextMoves ==
  ASSUME LedgerInv, [Next]_vars
  PROVE  Moves
  <1>1. CASE PersonNext \/ Claim
    BY <1>1, PersonMoves, ClaimMoves
  <1>2. CASE RunnerNext
    <2>1. ASSUME NEW l \in Lease, NEW t \in RequestTimes,
                 Renew(l, t) \/ \E e \in Events : Progress(l, e, t)
          PROVE  Moves
      BY <2>1, RenewMoves
    <2>2. ASSUME NEW l \in Lease, NEW t \in RequestTimes, RefuseReview(l, t) PROVE Moves
      BY <2>2, RefuseMoves
    <2>3. ASSUME NEW l \in Lease, NEW t \in RequestTimes, FailTask(l, t) PROVE Moves
      BY <2>3, FailMoves
    <2>4. ASSUME NEW c \in completing, CompleteCommit(c) \/ CompleteThrow(c) PROVE Moves
      BY <2>4, CompleteMoves
    <2>5. CASE \/ \E l \in Lease, result \in Results, t \in RequestTimes :
                    CompleteBegin(l, result, t)
               \/ \E c \in completing : CompleteDrop(c)
      BY <2>5 DEF CompleteBegin, CompleteDrop, Moves, LeasesGrow, Move, Untouched, OnlyRow,
                  JobReceipts
    <2> QED
      BY <1>2, <2>1, <2>2, <2>3, <2>4, <2>5 DEF RunnerNext
  <1>3. CASE Sweep
    BY <1>3, SweepMoves
  <1>4. CASE Tick \/ UNCHANGED vars
    BY <1>4 DEF Tick, vars, Moves, LeasesGrow, Move, Untouched, OnlyRow, JobReceipts
  <1> QED
    BY <1>1, <1>2, <1>3, <1>4 DEF Next

------------------------------------------------------------------------------
(* What may be reported *)

\* A row that is claimed after a move has the lease and the task it had, or a new lease.
LeaseStays(j) ==
  jobs'[j].task_state = "claimed" =>
    \/ /\ jobs[j].task_state = "claimed" /\ jobs'[j].lease = jobs[j].lease
       /\ jobs'[j].task_kind = jobs[j].task_kind
    \/ jobs'[j].lease = Len(leases) + 1

\* Every move keeps a lease for the task it was given for.
LEMMA MoveLease ==
  ASSUME LedgerInv, NEW j \in Job, Move(j)
  PROVE  LeaseStays(j)
  <1> DEFINE r == jobs[j]
             s == jobs'[j]
  <1> USE DEF LeaseStays
  <1>0. /\ RowOK(r) /\ r \in Row /\ KeptRow(r)
        /\ \A t \in RequestTimes : t \in Nat
    BY AccountParts, RequestTimesNat DEF LedgerInv, BoardInv
  <1>1. CASE Untouched(j)
    BY <1>1 DEF Untouched
  <1>2. CASE Removed(j)
    BY <1>2 DEF Removed, EmptyRow
  <1>3. ASSUME NEW result \in Results, Seals(j, result) PROVE LeaseStays(j)
    BY <1>3 DEF Seals
  <1>4. ASSUME NEW t \in RequestTimes, TimedMove(j, t) PROVE LeaseStays(j)
    <2>1. ASSUME NEW leg \in Legs, Created(j, leg, t) PROVE LeaseStays(j)
      BY <2>1 DEF Created, NewRow, EmptyRow
    <2>2. ASSUME NEW leg \in Legs, Asked(j, leg, t) PROVE LeaseStays(j)
      BY <1>0, <2>2 DEF Asked, Reopened, QueueTask, Row
    <2>3. ASSUME NEW i \in Item, Chose(j, i, t) PROVE LeaseStays(j)
      BY <1>0, <2>3 DEF Chose, Chosen, QueueTask, Row
    <2>4. CASE Gave(j, t)
      BY <1>0, <2>4 DEF Gave, Claimed, Row
    <2>5. CASE Retired(j, t) \/ Fails(j, t)
      BY <1>0, <2>5, FailRowFields DEF Retired, Fails
    <2>6. ASSUME NEW steps \in StepsType, Renewed(j, steps, t) PROVE LeaseStays(j)
      BY <1>0, <2>6 DEF Renewed, Row
    <2>7. ASSUME NEW result \in Results, Publishes(j, result, t) PROVE LeaseStays(j)
      <3>1. leases[r.lease].version \in Nat
        BY <2>7, HeldStaged, LeaseType
           DEF LedgerInv, Lease, Publishes, Completes, Holding, Held
      <3> DEFINE p == PublishedRow(r, result, leases[r.lease].version, t)
      <3>2. p \in Row /\ s = EndTask(p, t, TRUE) /\ t \in Nat
        BY <1>0, <2>7, <3>1, PublishedFields DEF Publishes
      <3> HIDE DEF p
      <3>3. TaskEnded(p, s)
        BY <3>2, EndTaskFields
      <3> QED
        BY <3>3 DEF TaskEnded
    <2>8. CASE TakesBack(j, t)
      BY <1>0, <2>8, RestoredShown DEF TakesBack
    <2>9. CASE Stops(j, t)
      <3>1. TaskEnded(r, s)
        BY <1>0, <2>9, EndTaskFields DEF Stops, StopSync
      <3> QED
        BY <3>1 DEF TaskEnded
    <2>10. CASE Requeues(j, t)
      BY <1>0, <2>10, RequeueFields DEF Requeues
    <2> QED
      BY <1>4, <2>1, <2>2, <2>3, <2>4, <2>5, <2>6, <2>7, <2>8, <2>9, <2>10 DEF TimedMove
  <1> QED
    BY <1>1, <1>2, <1>3, <1>4 DEF Move

\* The complete calls that wait are those that waited before, and one that has just asked.
LEMMA CompletingStep ==
  ASSUME [Next]_vars
  PROVE  \/ completing' \subseteq completing
         \/ \E l \in Lease, result \in Results, t \in RequestTimes : CompleteBegin(l, result, t)
  BY DEF Next, PersonNext, CreateJob, DeleteJob, CheckChoice, SetOverride, DropChoice, QueueReview,
     Claim, ClaimTask, ClaimNothing, RunnerNext, Renew, Progress, CompleteCommit, CompleteThrow,
     CompleteDrop, RefuseReview, FailTask, Sweep, Tick, vars

\* A report that was allowed stays allowed while its lease is held.
LEMMA ReportsKept ==
  ASSUME LedgerInv, [Next]_vars
  PROVE  ReportsFit'
  <1>1. LeasesGrow /\ \A j \in Job : LeaseStays(j)
    BY NextMoves, MoveLease DEF Moves
  <1>2. ASSUME NEW l \in Lease
        PROVE  l \in Nat /\ l <= Len(leases) /\ leases'[l] = leases[l] /\ leases[l].job \in Job
    <2>1. leases \in Seq([job : Job, version : Nat]) /\ leases[l].job \in Job /\ Len(leases) \in Nat
      BY LeaseType, LenProperties DEF LedgerInv, BoardInv, TypeOK
    <2>2. ASSUME NEW e \in [job : Job, version : Nat], leases' = Append(leases, e)
          PROVE  leases'[l] = leases[l]
      BY <2>1, <2>2, AppendProperties DEF Lease
    <2>3. leases'[l] = leases[l]
      BY <1>1, <2>2 DEF LeasesGrow
    <2> QED
      BY <2>1, <2>3 DEF Lease
  <1>3. Len(leases) \in Nat
    BY LenProperties DEF LedgerInv, BoardInv, TypeOK
  <1>4. CASE completing' \subseteq completing
    <2> SUFFICES ASSUME NEW c \in completing',
                        jobs'[leases'[c.lease].job].task_state = "claimed",
                        jobs'[leases'[c.lease].job].lease = c.lease
                 PROVE  MayReport(jobs'[leases'[c.lease].job], c.result)
      BY DEF ReportsFit
    <2>1. c \in completing /\ c.lease \in Lease
      BY <1>4, CompletingType DEF LedgerInv
    <2>2. PICK j \in Job : j = leases[c.lease].job
      BY <1>2, <2>1
    <2>3. leases'[c.lease].job = j /\ c.lease # Len(leases) + 1
      BY <1>2, <1>3, <2>1, <2>2
    <2>4. jobs[j].task_state = "claimed" /\ jobs[j].lease = c.lease
          /\ jobs'[j].task_kind = jobs[j].task_kind
      BY <1>1, <2>3 DEF LeaseStays
    <2>5. MayReport(jobs[j], c.result)
      BY <2>1, <2>2, <2>4 DEF LedgerInv, ReportsFit
    <2> QED
      BY <2>3, <2>4, <2>5 DEF MayReport
  <1>5. ASSUME NEW l \in Lease, NEW result \in Results, NEW t \in RequestTimes,
               CompleteBegin(l, result, t)
        PROVE  ReportsFit'
    BY <1>5 DEF CompleteBegin, ReportsFit, LedgerInv
  <1> QED
    BY <1>4, <1>5, CompletingStep

------------------------------------------------------------------------------
(* The invariant *)

\* The empty board.
LEMMA LedgerInit == Init => LedgerInv
  <1> SUFFICES ASSUME Init PROVE LedgerInv
    OBVIOUS
  <1>1. BoardInv
    BY InitInv
  <1>2. ASSUME NEW j \in Job PROVE JobAccount(j)
    <2>1. /\ jobs[j] = EmptyRow("absent") /\ artifacts[j] = <<>> /\ JobReceipts(j) = {}
          /\ leases \in Seq([job : Job, version : Nat])
      BY <1>1 DEF Init, JobReceipts, BoardInv, TypeOK
    <2>2. KeptRow(jobs[j]) /\ Recorded(<<>>, {}, leases, j)
      BY <2>1, EmptyRowKept, EmptyRecorded DEF NoRow
    <2>3. /\ jobs[j].rev = 0 /\ jobs[j].task_state = "idle" /\ Shown(jobs[j]) = NoPrior
      BY <2>1 DEF EmptyRow, Shown, OutputReady
    <2>4. Len(<<>>) = 0
      BY EmptySeq
    <2> QED
      BY <2>1, <2>2, <2>3, <2>4 DEF JobAccount, Ledger, Staged, Serves, Cleared
  <1>3. ReportsFit
    BY DEF Init, ReportsFit
  <1> QED
    BY <1>1, <1>2, <1>3 DEF LedgerInv

\* The accounts of all jobs stay in order.
LEMMA LedgerNext == LedgerInv /\ [Next]_vars => LedgerInv'
  <1> SUFFICES ASSUME LedgerInv, [Next]_vars PROVE LedgerInv'
    OBVIOUS
  <1>1. BoardInv'
    BY NextInv DEF LedgerInv
  <1>2. LeasesGrow /\ \A j \in Job : AccountAfter(j)
    BY NextMoves, MoveKept DEF Moves
  <1>3. \A j \in Job : JobAccount(j)'
    BY <1>2 DEF AccountAfter, JobAccount, Ledger
  <1> QED
    BY <1>1, <1>3, ReportsKept DEF LedgerInv

\* In every reachable state the row, the revisions and the receipts of every job agree, and
\* every complete call that waits on R2 may still report what it was let to report.
THEOREM LedgerInvariant == Spec => []LedgerInv
  <1>1. Init => LedgerInv
    BY LedgerInit
  <1>2. LedgerInv /\ [Next]_vars => LedgerInv'
    BY LedgerNext
  <1> QED
    BY <1>1, <1>2, PTL DEF Spec

------------------------------------------------------------------------------
(* What the invariant gives *)

\* A receipt of a lease is found under the lease's job.
LEMMA ReceiptJob ==
  ASSUME LedgerInv, NEW c \in completions
  PROVE  c.job \in Job /\ c \in JobReceipts(c.job) /\ leases[c.lease].job = c.job
  <1>1. c.job \in Job
    BY DEF LedgerInv, BoardInv, TypeOK
  <1>2. c \in JobReceipts(c.job)
    BY DEF JobReceipts
  <1> QED
    BY <1>1, <1>2, AccountParts DEF Recorded

\* One receipt for a lease, and a revision is published exactly when the lease that staged it
\* has a receipt of a result: complete, refuse, retry and sweep in any order publish once.
THEOREM PublishesOnce == Spec => []PublishedOnce
  <1>1. LedgerInv => PublishedOnce
    <2> SUFFICES ASSUME LedgerInv PROVE PublishedOnce
      OBVIOUS
    <2>1. ASSUME NEW c \in completions, NEW d \in completions, c.lease = d.lease PROVE c = d
      <3>1. c.job \in Job /\ c \in JobReceipts(c.job) /\ d \in JobReceipts(c.job)
        BY <2>1, ReceiptJob
      <3>2. \A x, y \in JobReceipts(c.job) : x.lease = y.lease => x = y
        BY <3>1, AccountParts DEF Recorded
      <3> QED
        BY <2>1, <3>1, <3>2
    <2>2. ASSUME NEW j \in Job, NEW v \in DOMAIN artifacts[j]
          PROVE  artifacts[j][v].state = "published"
                   <=> \E c \in completions : /\ c.job = j
                                              /\ c.lease = artifacts[j][v].lease
                                              /\ c.result # Refused
      <3>1. v \in 1..Len(artifacts[j])
        BY AccountParts, LenProperties
      <3>2. artifacts[j][v].state = "published"
              <=> \E c \in JobReceipts(j) : c.lease = artifacts[j][v].lease /\ c.result # Refused
        BY <3>1, AccountParts DEF Recorded
      <3> QED
        BY <3>2 DEF JobReceipts
    <2> QED
      BY <2>1, <2>2 DEF PublishedOnce
  <1> QED
    BY <1>1, LedgerInvariant, PTL

\* The runner that holds a lease can still end its task well: the lease is not spent, its
\* revision waits above the served one, and a review has an output to return to.
THEOREM HoldersCanFinish == Spec => []HeldCanFinish
  <1>1. LedgerInv => HeldCanFinish
    <2> SUFFICES ASSUME LedgerInv, NEW l \in Lease, NEW t \in RequestTimes, HeldJob(l, t),
                        NEW j \in Job, j = leases[l].job
                 PROVE  /\ Receipts(l) = {}
                        /\ jobs[j].next_rev \in DOMAIN artifacts[j]
                        /\ jobs[j].next_rev > jobs[j].rev
                        /\ artifacts[j][jobs[j].next_rev].lease = l
                        /\ artifacts[j][jobs[j].next_rev].state \in {"staging", "sealed"}
                        /\ jobs[j].task_kind = "review" => jobs[j].prior.status \in OutputReady
      BY LeaseType DEF HeldCanFinish, LedgerInv
    <2>1. jobs[j].lease = l /\ jobs[j].task_state = "claimed"
      BY HeldRow
    <2>2. Receipts(l) = {}
      <3> SUFFICES ASSUME NEW c \in completions, c.lease = l PROVE FALSE
        BY DEF Receipts
      <3>1. c \in JobReceipts(j)
        BY ReceiptJob
      <3> QED
        BY <2>1, <3>1, HeldStaged
    <2>3. DOMAIN artifacts[j] = 1..Len(artifacts[j])
      BY AccountParts, LenProperties
    <2>4. jobs[j].task_kind = "review" => jobs[j].prior.status \in OutputReady
      BY AccountParts DEF KeptRow, PriorKept
    <2> QED
      BY <2>1, <2>2, <2>3, <2>4, HeldStaged
  <1> QED
    BY <1>1, LedgerInvariant, PTL

\* Status, steps and files of a job come from one result: what it shows, or would return to,
\* is what was reported under the lease that staged the served revision.
THEOREM ShownIsPublished == Spec => []ShowsPublished
  <1>1. LedgerInv => ShowsPublished
    <2> SUFFICES ASSUME LedgerInv, NEW j \in Job, Shown(jobs[j]) # NoPrior
                 PROVE  /\ jobs[j].has_state
                        /\ jobs[j].rev \in DOMAIN artifacts[j]
                        /\ artifacts[j][jobs[j].rev].state = "published"
                        /\ [job |-> j, lease |-> artifacts[j][jobs[j].rev].lease,
                            result |-> Shown(jobs[j])] \in completions
      BY DEF ShowsPublished
    <2>1. /\ jobs[j].has_state /\ jobs[j].rev \in 1..Len(artifacts[j])
          /\ artifacts[j][jobs[j].rev].state = "published"
          /\ [job |-> j, lease |-> artifacts[j][jobs[j].rev].lease,
              result |-> Shown(jobs[j])] \in JobReceipts(j)
      BY AccountParts DEF Serves
    <2>2. DOMAIN artifacts[j] = 1..Len(artifacts[j])
      BY AccountParts, LenProperties
    <2> QED
      BY <2>1, <2>2 DEF JobReceipts
  <1> QED
    BY <1>1, LedgerInvariant, PTL

\* A claimed row passes the guards of whatever the sweep decides about it.
LEMMA VerdictAllowed ==
  ASSUME NEW r, RowOK(r), NEW now \in Nat
  PROVE  /\ SweepVerdict(r, now) = "fail" => FailAllowed(r)
         /\ SweepVerdict(r, now) = "stop" => TaskAllowed(r, "end")
         /\ SweepVerdict(r, now) = "requeue" => RequeueAllowed(r)
         /\ SweepVerdict(r, now) \in {"fail", "stop", "requeue"} => r.task_state = "claimed"
  <1>1. r \in Row
    BY DEF RowOK
  <1>2. SweepVerdict(r, now) \in {"fail", "stop", "requeue"} => r.task_state = "claimed"
    BY DEF SweepVerdict
  <1> SUFFICES ASSUME r.task_state = "claimed"
               PROVE  /\ SweepVerdict(r, now) = "fail" => FailAllowed(r)
                      /\ SweepVerdict(r, now) = "stop" => TaskAllowed(r, "end")
                      /\ SweepVerdict(r, now) = "requeue" => RequeueAllowed(r)
    BY <1>2
  <1>3. r.task_kind \in TaskKind
    BY <1>1 DEF RowOK, HasTask, Row
  <1>4. TaskAllowed(r, "end")
    BY DEF TaskAllowed, TaskTransitions
  <1>5. r.task_kind # "sync" => r.status = "processing"
    BY <1>3 DEF RowOK, HasTask, TaskKind
  <1>6. SweepVerdict(r, now) = "fail" => FailAllowed(r)
    <2>1. SweepVerdict(r, now) = "fail" => r.task_kind # "sync"
      BY DEF SweepVerdict
    <2>2. JobAllowed("processing", "failed")
      BY DEF JobAllowed, JobTransitions, Terminal
    <2> QED
      BY <1>4, <1>5, <2>1, <2>2 DEF FailAllowed
  <1>7. SweepVerdict(r, now) = "requeue" => RequeueAllowed(r)
    <2>1. SweepVerdict(r, now) = "requeue" => r.attempt < Attempts
      BY <1>1, Limits DEF SweepVerdict, SyncStops, Row
    <2>2. r.attempt < Attempts => TaskAllowed(r, "retry")
      BY <1>3 DEF TaskAllowed, TaskTransitions
    <2>3. JobAllowed(r.status, RequeuedStatus(r))
      BY <1>5 DEF JobAllowed, JobTransitions, RequeuedStatus
    <2> QED
      BY <2>1, <2>2, <2>3 DEF RequeueAllowed
  <1> QED
    BY <1>4, <1>6, <1>7

\* The alarm never trips a guard, whatever runners have done, so one job cannot keep the
\* sweep from the others.
THEOREM SweepIsSafe == Spec => []SweepNeverThrows
  <1>1. LedgerInv => SweepNeverThrows
    <2> SUFFICES ASSUME LedgerInv, NEW j \in Job PROVE SweepAllowed(j, clock)
      BY DEF SweepNeverThrows
    <2>1. RowOK(jobs[j]) /\ clock \in Nat
      BY AccountParts, NowIsRequestTime DEF LedgerInv
    <2> QED
      BY <2>1, VerdictAllowed, HeldStaged DEF SweepAllowed
  <1> QED
    BY <1>1, LedgerInvariant, PTL

------------------------------------------------------------------------------
(***************************************************************************)
(* What the board promises of its steps: choices and waiting reviews are   *)
(* not lost, a job moves only as JobContract says, and its files only as   *)
(* Revisions, on which FileStore is built, says.  Each promise is shown    *)
(* for each of those moves.                                                *)
(***************************************************************************)
------------------------------------------------------------------------------
(* Rows before and after a move *)

\* What a move does to the row, for the moves whose rows are plain rewritings.
LEMMA PublishedEnd ==
  ASSUME LedgerInv, NEW j \in Job, NEW result \in Results, NEW t \in Nat, Publishes(j, result, t)
  PROVE  \E p \in Row, version \in Nat :
           /\ version = leases[jobs[j].lease].version
           /\ ResultIn(jobs[j], p, result, version)
           /\ TaskEnded(p, jobs'[j]) /\ jobs'[j] = EndTask(p, t, TRUE)
  <1> DEFINE version == leases[jobs[j].lease].version
             p == PublishedRow(jobs[j], result, version, t)
  <1>1. version \in Nat /\ jobs[j] \in Row
    BY HeldStaged, LeaseType, AccountParts
       DEF LedgerInv, Lease, Publishes, Completes, Holding, Held
  <1>2. /\ p \in Row /\ ResultIn(jobs[j], p, result, version)
        /\ jobs'[j] = EndTask(p, t, TRUE)
    BY <1>1, PublishedFields DEF Publishes
  <1> HIDE DEF p
  <1>3. TaskEnded(p, jobs'[j])
    BY <1>2, EndTaskFields
  <1> QED
    BY <1>1, <1>2, <1>3

\* The same for a refused review.
LEMMA RestoredEnd ==
  ASSUME LedgerInv, NEW j \in Job, NEW t \in Nat, TakesBack(j, t)
  PROVE  \E p \in Row :
           /\ p.status = jobs[j].prior.status /\ p.rev = jobs[j].rev
           /\ p.overrides = jobs[j].overrides /\ p.pending_review = NoLeg
           /\ TaskEnded(p, jobs'[j]) /\ jobs'[j] = EndTask(p, t, TRUE)
  <1> DEFINE p == RestoredRow(jobs[j], t)
  <1>1. /\ jobs[j] \in Row /\ jobs[j].prior.status \in OutputReady
        /\ jobs[j].pending_review = NoLeg
    BY AccountParts DEF TakesBack, KeptRow, PriorKept, RowOK, HasTask, ReviewFollows
  <1>2. /\ p \in Row /\ p.status = jobs[j].prior.status /\ p.rev = jobs[j].rev
        /\ p.overrides = jobs[j].overrides /\ p.pending_review = NoLeg
        /\ jobs'[j] = EndTask(p, t, TRUE)
    BY <1>1, RestoredFields DEF TakesBack
  <1> HIDE DEF p
  <1>3. TaskEnded(p, jobs'[j])
    BY <1>2, EndTaskFields
  <1> QED
    BY <1>2, <1>3

------------------------------------------------------------------------------
(* Waiting reviews *)

ReviewRuns(r, s) ==
  r.pending_review # NoLeg /\ s.pending_review # r.pending_review /\ Exists(s) =>
    /\ s.task_kind = "review" /\ s.task_state = "queued"
    /\ s.gateway_exp = r.pending_review
    /\ s.prior.status \in OutputReady

ReviewQueued(p, s) ==
  p.pending_review # NoLeg =>
    /\ s.task_kind = "review" /\ s.task_state = "queued"
    /\ s.gateway_exp = p.pending_review /\ s.prior = p.prior

\* A task that ends with a review behind it queues the review, whether or not it published.
LEMMA ReviewNext ==
  ASSUME NEW p \in Row, NEW t \in Nat
  PROVE  ReviewQueued(p, EndTask(p, t, TRUE)) /\ ReviewQueued(p, EndTask(p, t, FALSE))
  BY EndTaskFields DEF TaskEnded, ReviewQueued

\* Every move leaves a waiting review waiting, or queues it.
LEMMA MoveReviewRuns ==
  ASSUME LedgerInv, NEW j \in Job, Move(j)
  PROVE  ReviewRuns(jobs[j], jobs'[j])
  <1> DEFINE r == jobs[j]
             s == jobs'[j]
  <1>0. RowOK(r) /\ r \in Row /\ KeptRow(r)
    BY AccountParts
  <1> SUFFICES ASSUME r.pending_review # NoLeg, s.pending_review # r.pending_review, Exists(s)
               PROVE  /\ s.task_kind = "review" /\ s.task_state = "queued"
                      /\ s.gateway_exp = r.pending_review
                      /\ s.prior.status \in OutputReady
    BY DEF ReviewRuns
  <1>1. /\ r.task_kind = "sync" /\ r.task_state = "claimed"
        /\ r.prior.status \in OutputReady /\ Exists(r)
    BY <1>0, TaskExists DEF RowOK, HasTask, ReviewFollows, KeptRow, PriorKept
  <1>2. CASE Untouched(j) \/ Removed(j) \/ \E result \in Results : Seals(j, result)
    BY <1>2 DEF Untouched, Removed, Seals, Exists, EmptyRow, NoRow
  <1>3. ASSUME NEW t \in RequestTimes, TimedMove(j, t)
        PROVE  /\ s.task_kind = "review" /\ s.task_state = "queued"
               /\ s.gateway_exp = r.pending_review
               /\ s.prior.status \in OutputReady
    <2>0. t \in Nat
      BY RequestTimesNat DEF LedgerInv, BoardInv
    <2>1. ASSUME NEW leg \in Legs, Created(j, leg, t) \/ Asked(j, leg, t) PROVE FALSE
      BY <1>1, <2>1 DEF Created, Asked, ReviewAccepted, Exists, NoRow
    <2>2. ASSUME NEW i \in Item, Chose(j, i, t) PROVE FALSE
      BY <1>0, <1>1, <2>2 DEF Chose, Chosen, Row
    <2>3. CASE Gave(j, t) \/ Retired(j, t) \/ TakesBack(j, t) \/ Fails(j, t) \/ Requeues(j, t)
      BY <1>1, <2>3 DEF Gave, Retired, TakesBack, Fails, Requeues
    <2>4. ASSUME NEW steps \in StepsType, Renewed(j, steps, t) PROVE FALSE
      BY <1>0, <2>4 DEF Renewed, Row
    <2>5. CASE Stops(j, t)
      <3>1. s = EndTask(r, t, FALSE)
        BY <2>5 DEF Stops, StopSync
      <3>2. ReviewQueued(r, s)
        BY <1>0, <2>0, <3>1, ReviewNext
      <3> QED
        BY <1>1, <3>2 DEF ReviewQueued
    <2>6. ASSUME NEW result \in Results, Publishes(j, result, t)
          PROVE  /\ s.task_kind = "review" /\ s.task_state = "queued"
                 /\ s.gateway_exp = r.pending_review
                 /\ s.prior.status \in OutputReady
      <3>1. PICK p \in Row, version \in Nat :
              ResultIn(r, p, result, version) /\ s = EndTask(p, t, TRUE)
        BY <2>0, <2>6, PublishedEnd
      <3>2. p.pending_review = r.pending_review /\ p.prior = result
        BY <3>1 DEF ResultIn
      <3>3. result.status \in OutputReady
        BY <1>1, <2>6 DEF Publishes, Completes, MayReport
      <3>4. ReviewQueued(p, s)
        BY <2>0, <3>1, ReviewNext
      <3> QED
        BY <3>2, <3>3, <3>4 DEF ReviewQueued
    <2> QED
      BY <1>3, <2>1, <2>2, <2>3, <2>4, <2>5, <2>6 DEF TimedMove
  <1> QED
    BY <1>2, <1>3 DEF Move

\* A review accepted behind a running sync is the next task of its job whatever becomes of the
\* sync, with the leg it came with and an output to return to.
THEOREM WaitingReviewsRun == Spec => WaitingReviewRuns
  <1>1. LedgerInv /\ [Next]_vars =>
          [\A j \in Job :
             LET r == jobs[j]
                 s == jobs'[j]
             IN  r.pending_review # NoLeg /\ s.pending_review # r.pending_review /\ Exists(s) =>
                   /\ s.task_kind = "review" /\ s.task_state = "queued"
                   /\ s.gateway_exp = r.pending_review
                   /\ s.prior.status \in OutputReady]_vars
    BY NextMoves, MoveReviewRuns DEF Moves, ReviewRuns
  <1> QED
    BY <1>1, LedgerInvariant, PTL DEF Spec, WaitingReviewRuns

------------------------------------------------------------------------------
(* Choices *)

ChoicesStay(r, s) ==
  /\ \A i \in Item : r.overrides[i] # 0 /\ Exists(s) =>
       \/ s.overrides[i] >= r.overrides[i]
       \/ s.rev # r.rev /\ s.synced_version >= r.overrides[i]
  /\ r.task_kind # "none" /\ s.task_kind = "none" /\ Unsynced(s) =>
       r.task_kind = "sync" /\ s.rev = r.rev

\* A task that ends with no task behind it leaves nothing to render, unless it gives up.
LEMMA EndsSynced ==
  ASSUME NEW p \in Row, NEW t \in Nat, EndTask(p, t, TRUE).task_kind = "none"
  PROVE  ~Unsynced(EndTask(p, t, TRUE))
  <1> DEFINE s == EndTask(p, t, TRUE)
  <1>1. TaskEnded(p, s) /\ ~Unsynced(p)
    BY EndTaskFields
  <1> HIDE DEF s
  <1>2. ~Unsynced(s)
    BY <1>1 DEF TaskEnded, Unsynced
  <1> QED
    BY <1>2 DEF s

\* A row with the same choices and a task, or a job that has failed.
LEMMA ChoicesSame ==
  ASSUME NEW r \in Row, NEW s, s.overrides = r.overrides,
         s.task_kind # "none" \/ ~Unsynced(s) \/ r.task_kind = "none"
           \/ (r.task_kind = "sync" /\ s.rev = r.rev)
  PROVE  ChoicesStay(r, s)
  BY DEF ChoicesStay, Row

\* Every move keeps the choices, or publishes them.
LEMMA MoveChoices ==
  ASSUME LedgerInv, NEW j \in Job, Move(j)
  PROVE  ChoicesStay(jobs[j], jobs'[j])
  <1> DEFINE r == jobs[j]
             s == jobs'[j]
  <1>0. RowOK(r) /\ r \in Row /\ KeptRow(r)
    BY AccountParts
  <1>1. CASE Untouched(j) \/ \E result \in Results : Seals(j, result)
    BY <1>0, <1>1, ChoicesSame DEF Untouched, Seals
  <1>2. CASE Removed(j)
    BY <1>2 DEF Removed, ChoicesStay, EmptyRow, Exists, NoRow, Unsynced
  <1>3. ASSUME NEW t \in RequestTimes, TimedMove(j, t) PROVE ChoicesStay(r, s)
    <2>0. t \in Nat
      BY RequestTimesNat DEF LedgerInv, BoardInv
    <2>1. ASSUME NEW leg \in Legs, Created(j, leg, t) PROVE ChoicesStay(r, s)
      <3>1. r = EmptyRow("absent")
        BY <1>0, <2>1 DEF Created, KeptRow, Exists, NoRow
      <3> QED
        BY <3>1 DEF EmptyRow, ChoicesStay
    <2>2. ASSUME NEW leg \in Legs, Asked(j, leg, t) PROVE ChoicesStay(r, s)
      <3>1. s.overrides = r.overrides /\ s.task_kind \in {"sync", "review"}
        BY <1>0, <2>2 DEF Asked, Reopened, QueueTask, Row
      <3> QED
        BY <1>0, <3>1, ChoicesSame
    <2>3. ASSUME NEW i \in Item, Chose(j, i, t) PROVE ChoicesStay(r, s)
      <3> DEFINE o == [r.overrides EXCEPT ![i] = r.overrides_version + 1]
      <3>1. s.overrides = o /\ (r.task_kind # "none" => s.task_kind # "none")
        BY <1>0, <2>3 DEF Chose, Chosen, QueueTask, Row
      <3>2. \A k \in Item : o[k] >= r.overrides[k]
        BY <1>0 DEF KeptRow, Row
      <3> HIDE DEF o
      <3> QED
        BY <3>1, <3>2 DEF ChoicesStay
    <2>4. CASE Gave(j, t)
      <3>1. s.overrides = r.overrides /\ s.task_kind = r.task_kind
        BY <1>0, <2>4 DEF Gave, Claimed, Row
      <3> QED
        BY <1>0, <3>1, ChoicesSame
    <2>5. CASE Retired(j, t) \/ Fails(j, t)
      <3>1. s.overrides = r.overrides /\ s.status = "failed"
        BY <1>0, <2>0, <2>5, FailRowFields DEF Retired, Fails
      <3>2. ~Unsynced(s)
        BY <3>1 DEF Unsynced, OutputReady
      <3> QED
        BY <1>0, <3>1, <3>2, ChoicesSame
    <2>6. ASSUME NEW steps \in StepsType, Renewed(j, steps, t) PROVE ChoicesStay(r, s)
      <3>1. s.overrides = r.overrides /\ s.task_kind = r.task_kind
        BY <1>0, <2>6 DEF Renewed, Row
      <3> QED
        BY <1>0, <3>1, ChoicesSame
    <2>7. ASSUME NEW result \in Results, Publishes(j, result, t) PROVE ChoicesStay(r, s)
      <3>1. PICK p \in Row, version \in Nat :
              /\ ResultIn(r, p, result, version)
              /\ TaskEnded(p, s) /\ s = EndTask(p, t, TRUE)
        BY <2>0, <2>7, PublishedEnd
      <3>2. /\ s.overrides = OverridesAfter(r.overrides, version) /\ s.synced_version = version
            /\ s.rev = r.next_rev
        BY <3>1 DEF TaskEnded, ResultIn
      <3>3. r.next_rev # r.rev
        <4>1. r.next_rev > r.rev
          BY <2>7, HeldStaged DEF Publishes, Completes, Holding, Held
        <4> QED
          BY <1>0, <4>1 DEF Row
      <3>4. s.task_kind = "none" => ~Unsynced(s)
        BY <2>0, <3>1, EndsSynced
      <3>5. \A i \in Item : \/ s.overrides[i] >= r.overrides[i]
                            \/ s.synced_version >= r.overrides[i]
        BY <1>0, <3>2 DEF OverridesAfter, Row
      <3> QED
        BY <3>2, <3>3, <3>4, <3>5 DEF ChoicesStay
    <2>8. CASE TakesBack(j, t)
      <3>1. PICK p \in Row : /\ p.overrides = r.overrides
                             /\ TaskEnded(p, s) /\ s = EndTask(p, t, TRUE)
        BY <2>0, <2>8, RestoredEnd
      <3>2. s.overrides = r.overrides /\ (s.task_kind = "none" => ~Unsynced(s))
        BY <2>0, <3>1, EndsSynced DEF TaskEnded
      <3> QED
        BY <1>0, <3>2, ChoicesSame
    <2>9. CASE Stops(j, t)
      <3>1. TaskEnded(r, s)
        BY <1>0, <2>0, <2>9, EndTaskFields DEF Stops, StopSync
      <3>2. s.overrides = r.overrides /\ s.rev = r.rev
        BY <3>1 DEF TaskEnded
      <3> QED
        BY <1>0, <2>9, <3>2, ChoicesSame DEF Stops
    <2>10. CASE Requeues(j, t)
      <3>1. s.overrides = r.overrides /\ s.task_kind = r.task_kind
        BY <1>0, <2>0, <2>10, RequeueFields DEF Requeues
      <3> QED
        BY <1>0, <3>1, ChoicesSame
    <2> QED
      BY <1>3, <2>1, <2>2, <2>3, <2>4, <2>5, <2>6, <2>7, <2>8, <2>9, <2>10 DEF TimedMove
  <1> QED
    BY <1>1, <1>2, <1>3 DEF Move

\* overridesAfter and endTask: a choice is replaced only by a newer one or by being published,
\* and a task that ends with choices left to render is a sync that was given up.
THEOREM ChoicesKept == Spec => ChoiceKept
  <1>1. LedgerInv /\ [Next]_vars =>
          [\A j \in Job :
             LET r == jobs[j]
                 s == jobs'[j]
             IN  /\ \A i \in Item : r.overrides[i] # 0 /\ Exists(s) =>
                      \/ s.overrides[i] >= r.overrides[i]
                      \/ s.rev # r.rev /\ s.synced_version >= r.overrides[i]
                 /\ r.task_kind # "none" /\ s.task_kind = "none" /\ Unsynced(s) =>
                      r.task_kind = "sync" /\ s.rev = r.rev]_vars
    BY NextMoves, MoveChoices DEF Moves, ChoicesStay
  <1> QED
    BY <1>1, LedgerInvariant, PTL DEF Spec, ChoiceKept

------------------------------------------------------------------------------
(* A row as the contract sees it *)

PhaseOf(r) ==
  CASE r.status = "absent"       -> "none"
    [] r.status = "deleted"      -> "gone"
    [] r.status \in Active       -> "working"
    [] r.status \in OutputReady  -> "ready"
    [] r.status = "failed"       -> "failed"

Outputs == {result \in Results : result.status \in OutputReady}

Turns(r, s, from, to, shown) == PhaseOf(r) \in from /\ PhaseOf(s) = to /\ Shown(s) = shown

\* The steps of JobContract, of one row.
ContractStep(r, s) ==
  \/ PhaseOf(s) = PhaseOf(r) /\ Shown(s) = Shown(r)
  \/ Turns(r, s, {"none"}, "working", NoPrior)
  \/ \E o \in Outputs : Turns(r, s, {"working"}, "ready", o)
  \/ Turns(r, s, {"ready"}, "working", Shown(r))
  \/ Shown(r) # NoPrior /\ Turns(r, s, {"working"}, "ready", Shown(r))
  \/ Turns(r, s, {"working"}, "failed", NoPrior)
  \/ Turns(r, s, {"working", "ready", "failed"}, "gone", NoPrior)
  \/ /\ Shown(r) # NoPrior
     /\ \E o \in Outputs : \/ Turns(r, s, {"ready"}, "ready", o)
                           \/ Turns(r, s, {"working"}, "working", o)

\* Each status has its phase.
LEMMA PhaseStatus ==
  ASSUME NEW r \in Row
  PROVE  /\ PhaseOf(r) \in {"none", "working", "ready", "failed", "gone"}
         /\ PhaseOf(r) = "none" <=> r.status = "absent"
         /\ PhaseOf(r) = "gone" <=> r.status = "deleted"
         /\ PhaseOf(r) = "working" <=> r.status \in Active
         /\ PhaseOf(r) = "ready" <=> r.status \in OutputReady
         /\ PhaseOf(r) = "failed" <=> r.status = "failed"
  BY DEF PhaseOf, Row, JobStatus, Terminal, Active, OutputReady, NoRow

\* A row with the status of another shows the same, unless it is ready with other steps.
LEMMA SameSeen ==
  ASSUME NEW r \in Row, NEW s \in Row, s.status = r.status, s.prior = r.prior,
         r.status \in OutputReady => s.steps = r.steps
  PROVE  ContractStep(r, s)
  BY DEF ContractStep, PhaseOf, Shown

\* What a task says of the status of its job.
LEMMA TaskStatus ==
  ASSUME NEW r, RowOK(r)
  PROVE  /\ r.task_kind = "process" /\ r.task_state = "queued" => r.status = "queued"
         /\ r.task_kind = "process" /\ r.task_state = "claimed" => r.status = "processing"
         /\ r.task_kind = "review" => r.status = "processing" /\ r.pending_review = NoLeg
         /\ r.pending_review # NoLeg => r.status = "processing" /\ r.task_kind = "sync"
         /\ r.task_kind = "sync" /\ r.pending_review = NoLeg => r.status \notin Active
         /\ r.task_state # "idle" => r.task_kind \in TaskKind
         /\ r.task_state = "idle" => r.task_kind = "none"
  BY DEF RowOK, HasTask, ReviewFollows, Row, TaskKind, TaskState, Active

\* A claimed or queued process or review task is of a job that is worked on.
LEMMA WorkedOn ==
  ASSUME NEW r, RowOK(r), r.task_kind # "sync", r.task_state # "idle"
  PROVE  r.status \in Active
  <1>1. r.task_kind \in {"process", "review"} /\ r.task_state \in {"queued", "claimed"}
    BY TaskStatus DEF TaskKind, RowOK, Row, TaskState
  <1> QED
    BY <1>1, TaskStatus DEF Active

\* A sync is always claimable: no leg is asked for it, and its job stays as it is.
LEMMA SyncClaimable ==
  ASSUME NEW r, r.task_kind = "sync", r.task_state = "queued", NEW t
  PROVE  Claimable(r, t)
  BY DEF Claimable, MayClaim, CredentialEligibility, TaskAllowed, TaskTransitions, TaskKind,
     JobAllowed, ClaimStatus

------------------------------------------------------------------------------
(* Every move is a step of the contract *)

\* A publication, refused review, failure or stop ends the task of a claimed row.
LEMMA PublishesContract ==
  ASSUME LedgerInv, NEW j \in Job, NEW result \in Results, NEW t \in Nat, jobs'[j] \in Row,
         Publishes(j, result, t)
  PROVE  ContractStep(jobs[j], jobs'[j])
  <1> DEFINE r == jobs[j]
             s == jobs'[j]
  <1>1. /\ RowOK(r) /\ r \in Row /\ KeptRow(r) /\ Exists(r) /\ r.task_state = "claimed"
        /\ MayReport(r, result) /\ JobAllowed(r.status, StatusAfter(r, result))
    BY AccountParts, TaskExists DEF Publishes, Completes, Holding, Held
  <1>2. /\ result \in [status : Terminal, steps : StepsType]
        /\ result = [status |-> result.status, steps |-> result.steps]
    BY Inputs
  <1>3. PICK p \in Row, version \in Nat : ResultIn(r, p, result, version) /\ TaskEnded(p, s)
    BY <1>1, PublishedEnd
  <1>4. CASE r.pending_review # NoLeg
    <2>1. r.status = "processing" /\ r.task_kind = "sync" /\ r.prior.status \in OutputReady
      BY <1>1, <1>4, TaskStatus DEF KeptRow, PriorKept
    <2>2. result \in Outputs
      BY <1>1, <2>1 DEF MayReport, Outputs
    <2>3. s.status = "processing" /\ s.prior = result
      BY <1>3, <1>4, <2>1 DEF ResultIn, TaskEnded, StatusAfter
    <2>4. Shown(r) = r.prior /\ Shown(s) = result /\ r.prior # NoPrior
      BY <2>1, <2>3 DEF Shown, OutputReady, NoPrior
    <2>5. PhaseOf(r) = "working" /\ PhaseOf(s) = "working"
      BY <1>1, <2>1, <2>3, PhaseStatus DEF Active
    <2> QED
      BY <2>2, <2>4, <2>5 DEF ContractStep, Turns
  <1>5. CASE r.pending_review = NoLeg
    <2>1. s.status = result.status /\ s.steps = result.steps /\ s.prior = NoPrior
      BY <1>3, <1>5 DEF ResultIn, TaskEnded, StatusAfter
    <2>2. CASE result.status \in OutputReady
      <3>1. Shown(s) = result /\ PhaseOf(s) = "ready" /\ result \in Outputs
        BY <1>2, <2>1, <2>2, PhaseStatus DEF Shown, Outputs
      <3>2. CASE r.task_kind = "sync"
        <4>1. r.status \notin Active /\ r.status # "failed"
          BY <1>1, <1>5, <2>2, <3>2, TaskStatus
             DEF JobAllowed, JobTransitions, StatusAfter, OutputReady
        <4>2. r.status \in OutputReady
          BY <1>1, <4>1 DEF Row, JobStatus, Terminal, Exists
        <4>3. PhaseOf(r) = "ready" /\ Shown(r) # NoPrior
          BY <1>1, <4>2, PhaseStatus, ShownParts
        <4> QED
          BY <3>1, <4>3 DEF ContractStep, Turns
      <3>3. CASE r.task_kind # "sync"
        <4>1. PhaseOf(r) = "working"
          BY <1>1, <3>3, WorkedOn, PhaseStatus
        <4> QED
          BY <3>1, <4>1 DEF ContractStep, Turns
      <3> QED
        BY <3>2, <3>3
    <2>3. CASE result.status \notin OutputReady
      <3>1. result.status = "failed" /\ r.task_kind = "process"
        BY <1>1, <1>2, <2>3 DEF Terminal, MayReport
      <3>2. PhaseOf(s) = "failed" /\ Shown(s) = NoPrior
        BY <2>1, <3>1, PhaseStatus DEF Shown, OutputReady
      <3>3. PhaseOf(r) = "working"
        BY <1>1, <3>1, WorkedOn, PhaseStatus
      <3> QED
        BY <3>2, <3>3 DEF ContractStep, Turns
    <2> QED
      BY <2>2, <2>3
  <1> QED
    BY <1>4, <1>5

\* A refused review shows again what was shown before it.
LEMMA TakesBackContract ==
  ASSUME LedgerInv, NEW j \in Job, NEW t \in Nat, jobs'[j] \in Row, TakesBack(j, t)
  PROVE  ContractStep(jobs[j], jobs'[j])
  <1> DEFINE r == jobs[j]
             s == jobs'[j]
  <1>1. /\ RowOK(r) /\ r \in Row /\ KeptRow(r) /\ r.task_kind = "review"
        /\ r.prior.status \in OutputReady /\ r.status = "processing"
    BY AccountParts, TaskStatus DEF TakesBack, KeptRow, PriorKept
  <1>2. s.status = r.prior.status /\ s.steps = r.prior.steps
    <2> DEFINE p == RestoredRow(r, t)
    <2>1. /\ p \in Row /\ p.status = r.prior.status /\ p.steps = r.prior.steps
          /\ s = EndTask(p, t, TRUE)
      BY <1>1, RestoredFields DEF TakesBack
    <2> HIDE DEF p
    <2>2. TaskEnded(p, s)
      BY <2>1, EndTaskFields
    <2> QED
      BY <2>1, <2>2 DEF TaskEnded
  <1>3. r.prior = [status |-> r.prior.status, steps |-> r.prior.steps]
    BY <1>1 DEF Row
  <1>4. Shown(r) = r.prior /\ r.prior # NoPrior
    BY <1>1 DEF Shown, OutputReady, NoPrior
  <1>5. Shown(s) = r.prior
    BY <1>1, <1>2, <1>3 DEF Shown
  <1>6. PhaseOf(r) = "working" /\ PhaseOf(s) = "ready"
    BY <1>1, <1>2, PhaseStatus DEF Active
  <1> QED
    BY <1>4, <1>5, <1>6 DEF ContractStep, Turns

\* A failure is of a job that is worked on.
LEMMA FailsContract ==
  ASSUME LedgerInv, NEW j \in Job, NEW t \in Nat, jobs'[j] \in Row, Fails(j, t) \/ Retired(j, t)
  PROVE  ContractStep(jobs[j], jobs'[j])
  <1> DEFINE r == jobs[j]
             s == jobs'[j]
  <1>1. RowOK(r) /\ r \in Row /\ r.task_state # "idle" /\ s = FailRow(r, t)
    BY AccountParts DEF Fails, Retired
  <1>2. r.task_kind # "sync"
    BY SyncClaimable DEF Fails, Retired
  <1>3. PhaseOf(r) = "working"
    BY <1>1, <1>2, WorkedOn, PhaseStatus
  <1>4. s.status = "failed" /\ s.prior = NoPrior
    BY <1>1, FailRowFields
  <1>5. PhaseOf(s) = "failed" /\ Shown(s) = NoPrior
    BY <1>4, PhaseStatus DEF Shown, OutputReady
  <1> QED
    BY <1>3, <1>5 DEF ContractStep, Turns

\* A sync that is given up changes nothing that is shown.
LEMMA StopsContract ==
  ASSUME LedgerInv, NEW j \in Job, NEW t \in Nat, jobs'[j] \in Row, Stops(j, t),
         jobs[j].status = "failed" => Shown(jobs[j]) = NoPrior
  PROVE  ContractStep(jobs[j], jobs'[j])
  <1> DEFINE r == jobs[j]
             s == jobs'[j]
  <1>1. /\ RowOK(r) /\ r \in Row /\ KeptRow(r) /\ Exists(r)
        /\ r.task_kind = "sync" /\ r.task_state = "claimed"
    BY AccountParts, TaskExists DEF Stops
  <1>2. TaskEnded(r, s)
    BY <1>1, EndTaskFields DEF Stops, StopSync
  <1>3. /\ s.status = r.status /\ s.steps = r.steps
        /\ s.prior = IF r.pending_review = NoLeg THEN NoPrior ELSE r.prior
    BY <1>2 DEF TaskEnded
  <1>4. CASE r.pending_review # NoLeg
    BY <1>1, <1>3, <1>4, SameSeen
  <1>5. CASE r.pending_review = NoLeg
    <2>1. r.status \in Terminal
      BY <1>1, <1>5, TaskStatus DEF Exists, Row, JobStatus
    <2>2. Shown(s) = Shown(r)
      BY <1>3, <1>5, <2>1 DEF Shown, Terminal
    <2> QED
      BY <1>3, <2>2 DEF ContractStep, PhaseOf
  <1> QED
    BY <1>4, <1>5

\* A task that is tried again leaves its job as it is, or back in the queue.
LEMMA RequeuesContract ==
  ASSUME LedgerInv, NEW j \in Job, NEW t \in Nat, jobs'[j] \in Row, Requeues(j, t)
  PROVE  ContractStep(jobs[j], jobs'[j])
  <1> DEFINE r == jobs[j]
             s == jobs'[j]
  <1>1. RowOK(r) /\ r \in Row /\ r.task_state = "claimed"
    BY AccountParts DEF Requeues
  <1>2. /\ s.status = RequeuedStatus(r) /\ s.prior = r.prior
        /\ r.task_kind = "sync" => s.steps = r.steps
    BY <1>1, RequeueFields DEF Requeues
  <1>3. CASE r.task_kind = "sync"
    BY <1>1, <1>2, <1>3, SameSeen DEF RequeuedStatus
  <1>4. CASE r.task_kind # "sync"
    <2>1. r.status \in Active /\ s.status \in Active
      BY <1>1, <1>2, <1>4, WorkedOn DEF RequeuedStatus, Active
    <2>2. Shown(r) = r.prior /\ Shown(s) = r.prior
      BY <1>2, <2>1 DEF Shown, Active, OutputReady
    <2>3. PhaseOf(r) = "working" /\ PhaseOf(s) = "working"
      BY <1>1, <2>1, PhaseStatus
    <2> QED
      BY <2>2, <2>3 DEF ContractStep
  <1> QED
    BY <1>3, <1>4

\* A claim starts the work, or a sync of what is shown.
LEMMA GaveContract ==
  ASSUME LedgerInv, NEW j \in Job, NEW t \in Nat, jobs'[j] \in Row, Gave(j, t)
  PROVE  ContractStep(jobs[j], jobs'[j])
  <1> DEFINE r == jobs[j]
             s == jobs'[j]
  <1>1. RowOK(r) /\ r \in Row /\ r.task_state = "queued"
    BY AccountParts DEF Gave
  <1>2. s.status = ClaimStatus(r) /\ s.prior = r.prior /\ s.steps = r.steps
    BY <1>1 DEF Gave, Claimed, Row
  <1>3. CASE r.task_kind # "process"
    BY <1>1, <1>2, <1>3, SameSeen DEF ClaimStatus
  <1>4. CASE r.task_kind = "process"
    <2>1. r.status = "queued" /\ s.status = "processing"
      BY <1>1, <1>2, <1>4, TaskStatus DEF ClaimStatus
    <2>2. Shown(r) = r.prior /\ Shown(s) = r.prior
      BY <1>2, <2>1 DEF Shown, OutputReady
    <2>3. PhaseOf(r) = "working" /\ PhaseOf(s) = "working"
      BY <1>1, <2>1, PhaseStatus DEF Active
    <2> QED
      BY <2>2, <2>3 DEF ContractStep
  <1> QED
    BY <1>3, <1>4

\* A renewal changes the steps only of a job that is worked on.
LEMMA RenewedContract ==
  ASSUME LedgerInv, NEW j \in Job, NEW steps \in StepsType, NEW t \in Nat, jobs'[j] \in Row,
         Renewed(j, steps, t)
  PROVE  ContractStep(jobs[j], jobs'[j])
  <1> DEFINE r == jobs[j]
             s == jobs'[j]
  <1>1. RowOK(r) /\ r \in Row /\ r.task_state = "claimed"
    BY AccountParts DEF Renewed, Holding, Held
  <1>2. s.status = r.status /\ s.prior = r.prior /\ s.steps = steps
    BY <1>1 DEF Renewed, Row
  <1>3. r.status \in OutputReady => r.task_kind = "sync"
    BY <1>1, WorkedOn DEF Active, OutputReady
  <1> QED
    BY <1>1, <1>2, <1>3, SameSeen DEF Renewed

\* queueReview sets the output aside.
LEMMA AskedContract ==
  ASSUME LedgerInv, NEW j \in Job, NEW leg \in Legs, NEW t \in Nat, jobs'[j] \in Row,
         Asked(j, leg, t)
  PROVE  ContractStep(jobs[j], jobs'[j])
  <1> DEFINE r == jobs[j]
             o == Reopened(r, leg, t)
             s == jobs'[j]
  <1>1. r \in Row /\ r.status \in OutputReady
    BY AccountParts DEF Asked, ReviewAccepted
  <1>2. s.status = "processing" /\ s.prior = [status |-> r.status, steps |-> r.steps]
    <2>1. /\ [o EXCEPT !.pending_review = leg].status = "processing"
          /\ [o EXCEPT !.pending_review = leg].prior = [status |-> r.status, steps |-> r.steps]
      BY <1>1 DEF Reopened, Row
    <2>2. /\ QueueTask(o, "review", t).status = "processing"
          /\ QueueTask(o, "review", t).prior = [status |-> r.status, steps |-> r.steps]
      BY <1>1 DEF Reopened, QueueTask, Row
    <2> QED
      BY <2>1, <2>2 DEF Asked
  <1>3. Shown(s) = Shown(r)
    BY <1>1, <1>2 DEF Shown, OutputReady
  <1>4. PhaseOf(r) = "ready" /\ PhaseOf(s) = "working"
    BY <1>1, <1>2, PhaseStatus DEF Active
  <1> QED
    BY <1>3, <1>4 DEF ContractStep, Turns

\* A choice changes nothing that is shown.
LEMMA ChoseContract ==
  ASSUME LedgerInv, NEW j \in Job, NEW i \in Item, NEW t \in Nat, jobs'[j] \in Row, Chose(j, i, t)
  PROVE  ContractStep(jobs[j], jobs'[j])
  <1> DEFINE r == jobs[j]
             c == Chosen(r, i, t)
             s == jobs'[j]
  <1>1. RowOK(r) /\ r \in Row /\ Exists(r)
    BY AccountParts DEF Chose
  <1>2. c \in Row /\ c.status = r.status /\ c.prior = r.prior /\ c.steps = r.steps
    <2>1. c \in Row
      BY <1>1, ChosenOK DEF RowOK
    <2>2. c.status = r.status /\ c.prior = r.prior /\ c.steps = r.steps
      BY <1>1 DEF Chosen, Row
    <2> QED
      BY <2>1, <2>2
  <1>3. /\ QueueTask(c, "sync", t).status = c.status /\ QueueTask(c, "sync", t).prior = c.prior
        /\ QueueTask(c, "sync", t).steps = c.steps
    <2> HIDE DEF c
    <2> QED
      BY <1>2 DEF QueueTask, Row
  <1>4. s.status = r.status /\ s.prior = r.prior /\ s.steps = r.steps
    BY <1>2, <1>3 DEF Chose
  <1> QED
    BY <1>1, <1>4, SameSeen

\* A failed job has no output to show.
FailedShowsNothing == \A j \in Job : jobs[j].status = "failed" => Shown(jobs[j]) = NoPrior

\* Every move is a step of the contract.
LEMMA MoveContract ==
  ASSUME LedgerInv, FailedShowsNothing, NEW j \in Job, jobs'[j] \in Row, Move(j)
  PROVE  ContractStep(jobs[j], jobs'[j])
  <1> DEFINE r == jobs[j]
             s == jobs'[j]
  <1>0. r \in Row
    BY AccountParts
  <1>1. CASE Untouched(j) \/ \E result \in Results : Seals(j, result)
    BY <1>1 DEF Untouched, Seals, ContractStep
  <1>2. CASE Removed(j)
    <2>1. s.status = "deleted" /\ s.prior = NoPrior
      BY <1>2 DEF Removed, EmptyRow
    <2>2. PhaseOf(s) = "gone" /\ Shown(s) = NoPrior
      BY <2>1, PhaseStatus DEF Shown, OutputReady
    <2>3. PhaseOf(r) \in {"working", "ready", "failed"}
      BY <1>0, <1>2, PhaseStatus DEF Removed, Exists, NoRow
    <2> QED
      BY <2>2, <2>3 DEF ContractStep, Turns
  <1>3. ASSUME NEW t \in RequestTimes, TimedMove(j, t) PROVE ContractStep(r, s)
    <2>0. t \in Nat
      BY RequestTimesNat DEF LedgerInv, BoardInv
    <2>1. ASSUME NEW leg \in Legs, Created(j, leg, t) PROVE ContractStep(r, s)
      <3>1. s.status = "queued" /\ s.prior = NoPrior /\ r.status = "absent"
        BY <2>1 DEF Created, NewRow, EmptyRow
      <3>2. PhaseOf(s) = "working" /\ Shown(s) = NoPrior
        BY <3>1, PhaseStatus DEF Shown, OutputReady, Active
      <3>3. PhaseOf(r) = "none"
        BY <1>0, <3>1, PhaseStatus
      <3> QED
        BY <3>2, <3>3 DEF ContractStep, Turns
    <2>2. ASSUME NEW leg \in Legs, Asked(j, leg, t) PROVE ContractStep(r, s)
      BY <2>0, <2>2, AskedContract
    <2>3. ASSUME NEW i \in Item, Chose(j, i, t) PROVE ContractStep(r, s)
      BY <2>0, <2>3, ChoseContract
    <2>4. ASSUME NEW steps \in StepsType, Renewed(j, steps, t) PROVE ContractStep(r, s)
      BY <2>0, <2>4, RenewedContract
    <2>5. ASSUME NEW result \in Results, Publishes(j, result, t) PROVE ContractStep(r, s)
      BY <2>0, <2>5, PublishesContract
    <2>6. CASE Gave(j, t)
      BY <2>0, <2>6, GaveContract
    <2>7. CASE Retired(j, t) \/ Fails(j, t)
      BY <2>0, <2>7, FailsContract
    <2>8. CASE TakesBack(j, t)
      BY <2>0, <2>8, TakesBackContract
    <2>9. CASE Stops(j, t)
      BY <2>0, <2>9, StopsContract DEF FailedShowsNothing
    <2>10. CASE Requeues(j, t)
      BY <2>0, <2>10, RequeuesContract
    <2> QED
      BY <1>3, <2>1, <2>2, <2>3, <2>4, <2>5, <2>6, <2>7, <2>8, <2>9, <2>10 DEF TimedMove
  <1> QED
    BY <1>1, <1>2, <1>3 DEF Move

------------------------------------------------------------------------------
(* The refinement *)

\* A step of the contract gives a failed job nothing to show.
LEMMA ContractFailed ==
  ASSUME NEW r \in Row, NEW s \in Row, ContractStep(r, s),
         r.status = "failed" => Shown(r) = NoPrior
  PROVE  s.status = "failed" => Shown(s) = NoPrior
  <1> SUFFICES ASSUME PhaseOf(s) = "failed" PROVE Shown(s) = NoPrior
    BY PhaseStatus
  <1>1. PhaseOf(r) = "failed" => Shown(r) = NoPrior
    BY PhaseStatus
  <1> QED
    BY <1>1 DEF ContractStep, Turns

\* What a job shows is something a runner reported, and fit to be shown.
LEMMA ShownIsOutput ==
  ASSUME NEW r \in Row, KeptRow(r), NEW a, NEW cs, NEW j, Serves(r, a, cs, j),
         \A c \in cs : c.result \in Result
  PROVE  Shown(r) \in Outputs \cup {NoPrior}
  <1> SUFFICES ASSUME Shown(r) # NoPrior PROVE Shown(r) \in Outputs
    OBVIOUS
  <1>1. Shown(r) \in Result
    <2> DEFINE c == [job |-> j, lease |-> a[r.rev].lease, result |-> Shown(r)]
    <2>1. c \in cs /\ c.result = Shown(r)
      BY DEF Serves
    <2> HIDE DEF c
    <2> QED
      BY <2>1
  <1>2. Shown(r).status \in OutputReady
    BY ShownParts DEF Shown, KeptRow
  <1>3. Refused.status \notin OutputReady
    BY DEF Refused, OutputReady
  <1> QED
    BY <1>1, <1>2, <1>3 DEF Result, Outputs

ContractInv == LedgerInv /\ FailedShowsNothing

\* Every step of the board is a step of the contract for each job.
LEMMA ContractNext ==
  ASSUME ContractInv, [Next]_vars, LedgerInv'
  PROVE  /\ FailedShowsNothing'
         /\ \A j \in Job : ContractStep(jobs[j], jobs'[j])
  <1>1. \A j \in Job : jobs[j] \in Row /\ jobs'[j] \in Row
    BY DEF ContractInv, LedgerInv, BoardInv, TypeOK
  <1>2. ASSUME NEW j \in Job
        PROVE  /\ ContractStep(jobs[j], jobs'[j])
               /\ jobs'[j].status = "failed" => Shown(jobs'[j]) = NoPrior
    <2>1. ContractStep(jobs[j], jobs'[j])
      BY <1>1, NextMoves, MoveContract DEF ContractInv, Moves
    <2> QED
      BY <1>1, <2>1, ContractFailed DEF ContractInv, FailedShowsNothing
  <1> QED
    BY <1>2 DEF FailedShowsNothing

\* What the contract sees of each job.
LEMMA PhasesAt ==
  ASSUME NEW j \in Job
  PROVE  /\ Phases[j] = PhaseOf(jobs[j]) /\ Phases'[j] = PhaseOf(jobs'[j])
  BY DEF Phases, PhaseOf

\* The steps of a row are the steps of the contract.
LEMMA ContractJobStep ==
  ASSUME NEW j \in Job, ContractStep(jobs[j], jobs'[j])
  PROVE  Contract!JobStep(j) \/ Contract!Keep(j)
  BY PhasesAt DEF ContractStep, Turns, Outputs, Contract!JobStep, Contract!Keep, Contract!Moves,
     Contract!Accept, Contract!Publish, Contract!Rework, Contract!Return, Contract!Fail,
     Contract!Delete, Contract!Refresh, Contract!Phase

\* The board starts as the contract does.
LEMMA ContractInit == Init => Contract!Init
  <1> SUFFICES ASSUME Init PROVE Contract!Init
    OBVIOUS
  <1>1. \A j \in Job : jobs[j].status = "absent" /\ Shown(jobs[j]) = NoPrior
    BY DEF Init, EmptyRow, Shown, OutputReady
  <1>2. Phases = [j \in Job |-> "none"]
    <2>1. Phases = [j \in Job |-> PhaseOf(jobs[j])]
      BY DEF Phases, PhaseOf
    <2>2. \A j \in Job : PhaseOf(jobs[j]) = "none"
      BY <1>1, InitInv, PhaseStatus DEF BoardInv, TypeOK
    <2> QED
      BY <2>1, <2>2
  <1>3. [j \in Job |-> Shown(jobs[j])] = [j \in Job |-> NoPrior]
    BY <1>1
  <1> QED
    BY <1>2, <1>3 DEF Contract!Init

\* A failed job of a new board: there is none.
LEMMA ContractInvInit == Init => ContractInv
  BY LedgerInit DEF ContractInv, FailedShowsNothing, Init, EmptyRow

\* The board implements JobContract: a job is worked on, then shows an output that a runner
\* reported or has failed; what it shows changes only by a publication; a refused review
\* brings back exactly what was shown; failures and deletions are final.
THEOREM BoardImplementsContract == Spec => ImplementsContract
  <1>1. ContractInv /\ [Next]_vars /\ LedgerInv' => ContractInv'
    BY ContractNext DEF ContractInv
  <1>2. ContractInv /\ ContractInv' /\ [Next]_vars
          => [Contract!Next]_<<Phases, [j \in Job |-> Shown(jobs[j])]>>
    <2> SUFFICES ASSUME ContractInv, ContractInv', [Next]_vars
                 PROVE  Contract!Next
      OBVIOUS
    <2>1. \A j \in Job : Contract!JobStep(j) \/ Contract!Keep(j)
      BY ContractNext, ContractJobStep DEF ContractInv
    <2>2. Phases' \in [Job -> Contract!Phase]
      <3>1. \A j \in Job : jobs'[j] \in Row
        BY DEF ContractInv, LedgerInv, BoardInv, TypeOK
      <3>2. \A j \in Job : Phases'[j] \in Contract!Phase
        BY <3>1, PhasesAt, PhaseStatus DEF Contract!Phase
      <3> QED
        BY <3>2 DEF Phases
    <2>3. [j \in Job |-> Shown(jobs[j])]' \in [Job -> Outputs \cup {NoPrior}]
      <3>1. ASSUME NEW j \in Job PROVE Shown(jobs'[j]) \in Outputs \cup {NoPrior}
        <4>1. /\ jobs'[j] \in Row /\ KeptRow(jobs'[j])
              /\ Serves(jobs'[j], artifacts'[j], JobReceipts(j)', j)
          BY DEF ContractInv, LedgerInv, BoardInv, TypeOK, JobAccount, Ledger
        <4>2. \A c \in JobReceipts(j)' : c.result \in Result
          BY DEF ContractInv, LedgerInv, BoardInv, TypeOK, JobReceipts
        <4> QED
          BY <4>1, <4>2, ShownIsOutput
      <3> QED
        BY <3>1
    <2> QED
      BY <2>1, <2>2, <2>3 DEF Contract!Next, Outputs
  <1>3. Spec => []ContractInv
    BY <1>1, ContractInvInit, LedgerInvariant, PTL DEF Spec
  <1> QED
    BY <1>2, <1>3, ContractInit, PTL DEF Spec, ImplementsContract, Contract!Spec

------------------------------------------------------------------------------
(* A job as its files see it *)

LifeOf(r) == CASE r.status = "absent"  -> "absent"
               [] r.status = "deleted" -> "gone"
               [] OTHER                -> "live"

SealedIn(r, a) == r.task_state = "claimed" /\ a[r.next_rev].state = "sealed"

LapsedAt(r, now) ==
  r.task_state = "claimed" /\ (r.lease_expires <= now \/ r.deadline <= now)

SpentIn(a, cs) == {v \in 1..Len(a) : \E c \in cs : c.lease = a[v].lease}

\* f is what the files see of the row r, its revisions a and its receipts cs at the time now.
Sees(f, r, a, cs, now) ==
  /\ f \in Revs!FileRow
  /\ f.life = LifeOf(r) /\ f.rev = r.rev /\ f.next = r.next_rev
  /\ f.has_state <=> r.has_state
  /\ f.sealed <=> SealedIn(r, a)
  /\ f.lapsed <=> LapsedAt(r, now)
  /\ f.given = Len(a) /\ f.spent = SpentIn(a, cs)

FilesInv == LedgerInv /\ Len(leases) <= MaxClaims

\* What the files see fits the record of Revisions.
LEMMA SeesType ==
  ASSUME NEW r \in Row, KeptRow(r), NEW a \in Seq(Artifact), NEW cs, NEW j, NEW now,
         Staged(r, a, cs), Serves(r, a, cs, j), Len(a) <= MaxClaims,
         NEW f,
         f = [ life |-> LifeOf(r), rev |-> r.rev, has_state |-> r.has_state,
               next |-> r.next_rev, sealed |-> SealedIn(r, a), lapsed |-> LapsedAt(r, now),
               given |-> Len(a), spent |-> SpentIn(a, cs) ]
  PROVE  Sees(f, r, a, cs, now)
  <1>1. Len(a) \in Nat
    BY LenProperties
  <1>2. r.rev \in 0..MaxClaims /\ Len(a) \in 0..MaxClaims
    BY <1>1, ClaimBound DEF Serves
  <1>3. r.next_rev \in 0..MaxClaims
    <2>1. CASE r.task_state = "claimed"
      BY <1>1, <2>1, ClaimBound DEF Staged
    <2>2. CASE r.task_state # "claimed"
      BY <2>2, ClaimBound DEF KeptRow
    <2> QED
      BY <2>1, <2>2
  <1>4. SpentIn(a, cs) \subseteq 0..MaxClaims
    BY <1>1, ClaimBound DEF SpentIn
  <1>5. LifeOf(r) \in {"absent", "live", "gone"} /\ r.has_state \in BOOLEAN
    BY DEF LifeOf, Row
  <1>6. SealedIn(r, a) \in BOOLEAN /\ LapsedAt(r, now) \in BOOLEAN
    BY DEF SealedIn, LapsedAt
  <1>7. f \in Revs!FileRow
    BY <1>2, <1>3, <1>4, <1>5, <1>6 DEF Revs!FileRow, Revs!Rev
  <1> QED
    BY <1>7 DEF Sees

\* FileRow is what the files see.
LEMMA FilesSee ==
  ASSUME FilesInv, NEW j \in Job
  PROVE  Sees(FileRow(j), jobs[j], artifacts[j], JobReceipts(j), clock)
  <1> DEFINE r == jobs[j]
             a == artifacts[j]
             cs == JobReceipts(j)
  <1>1. /\ r \in Row /\ KeptRow(r) /\ a \in Seq(Artifact) /\ Len(a) \in Nat
        /\ Recorded(a, cs, leases, j) /\ Staged(r, a, cs) /\ Serves(r, a, cs, j)
        /\ Len(leases) \in Nat
    BY AccountParts, LenProperties DEF FilesInv
  <1>2. Len(a) <= MaxClaims
    BY <1>1, ClaimBound DEF Recorded, FilesInv
  <1>3. SpentIn(a, cs) = {v \in DOMAIN a : Receipts(a[v].lease) # {}}
    <2>1. ASSUME NEW v \in 1..Len(a)
          PROVE  (\E c \in cs : c.lease = a[v].lease) <=> Receipts(a[v].lease) # {}
      <3>1. leases[a[v].lease].job = j
        BY <1>1 DEF Recorded
      <3>2. ASSUME NEW c \in completions, c.lease = a[v].lease PROVE c \in cs
        BY <3>1, <3>2, ReceiptJob DEF FilesInv, JobReceipts
      <3> QED
        BY <3>2 DEF Receipts, JobReceipts
    <2>2. DOMAIN a = 1..Len(a)
      BY <1>1, LenProperties
    <2> QED
      BY <2>1, <2>2 DEF SpentIn
  <1>4. FileRow(j) =
          [ life |-> LifeOf(r), rev |-> r.rev, has_state |-> r.has_state,
            next |-> r.next_rev, sealed |-> SealedIn(r, a), lapsed |-> LapsedAt(r, clock),
            given |-> Len(a), spent |-> SpentIn(a, cs) ]
    BY <1>3 DEF FileRow, LifeOf, SealedIn, LapsedAt
  <1> QED
    BY <1>1, <1>2, <1>4, SeesType

------------------------------------------------------------------------------
(* The steps of Revisions, by the parts they change *)

\* Two rows with the same parts are the same.
LEMMA FilesEqual ==
  ASSUME NEW f \in Revs!FileRow, NEW g \in Revs!FileRow,
         f.life = g.life, f.rev = g.rev, f.has_state <=> g.has_state, f.next = g.next,
         f.sealed <=> g.sealed, f.lapsed <=> g.lapsed, f.given = g.given, f.spent = g.spent
  PROVE  f = g
  BY DEF Revs!FileRow

FileStep(f, g) == Revs!RowStep(f, g) \/ g = f

\* g has the files of f.
SameFiles(f, g) ==
  /\ f \in Revs!FileRow /\ g \in Revs!FileRow
  /\ g.life = f.life /\ g.rev = f.rev /\ (g.has_state <=> f.has_state)

\* Nothing is claimed in g.
Free(g) == g.next = 0 /\ ~g.sealed /\ ~g.lapsed

\* g is f with its lease run out, or renewed late.
LEMMA StepTime ==
  ASSUME NEW f, NEW g, SameFiles(f, g), g.next = f.next, g.sealed <=> f.sealed,
         g.given = f.given, g.spent = f.spent,
         (g.lapsed <=> f.lapsed) \/ f.next # 0,
         f.lapsed /\ ~g.lapsed => MaxLag > 0
  PROVE  FileStep(f, g)
  <1>1. f \in Revs!FileRow /\ g \in Revs!FileRow /\ f.lapsed \in BOOLEAN /\ g.lapsed \in BOOLEAN
    BY DEF SameFiles, Revs!FileRow
  <1>2. CASE g.lapsed <=> f.lapsed
    BY <1>1, <1>2, FilesEqual DEF SameFiles, FileStep
  <1>3. CASE g.lapsed /\ ~f.lapsed
    <2> DEFINE h == [f EXCEPT !.lapsed = TRUE]
    <2>1. /\ h \in Revs!FileRow /\ h.life = f.life /\ h.rev = f.rev /\ h.has_state = f.has_state
          /\ h.next = f.next /\ h.sealed = f.sealed /\ h.lapsed
          /\ h.given = f.given /\ h.spent = f.spent
      BY <1>1 DEF Revs!FileRow
    <2>2. Revs!Lapses(f) = {h}
      BY <1>1, <1>3 DEF Revs!Lapses, Revs!When
    <2> HIDE DEF h
    <2>3. g = h
      BY <1>1, <1>3, <2>1, FilesEqual DEF SameFiles
    <2> QED
      BY <2>2, <2>3 DEF FileStep, Revs!RowStep
  <1>4. CASE f.lapsed /\ ~g.lapsed
    <2> DEFINE h == [f EXCEPT !.lapsed = FALSE]
    <2>1. /\ h \in Revs!FileRow /\ h.life = f.life /\ h.rev = f.rev /\ h.has_state = f.has_state
          /\ h.next = f.next /\ h.sealed = f.sealed /\ ~h.lapsed
          /\ h.given = f.given /\ h.spent = f.spent
      BY <1>1 DEF Revs!FileRow
    <2>2. Revs!RenewsLate(f) = {h}
      BY <1>1, <1>4 DEF Revs!RenewsLate, Revs!When
    <2> HIDE DEF h
    <2>3. g = h
      BY <1>1, <1>4, <2>1, FilesEqual DEF SameFiles
    <2> QED
      BY <2>2, <2>3 DEF FileStep, Revs!RowStep
  <1> QED
    BY <1>1, <1>2, <1>3, <1>4

\* What g spends beyond f is the revision f held.
Spends(f, g) == g.spent = f.spent \cup {f.next}

\* g is f with its task ended and nothing published.
LEMMA StepEnds ==
  ASSUME NEW f, NEW g, SameFiles(f, g), Free(g), g.given = f.given, f.next # 0,
         g.spent = f.spent \/ (Spends(f, g) /\ Revs!Holds(f) /\ f.has_state)
  PROVE  FileStep(f, g)
  <1>1. f \in Revs!FileRow /\ g \in Revs!FileRow
    BY DEF SameFiles
  <1> DEFINE h == Revs!Released(f)
             k == [h EXCEPT !.spent = f.spent \cup {f.next}]
  <1>2. /\ h \in Revs!FileRow /\ h.life = f.life /\ h.rev = f.rev /\ h.has_state = f.has_state
        /\ Free(h) /\ h.given = f.given /\ h.spent = f.spent
    BY <1>1 DEF Revs!Released, Revs!FileRow, Revs!Rev, Free
  <1>3. CASE g.spent = f.spent
    <2>1. Revs!Ends(f) = {h}
      BY DEF Revs!Ends, Revs!When
    <2> HIDE DEF h
    <2>2. g = h
      BY <1>1, <1>2, <1>3, FilesEqual DEF SameFiles, Free
    <2> QED
      BY <2>1, <2>2 DEF FileStep, Revs!RowStep
  <1>4. CASE Spends(f, g) /\ Revs!Holds(f) /\ f.has_state
    <2>1. Revs!Refuses(f) = {k}
      BY <1>4 DEF Revs!Refuses, Revs!When
    <2> HIDE DEF h
    <2>2. /\ k \in Revs!FileRow /\ k.life = f.life /\ k.rev = f.rev /\ k.has_state = f.has_state
          /\ Free(k) /\ k.given = f.given /\ k.spent = f.spent \cup {f.next}
      BY <1>1, <1>2 DEF Revs!FileRow, Free
    <2> HIDE DEF k
    <2>3. g = k
      BY <1>1, <1>4, <2>2, FilesEqual DEF SameFiles, Free, Spends
    <2> QED
      BY <2>1, <2>3 DEF FileStep, Revs!RowStep
  <1> QED
    BY <1>3, <1>4

\* g serves what f was staging.
LEMMA StepPublishes ==
  ASSUME NEW f \in Revs!FileRow, NEW g \in Revs!FileRow, g.life = f.life, g.rev = f.next,
         g.has_state \/ ~f.has_state, Free(g), g.given = f.given, Spends(f, g),
         f.next # 0, ~f.lapsed, ~f.sealed
  PROVE  FileStep(f, g)
  <1> DEFINE h == Revs!Released(f)
             k(saved) == [h EXCEPT !.rev = f.next, !.has_state = saved,
                                   !.spent = f.spent \cup {f.next}]
  <1>1. /\ h \in Revs!FileRow /\ h.life = f.life /\ Free(h) /\ h.given = f.given
    BY DEF Revs!Released, Revs!FileRow, Revs!Rev, Free
  <1>2. ASSUME NEW saved \in BOOLEAN, saved \/ ~f.has_state, g.has_state <=> saved
        PROVE  g \in Revs!Publishes(f, saved)
    <2>1. Revs!Publishes(f, saved) = {k(saved)}
      BY <1>2 DEF Revs!Publishes, Revs!When
    <2> HIDE DEF h
    <2>2. /\ k(saved) \in Revs!FileRow /\ k(saved).life = f.life /\ k(saved).rev = f.next
          /\ (k(saved).has_state <=> saved) /\ Free(k(saved)) /\ k(saved).given = f.given
          /\ k(saved).spent = f.spent \cup {f.next}
      BY <1>1 DEF Revs!FileRow, Revs!Rev, Free
    <2> HIDE DEF k
    <2>3. g = k(saved)
      BY <1>2, <2>2, FilesEqual DEF Free, Spends
    <2> QED
      BY <2>1, <2>3
  <1>3. g \in Revs!Publishes(f, TRUE) \/ g \in Revs!Publishes(f, FALSE)
    BY <1>2
  <1> QED
    BY <1>3 DEF FileStep, Revs!RowStep

\* g is f sealed.
LEMMA StepSeals ==
  ASSUME NEW f, NEW g, SameFiles(f, g), g.next = f.next, g.sealed, g.lapsed <=> f.lapsed,
         g.given = f.given, g.spent = f.spent, f.next # 0, ~f.lapsed, ~f.sealed, f.has_state
  PROVE  FileStep(f, g)
  <1>1. f \in Revs!FileRow /\ g \in Revs!FileRow
    BY DEF SameFiles
  <1> DEFINE h == [f EXCEPT !.sealed = TRUE]
  <1>2. /\ h \in Revs!FileRow /\ h.life = f.life /\ h.rev = f.rev /\ h.has_state = f.has_state
        /\ h.next = f.next /\ h.sealed /\ h.lapsed = f.lapsed
        /\ h.given = f.given /\ h.spent = f.spent
    BY <1>1 DEF Revs!FileRow
  <1>3. Revs!Seals(f) = {h}
    BY DEF Revs!Seals, Revs!When
  <1> HIDE DEF h
  <1>4. g = h
    BY <1>1, <1>2, FilesEqual DEF SameFiles
  <1> QED
    BY <1>3, <1>4 DEF FileStep, Revs!RowStep

\* g is f with the next revision claimed.
LEMMA StepClaims ==
  ASSUME NEW f, NEW g, SameFiles(f, g), f.life = "live", Free(f), f.given < MaxClaims,
         g.given = f.given + 1, g.next = f.given + 1, ~g.sealed, g.spent = f.spent,
         g.lapsed => MaxLag > 0
  PROVE  FileStep(f, g)
  <1>1. f \in Revs!FileRow /\ g \in Revs!FileRow /\ f.given \in 0..MaxClaims
    BY DEF SameFiles, Revs!FileRow, Revs!Rev
  <1> DEFINE h(lapsed) == [f EXCEPT !.given = f.given + 1, !.next = f.given + 1,
                                    !.lapsed = lapsed]
  <1>2. ASSUME NEW lapsed \in BOOLEAN
        PROVE  /\ h(lapsed) \in Revs!FileRow /\ h(lapsed).life = f.life
               /\ h(lapsed).rev = f.rev /\ h(lapsed).has_state = f.has_state
               /\ h(lapsed).next = f.given + 1 /\ ~h(lapsed).sealed
               /\ (h(lapsed).lapsed <=> lapsed)
               /\ h(lapsed).given = f.given + 1 /\ h(lapsed).spent = f.spent
    BY <1>1, ClaimBound DEF Revs!FileRow, Revs!Rev, Free
  <1>3. Revs!Claims(f) = {h(lapsed) : lapsed \in {FALSE, MaxLag > 0}}
    BY DEF Revs!Claims, Revs!When, Free
  <1> HIDE DEF h
  <1>4. CASE g.lapsed
    <2>1. g = h(TRUE)
      BY <1>1, <1>2, <1>4, FilesEqual DEF SameFiles
    <2>2. h(TRUE) \in {h(lapsed) : lapsed \in {FALSE, MaxLag > 0}}
      BY <1>4
    <2> QED
      BY <1>3, <2>1, <2>2 DEF FileStep, Revs!RowStep
  <1>5. CASE ~g.lapsed
    <2>1. g = h(FALSE)
      BY <1>1, <1>2, <1>5, FilesEqual DEF SameFiles
    <2> QED
      BY <1>3, <2>1 DEF FileStep, Revs!RowStep
  <1> QED
    BY <1>4, <1>5

\* A job that has nothing: before it is created, and after it is deleted.
Bare(g) == Free(g) /\ g.rev = 0 /\ ~g.has_state /\ g.given = 0 /\ g.spent = {}

\* g is new, or what is left of f.
LEMMA StepBlank ==
  ASSUME NEW f \in Revs!FileRow, NEW g \in Revs!FileRow, Bare(g),
         (f.life = "absent" /\ g.life = "live") \/ (f.life = "live" /\ g.life = "gone")
  PROVE  FileStep(f, g)
  <1>1. ASSUME NEW life \in {"live", "gone"}, g.life = life PROVE g = Revs!Blank(life)
    <2>1. /\ Revs!Blank(life) \in Revs!FileRow /\ Revs!Blank(life).life = life
          /\ Bare(Revs!Blank(life))
      BY ClaimBound DEF Revs!Blank, Revs!FileRow, Revs!Rev, Bare, Free
    <2> QED
      BY <1>1, <2>1, FilesEqual DEF Bare, Free
  <1>2. CASE f.life = "absent" /\ g.life = "live"
    BY <1>1, <1>2 DEF FileStep, Revs!RowStep, Revs!Creates, Revs!When
  <1>3. CASE f.life = "live" /\ g.life = "gone"
    BY <1>1, <1>3 DEF FileStep, Revs!RowStep, Revs!Deletes, Revs!When
  <1> QED
    BY <1>2, <1>3

------------------------------------------------------------------------------
(* Every move is a step of Revisions *)

\* What the files see of a job before and after.
Watched(f, g, j) ==
  /\ Sees(f, jobs[j], artifacts[j], JobReceipts(j), clock)
  /\ Sees(g, jobs'[j], artifacts'[j], JobReceipts(j)', clock')
  /\ jobs'[j] \in Row /\ KeptRow(jobs'[j])

\* A row is live to its files while it exists.
LEMMA LiveRow ==
  ASSUME NEW r
  PROVE  LifeOf(r) = "live" <=> Exists(r)
  BY DEF LifeOf, Exists, NoRow

\* A row that is not claimed stages nothing.
LEMMA FreeRow ==
  ASSUME NEW f, NEW r, NEW a, NEW cs, NEW now, Sees(f, r, a, cs, now), KeptRow(r),
         r.task_state # "claimed"
  PROVE  Free(f)
  BY DEF Sees, KeptRow, SealedIn, LapsedAt, Free

\* Revisions under the same leases are spent by the same receipts.
LEMMA SpentSame ==
  ASSUME NEW a, NEW b, NEW cs, Len(b) = Len(a), \A v \in 1..Len(a) : b[v].lease = a[v].lease
  PROVE  SpentIn(b, cs) = SpentIn(a, cs)
  BY DEF SpentIn

\* A lease that has run out by the board's clock and is held at the time of a request: the
\* request is late.
LEMMA LateRequest ==
  ASSUME BoardInv, NEW j \in Job, NEW t \in RequestTimes, Holding(j, t), LapsedAt(jobs[j], clock)
  PROVE  MaxLag > 0
  <1>1. /\ clock \in Nat /\ t \in Nat /\ t + MaxLag >= clock /\ MaxLag \in Nat
        /\ jobs[j].lease_expires \in Nat /\ jobs[j].deadline \in Nat
    BY Inputs DEF BoardInv, TypeOK, RequestTimes, Row
  <1> QED
    BY <1>1 DEF Holding, Held, LapsedAt

\* A move that writes only the row, and not what the files see of it but the lease's time.
LEMMA OnlyRowFiles ==
  ASSUME FilesInv, NEW j \in Job, NEW f, NEW g, Watched(f, g, j), OnlyRow(j),
         LifeOf(jobs'[j]) = LifeOf(jobs[j]), jobs'[j].rev = jobs[j].rev,
         jobs'[j].has_state = jobs[j].has_state, jobs'[j].next_rev = jobs[j].next_rev,
         jobs'[j].task_state = "claimed" <=> jobs[j].task_state = "claimed",
         LapsedAt(jobs[j], clock) /\ ~LapsedAt(jobs'[j], clock') => MaxLag > 0
  PROVE  FileStep(f, g)
  <1> DEFINE r == jobs[j]
             s == jobs'[j]
             a == artifacts[j]
             cs == JobReceipts(j)
  <1>1. /\ KeptRow(r) /\ Staged(r, a, cs) /\ Len(a) \in Nat /\ r \in Row
    BY AccountParts DEF FilesInv
  <1>2. Sees(f, r, a, cs, clock) /\ Sees(g, s, a, cs, clock')
    BY DEF Watched, OnlyRow
  <1>3. SameFiles(f, g) /\ g.next = f.next /\ g.given = f.given /\ g.spent = f.spent
    BY <1>2 DEF Sees, SameFiles
  <1>4. g.sealed <=> f.sealed
    BY <1>2 DEF Sees, SealedIn
  <1>5. f.lapsed /\ ~g.lapsed => MaxLag > 0
    BY <1>2 DEF Sees
  <1>6. (g.lapsed <=> f.lapsed) \/ f.next # 0
    <2>1. CASE r.task_state = "claimed"
      <3>1. r.next_rev # 0
        BY <1>1, <2>1 DEF Staged
      <3> QED
        BY <1>2, <3>1 DEF Sees
    <2>2. CASE r.task_state # "claimed"
      BY <1>2, <2>2 DEF Sees, LapsedAt
    <2> QED
      BY <2>1, <2>2
  <1> QED
    BY <1>3, <1>4, <1>5, <1>6, StepTime

\* A move that ends the task of a claimed row and publishes nothing.
LEMMA EndedFiles ==
  ASSUME FilesInv, NEW j \in Job, NEW f, NEW g, Watched(f, g, j),
         jobs[j].task_state = "claimed", jobs'[j].task_state # "claimed",
         Exists(jobs'[j]), jobs'[j].rev = jobs[j].rev, jobs'[j].has_state = jobs[j].has_state,
         NEW from, artifacts'[j] = MoveArtifact(artifacts[j], jobs[j].next_rev, from, "abandoned"),
         \/ JobReceipts(j)' = JobReceipts(j)
         \/ /\ JobReceipts(j)' = JobReceipts(j)
                 \cup {[job |-> j, lease |-> jobs[j].lease, result |-> Refused]}
            /\ LapsedAt(jobs[j], clock) => MaxLag > 0
            /\ jobs[j].has_state
  PROVE  FileStep(f, g)
  <1> DEFINE r == jobs[j]
             s == jobs'[j]
             a == artifacts[j]
             b == artifacts'[j]
             cs == JobReceipts(j)
             d == [job |-> j, lease |-> r.lease, result |-> Refused]
  <1>1. /\ KeptRow(r) /\ a \in Seq(Artifact) /\ Len(a) \in Nat /\ r \in Row
        /\ Staged(r, a, cs) /\ Recorded(a, cs, leases, j) /\ Exists(r)
    BY AccountParts, TaskExists DEF FilesInv
  <1>2. Len(b) = Len(a) /\ \A v \in 1..Len(a) : b[v].lease = a[v].lease
    BY <1>1, Moved DEF StateMoved, ArtifactState
  <1> HIDE DEF b
  <1>3. /\ Sees(f, r, a, cs, clock) /\ Sees(g, s, b, JobReceipts(j)', clock') /\ KeptRow(s)
    BY DEF Watched, b
  <1>4. Free(g)
    BY <1>3, FreeRow
  <1>5. SameFiles(f, g) /\ g.given = f.given /\ f.next = r.next_rev
    BY <1>1, <1>2, <1>3, LiveRow DEF Sees, SameFiles
  <1>6. r.next_rev \in 1..Len(a) /\ a[r.next_rev].lease = r.lease
    BY <1>1 DEF Staged
  <1>7. f.next # 0
    BY <1>5, <1>6
  <1>8. g.spent = f.spent \/ (Spends(f, g) /\ Revs!Holds(f) /\ f.has_state)
    <2>1. CASE JobReceipts(j)' = cs
      BY <1>2, <1>3, <2>1, SpentSame DEF Sees
    <2>2. CASE /\ JobReceipts(j)' = cs \cup {d}
               /\ LapsedAt(r, clock) => MaxLag > 0
               /\ r.has_state
      <3>1. d.lease = a[r.next_rev].lease
        BY <1>6
      <3>2. \A v \in 1..Len(a) : a[v].lease = a[r.next_rev].lease => v = r.next_rev
        BY <1>1, <1>6 DEF Recorded
      <3> HIDE DEF a, cs, d
      <3>3. SpentIn(b, cs \cup {d}) = SpentIn(a, cs) \cup {r.next_rev}
        BY <1>2, <1>6, <3>1, <3>2 DEF SpentIn
      <3>4. Spends(f, g)
        BY <1>3, <1>5, <2>2, <3>3 DEF Sees, Spends
      <3>5. Revs!Holds(f) /\ f.has_state
        BY <1>3, <1>7, <2>2 DEF Sees, Revs!Holds
      <3> QED
        BY <3>4, <3>5
    <2> QED
      BY <2>1, <2>2
  <1> QED
    BY <1>4, <1>5, <1>7, <1>8, StepEnds

\* The row written by a move that ends the task: served and published as it was.
LEMMA FailedRow ==
  ASSUME NEW r \in Row, NEW t \in Nat, NEW s, s = FailRow(r, t)
  PROVE  Exists(s) /\ s.rev = r.rev /\ s.has_state = r.has_state /\ s.task_state # "claimed"
         /\ s.next_rev = 0
  BY FailRowFields DEF Exists, NoRow

\* fail, refuse and the sweep.
LEMMA EndsFiles ==
  ASSUME FilesInv, NEW j \in Job, NEW f, NEW g, Watched(f, g, j), NEW t \in RequestTimes,
         TakesBack(j, t) \/ Fails(j, t) \/ Stops(j, t) \/ Requeues(j, t)
  PROVE  FileStep(f, g)
  <1> DEFINE r == jobs[j]
             s == jobs'[j]
  <1>1. /\ r \in Row /\ KeptRow(r) /\ RowOK(r) /\ r.task_state = "claimed" /\ Exists(r)
    BY AccountParts, TaskExists DEF FilesInv, TakesBack, Fails, Stops, Requeues, Holding, Held
  <1>2. t \in Nat
    BY RequestTimesNat DEF FilesInv, LedgerInv, BoardInv
  <1>3. Exists(s) /\ s.rev = r.rev /\ s.has_state = r.has_state /\ s.task_state # "claimed"
    <2>1. CASE TakesBack(j, t)
      <3> DEFINE p == RestoredRow(r, t)
      <3>1. r.prior.status \in OutputReady
        BY <1>1, <2>1 DEF TakesBack, KeptRow, PriorKept
      <3>2. /\ p \in Row /\ p.status = r.prior.status /\ p.rev = r.rev
            /\ p.has_state = r.has_state /\ s = EndTask(p, t, TRUE)
        BY <1>1, <1>2, <2>1, <3>1, RestoredFields DEF TakesBack
      <3> HIDE DEF p
      <3>3. TaskEnded(p, s)
        BY <1>2, <3>2, EndTaskFields
      <3> QED
        BY <3>1, <3>2, <3>3 DEF TaskEnded, Exists, OutputReady, NoRow
    <2>2. CASE Fails(j, t)
      BY <1>1, <1>2, <2>2, FailedRow DEF Fails
    <2>3. CASE Stops(j, t)
      <3>1. TaskEnded(r, s)
        BY <1>1, <1>2, <2>3, EndTaskFields DEF Stops, StopSync
      <3> QED
        BY <1>1, <3>1 DEF TaskEnded, Exists
    <2>4. CASE Requeues(j, t)
      <3>1. /\ s.status = RequeuedStatus(r) /\ s.rev = r.rev /\ s.has_state = r.has_state
            /\ s.task_state = "queued"
        BY <1>1, <1>2, <2>4, RequeueFields DEF Requeues
      <3> QED
        BY <1>1, <3>1 DEF RequeuedStatus, Exists, NoRow
    <2> QED
      BY <2>1, <2>2, <2>3, <2>4
  <1>4. CASE TakesBack(j, t)
    <2>1. LapsedAt(r, clock) => MaxLag > 0
      BY <1>4, LateRequest DEF FilesInv, LedgerInv, TakesBack
    <2>2. r.has_state
      BY <1>1, <1>4 DEF TakesBack, KeptRow
    <2>3. artifacts'[j] = MoveArtifact(artifacts[j], r.next_rev, {"staging"}, "abandoned")
      BY <1>4 DEF TakesBack, EndArtifact
    <2>4. JobReceipts(j)' = JobReceipts(j)
            \cup {[job |-> j, lease |-> r.lease, result |-> Refused]}
      BY <1>4 DEF TakesBack
    <2> QED
      BY <1>1, <1>3, <2>1, <2>2, <2>3, <2>4, EndedFiles
  <1>5. CASE Fails(j, t) \/ Stops(j, t) \/ Requeues(j, t)
    <2>1. /\ \E from : artifacts'[j] = MoveArtifact(artifacts[j], r.next_rev, from, "abandoned")
          /\ JobReceipts(j)' = JobReceipts(j)
      BY <1>5 DEF Fails, Stops, Requeues, RowAndRevision
    <2> QED
      BY <1>1, <1>3, <2>1, EndedFiles
  <1> QED
    BY <1>4, <1>5

\* claim, of a task it retires; keep and resolve; undo, revise and edit; and a renewal.
LEMMA RowFiles ==
  ASSUME FilesInv, NEW j \in Job, NEW f, NEW g, Watched(f, g, j), NEW t \in RequestTimes,
         clock' = clock,
         \/ Retired(j, t)
         \/ \E i \in Item : Chose(j, i, t)
         \/ \E leg \in Legs : Asked(j, leg, t)
         \/ \E steps \in StepsType : Renewed(j, steps, t)
  PROVE  FileStep(f, g)
  <1> DEFINE r == jobs[j]
             s == jobs'[j]
  <1>1. r \in Row /\ KeptRow(r) /\ RowOK(r) /\ s \in Row /\ KeptRow(s)
    BY AccountParts DEF FilesInv, Watched
  <1>2. t \in Nat
    BY RequestTimesNat DEF FilesInv, LedgerInv, BoardInv
  <1>3. CASE Retired(j, t)
    <2>1. /\ Exists(s) /\ s.rev = r.rev /\ s.has_state = r.has_state
          /\ s.task_state # "claimed" /\ s.next_rev = 0
      BY <1>1, <1>2, <1>3, FailedRow DEF Retired
    <2>2. r.task_state # "claimed" /\ r.next_rev = 0 /\ Exists(r)
      BY <1>1, <1>3, TaskExists DEF Retired, KeptRow
    <2>3. ~LapsedAt(r, clock) /\ LifeOf(s) = LifeOf(r)
      BY <2>1, <2>2, LiveRow DEF LapsedAt
    <2> QED
      BY <1>3, <2>1, <2>2, <2>3, OnlyRowFiles DEF Retired
  <1>4. ASSUME NEW i \in Item, Chose(j, i, t) PROVE FileStep(f, g)
    <2> DEFINE c == Chosen(r, i, t)
    <2>1. c \in Row
      BY <1>1, <1>2, <1>4, ChosenOK DEF Chose, RowOK
    <2>2. /\ c.status = r.status /\ c.rev = r.rev /\ c.has_state = r.has_state
          /\ c.task_state = r.task_state /\ c.next_rev = r.next_rev
          /\ c.lease_expires = r.lease_expires /\ c.deadline = r.deadline
      BY <1>1 DEF Chosen, Row
    <2>3. /\ QueueTask(c, "sync", t).status = c.status /\ QueueTask(c, "sync", t).rev = c.rev
          /\ QueueTask(c, "sync", t).has_state = c.has_state
          /\ QueueTask(c, "sync", t).task_state = "queued"
          /\ QueueTask(c, "sync", t).next_rev = 0
      <3> HIDE DEF c
      <3> QED
        BY <2>1 DEF QueueTask, Row
    <2>4. s = c \/ (r.task_kind = "none" /\ s = QueueTask(c, "sync", t))
      BY <1>4 DEF Chose
    <2>5. r.task_kind = "none" => r.task_state # "claimed" /\ r.next_rev = 0
      BY <1>1 DEF RowOK, HasTask, KeptRow
    <2> HIDE DEF c
    <2>6. /\ s.rev = r.rev /\ s.has_state = r.has_state /\ s.next_rev = r.next_rev
          /\ s.task_state = "claimed" <=> r.task_state = "claimed"
          /\ s.status = r.status
          /\ LapsedAt(r, clock) => LapsedAt(s, clock')
      BY <2>2, <2>3, <2>4, <2>5 DEF LapsedAt
    <2>7. LifeOf(s) = LifeOf(r)
      BY <2>6 DEF LifeOf
    <2> QED
      BY <1>4, <2>6, <2>7, OnlyRowFiles DEF Chose
  <1>5. ASSUME NEW leg \in Legs, Asked(j, leg, t) PROVE FileStep(f, g)
    <2> DEFINE o == Reopened(r, leg, t)
               w == [o EXCEPT !.pending_review = leg]
               q == QueueTask(o, "review", t)
    <2>1. r.status \in OutputReady /\ Exists(r)
      BY <1>5 DEF Asked, ReviewAccepted, OutputReady, Exists, NoRow
    <2>2. /\ w.status = "processing" /\ w.rev = r.rev /\ w.has_state = r.has_state
          /\ w.task_state = r.task_state /\ w.next_rev = r.next_rev
          /\ w.lease_expires = r.lease_expires /\ w.deadline = r.deadline
      BY <1>1 DEF Reopened, Row
    <2>3. /\ q.status = "processing" /\ q.rev = r.rev /\ q.has_state = r.has_state
          /\ q.task_state = "queued" /\ q.next_rev = 0
      BY <1>1 DEF Reopened, QueueTask, Row
    <2>4. s = w \/ (~(r.task_kind = "sync" /\ r.task_state = "claimed") /\ s = q)
      BY <1>5 DEF Asked
    <2>5. ~(r.task_kind = "sync" /\ r.task_state = "claimed")
            => r.task_state # "claimed" /\ r.next_rev = 0
      <3>1. r.task_state = "claimed" => r.task_kind = "sync"
        BY <1>1, <2>1 DEF RowOK, HasTask, Row, TaskKind, OutputReady
      <3> QED
        BY <1>1, <3>1 DEF KeptRow
    <2> HIDE DEF w, q
    <2>6. /\ s.rev = r.rev /\ s.has_state = r.has_state /\ s.next_rev = r.next_rev
          /\ s.task_state = "claimed" <=> r.task_state = "claimed"
          /\ s.status = "processing"
          /\ LapsedAt(r, clock) => LapsedAt(s, clock')
      BY <2>2, <2>3, <2>4, <2>5 DEF LapsedAt
    <2>7. LifeOf(s) = LifeOf(r)
      BY <2>1, <2>6, LiveRow DEF Exists, NoRow
    <2> QED
      BY <1>5, <2>6, <2>7, OnlyRowFiles DEF Asked
  <1>6. ASSUME NEW steps \in StepsType, Renewed(j, steps, t) PROVE FileStep(f, g)
    <2>1. /\ s.rev = r.rev /\ s.has_state = r.has_state /\ s.next_rev = r.next_rev
          /\ s.task_state = r.task_state /\ s.status = r.status
      BY <1>1, <1>6 DEF Renewed, Row
    <2>2. LifeOf(s) = LifeOf(r)
      BY <2>1 DEF LifeOf
    <2>3. LapsedAt(r, clock) => MaxLag > 0
      BY <1>6, LateRequest DEF FilesInv, LedgerInv, Renewed
    <2> QED
      BY <1>6, <2>1, <2>2, <2>3, OnlyRowFiles DEF Renewed
  <1> QED
    BY <1>3, <1>4, <1>5, <1>6

\* complete.
LEMMA PublishesFiles ==
  ASSUME FilesInv, NEW j \in Job, NEW f, NEW g, Watched(f, g, j), NEW result \in Results,
         NEW t \in RequestTimes, Publishes(j, result, t)
  PROVE  FileStep(f, g)
  <1> DEFINE r == jobs[j]
             s == jobs'[j]
             a == artifacts[j]
             b == artifacts'[j]
             cs == JobReceipts(j)
             d == [job |-> j, lease |-> r.lease, result |-> result]
  <1>1. /\ r \in Row /\ KeptRow(r) /\ RowOK(r) /\ a \in Seq(Artifact) /\ Len(a) \in Nat
        /\ Staged(r, a, cs) /\ Recorded(a, cs, leases, j) /\ Exists(r)
        /\ r.task_state = "claimed" /\ MayReport(r, result)
    BY AccountParts, TaskExists DEF FilesInv, Publishes, Completes, Holding, Held
  <1>2. t \in Nat /\ result.status \in Terminal
    BY RequestTimesNat, Inputs DEF FilesInv, LedgerInv, BoardInv
  <1>3. /\ r.next_rev \in 1..Len(a) /\ a[r.next_rev].lease = r.lease
        /\ a[r.next_rev].state = "staging"
    BY <1>1 DEF Staged, Publishes, Completes
  <1>4. PICK p \in Row, version \in Nat : ResultIn(r, p, result, version) /\ TaskEnded(p, s)
    BY <1>2, PublishedEnd DEF FilesInv
  <1>5. /\ s.rev = r.next_rev /\ (s.has_state <=> result.status \in OutputReady)
        /\ s.task_state # "claimed" /\ s.status = StatusAfter(r, result)
        /\ s.has_state = p.has_state
    BY <1>4 DEF ResultIn, TaskEnded
  <1>6. Exists(s)
    BY <1>1, <1>2, <1>5 DEF StatusAfter, Exists, Terminal, OutputReady, NoRow
  <1>7. Len(b) = Len(a) /\ \A v \in 1..Len(a) : b[v].lease = a[v].lease
    BY <1>1, Moved DEF Publishes, StateMoved, ArtifactState
  <1> HIDE DEF b
  <1>8. /\ Sees(f, r, a, cs, clock) /\ Sees(g, s, b, cs \cup {d}, clock') /\ KeptRow(s)
    BY DEF Watched, Publishes, b
  <1>9. Free(g)
    BY <1>5, <1>8, FreeRow
  <1>10. /\ f \in Revs!FileRow /\ g \in Revs!FileRow /\ g.life = f.life
         /\ f.next = r.next_rev /\ g.rev = f.next /\ g.given = f.given
    BY <1>1, <1>5, <1>6, <1>7, <1>8, LiveRow DEF Sees
  <1>11. g.has_state \/ ~f.has_state
    <2>1. r.task_kind = "process" => ~r.has_state
      BY <1>1 DEF KeptRow
    <2>2. s.has_state \/ ~r.has_state
      BY <1>1, <1>5, <2>1 DEF MayReport
    <2> QED
      BY <1>8, <2>2 DEF Sees
  <1>12. f.next # 0 /\ ~f.lapsed /\ ~f.sealed
    <2>1. ~LapsedAt(r, clock)
      <3>1. clock \in Nat /\ r.lease_expires \in Nat /\ r.deadline \in Nat
        BY <1>1 DEF FilesInv, LedgerInv, BoardInv, TypeOK, Row
      <3> QED
        BY <3>1 DEF Publishes, Completes, Holding, Held, LapsedAt
    <2>2. ~SealedIn(r, a)
      BY <1>3 DEF SealedIn
    <2> QED
      BY <1>3, <1>8, <1>10, <2>1, <2>2 DEF Sees
  <1>13. Spends(f, g)
    <2>1. \A v \in 1..Len(a) : a[v].lease = a[r.next_rev].lease => v = r.next_rev
      BY <1>1, <1>3 DEF Recorded
    <2>2. d.lease = a[r.next_rev].lease
      BY <1>3
    <2> HIDE DEF a, cs, d
    <2>3. SpentIn(b, cs \cup {d}) = SpentIn(a, cs) \cup {r.next_rev}
      BY <1>3, <1>7, <2>1, <2>2 DEF SpentIn
    <2> QED
      BY <1>8, <1>10, <2>3 DEF Sees, Spends
  <1> QED
    BY <1>9, <1>10, <1>11, <1>12, <1>13, StepPublishes

\* complete, when it throws: only the re-render of a failed job does, and it has a state.
LEMMA SealsFiles ==
  ASSUME FilesInv, NEW j \in Job, NEW f, NEW g, Watched(f, g, j), NEW result \in Results,
         Seals(j, result), clock' = clock
  PROVE  FileStep(f, g)
  <1> DEFINE r == jobs[j]
             a == artifacts[j]
             b == artifacts'[j]
             cs == JobReceipts(j)
  <1>1. /\ r \in Row /\ KeptRow(r) /\ RowOK(r) /\ a \in Seq(Artifact) /\ Len(a) \in Nat
        /\ Staged(r, a, cs) /\ r.task_state = "claimed"
    BY AccountParts DEF FilesInv, Seals, Completes, Holding, Held
  <1>2. /\ r.next_rev \in 1..Len(a) /\ a[r.next_rev].state = "staging"
    BY <1>1 DEF Staged, Seals, Completes
  <1>3. r.has_state
    <2>1. result.status \in Terminal
      BY Inputs
    <2>2. r.task_kind # "process"
      <3>1. r.task_kind = "process" => r.status = "processing" /\ r.pending_review = NoLeg
        BY <1>1 DEF RowOK, HasTask, ReviewFollows
      <3> QED
        BY <2>1, <3>1 DEF Seals, StatusAfter, JobAllowed, JobTransitions
    <2>3. r.task_kind \in {"review", "sync"}
      BY <1>1, <2>2 DEF RowOK, HasTask, Row, TaskKind
    <2> QED
      BY <1>1, <2>3 DEF KeptRow
  <1>4. /\ Len(b) = Len(a) /\ \A v \in 1..Len(a) : b[v].lease = a[v].lease
        /\ b[r.next_rev].state = "sealed"
    BY <1>1, <1>2, Moved DEF Seals, RowAndRevision, StateMoved, ArtifactState
  <1> HIDE DEF b
  <1>5. Sees(f, r, a, cs, clock) /\ Sees(g, r, b, cs, clock)
    BY DEF Watched, Seals, RowAndRevision, b
  <1>6. ~LapsedAt(r, clock)
    <2>1. clock \in Nat /\ r.lease_expires \in Nat /\ r.deadline \in Nat
      BY <1>1 DEF FilesInv, LedgerInv, BoardInv, TypeOK, Row
    <2> QED
      BY <2>1 DEF Seals, Completes, Holding, Held, LapsedAt
  <1>7. SealedIn(r, b) /\ ~SealedIn(r, a)
    BY <1>1, <1>2, <1>4 DEF SealedIn
  <1>8. SameFiles(f, g) /\ g.next = f.next /\ g.given = f.given /\ f.next # 0
    BY <1>2, <1>4, <1>5 DEF Sees, SameFiles
  <1>9. g.spent = f.spent
    BY <1>4, <1>5, SpentSame DEF Sees
  <1> QED
    BY <1>3, <1>5, <1>6, <1>7, <1>8, <1>9, StepSeals DEF Sees

\* claim: the deadline and the lease begin after the time of the request.
LEMMA ClaimTimes ==
  ASSUME NEW r \in Row, NEW t \in Nat, Claimable(r, t)
  PROVE  TaskDeadline(r, t) \in Int /\ TaskDeadline(r, t) > t /\ t + LeaseMs > t
  <1>1. r.task_kind # "sync" => r.gateway_exp \in Nat /\ r.gateway_exp >= t + ClaimMinimum
    BY CredentialLimits DEF Claimable, MayClaim, CredentialEligibility, Row
  <1> QED
    BY <1>1, CredentialLimits, Limits DEF TaskDeadline, Lesser, Row

\* claim.
LEMMA GaveFiles ==
  ASSUME FilesInv, NEW j \in Job, NEW f, NEW g, Watched(f, g, j),
         NEW t \in RequestTimes, Gave(j, t), clock' = clock
  PROVE  FileStep(f, g)
  <1> DEFINE r == jobs[j]
             s == jobs'[j]
             a == artifacts[j]
             b == artifacts'[j]
             cs == JobReceipts(j)
             n == [lease |-> Len(leases) + 1, state |-> "staging"]
  <1>1. /\ r \in Row /\ KeptRow(r) /\ a \in Seq(Artifact) /\ Len(a) \in Nat
        /\ Recorded(a, cs, leases, j) /\ Exists(r) /\ r.task_state = "queued"
        /\ Len(leases) \in Nat
    BY AccountParts, TaskExists, LenProperties DEF FilesInv, Gave
  <1>2. t \in Nat /\ clock \in Nat /\ t + MaxLag >= clock /\ MaxLag \in Nat
    BY RequestTimesNat, Inputs DEF FilesInv, LedgerInv, BoardInv, TypeOK, RequestTimes
  <1>3. /\ s.rev = r.rev /\ s.has_state = r.has_state /\ s.task_state = "claimed"
        /\ s.next_rev = Len(a) + 1 /\ s.lease_expires = t + LeaseMs
        /\ s.deadline = TaskDeadline(r, t) /\ s.status = ClaimStatus(r)
    BY <1>1 DEF Gave, Claimed, Row, NextRev
  <1>4. Exists(s)
    BY <1>1, <1>3 DEF ClaimStatus, Exists, NoRow
  <1>5. /\ Len(b) = Len(a) + 1 /\ \A v \in 1..Len(a) : b[v] = a[v]
        /\ b[Len(a) + 1].lease = Len(leases) + 1 /\ b[Len(a) + 1].state = "staging"
    <2>1. n \in Artifact
      BY <1>1 DEF Artifact, ArtifactState
    <2>2. b = Append(a, n) /\ n.lease = Len(leases) + 1 /\ n.state = "staging"
      BY DEF Gave
    <2> HIDE DEF n, b
    <2> QED
      BY <1>1, <2>1, <2>2, AppendProperties
  <1> HIDE DEF b
  <1>6. Sees(f, r, a, cs, clock) /\ Sees(g, s, b, cs, clock)
    BY DEF Watched, Gave, b
  <1>7. SameFiles(f, g) /\ f.life = "live"
    BY <1>1, <1>3, <1>4, <1>6, LiveRow DEF Sees, SameFiles
  <1>8. Free(f)
    BY <1>1, <1>6, FreeRow
  <1>9. f.given < MaxClaims /\ g.given = f.given + 1 /\ g.next = f.given + 1
    BY <1>1, <1>3, <1>5, <1>6, ClaimBound DEF Sees, Gave, Recorded
  <1>10. ~g.sealed
    BY <1>3, <1>5, <1>6 DEF Sees, SealedIn
  <1>11. g.lapsed => MaxLag > 0
    <2>1. TaskDeadline(r, t) \in Int /\ TaskDeadline(r, t) > t /\ t + LeaseMs > t
      BY <1>1, <1>2, ClaimTimes DEF Gave
    <2>2. LapsedAt(s, clock) => MaxLag > 0
      BY <1>2, <1>3, <2>1, Limits DEF LapsedAt
    <2> QED
      BY <1>6, <2>2 DEF Sees
  <1>12. g.spent = f.spent
    <2>1. \A c \in cs : c.lease # Len(leases) + 1
      BY <1>1 DEF Recorded
    <2> HIDE DEF a, cs
    <2>2. SpentIn(b, cs) = SpentIn(a, cs)
      BY <1>1, <1>5, <2>1 DEF SpentIn
    <2> QED
      BY <1>6, <2>2 DEF Sees
  <1> QED
    BY <1>7, <1>8, <1>9, <1>10, <1>11, <1>12, StepClaims

\* createJob, and a deletion by the owner or the sweep.
LEMMA BlankFiles ==
  ASSUME FilesInv, NEW j \in Job, NEW f, NEW g, Watched(f, g, j),
         Removed(j) \/ \E leg \in Legs, t \in RequestTimes : Created(j, leg, t)
  PROVE  FileStep(f, g)
  <1> DEFINE r == jobs[j]
             s == jobs'[j]
             a == artifacts[j]
             b == artifacts'[j]
  <1>1. KeptRow(r) /\ KeptRow(s) /\ Cleared(r, a, JobReceipts(j))
    BY AccountParts DEF FilesInv, Watched
  <1>2. /\ s.rev = 0 /\ s.has_state = FALSE /\ s.task_state # "claimed"
        /\ b = <<>> /\ JobReceipts(j)' = {}
        /\ \/ LifeOf(r) = "absent" /\ LifeOf(s) = "live"
           \/ LifeOf(r) = "live" /\ LifeOf(s) = "gone"
    <2>1. CASE Removed(j)
      BY <2>1, LiveRow DEF Removed, EmptyRow, LifeOf
    <2>2. CASE \E leg \in Legs, t \in RequestTimes : Created(j, leg, t)
      <3>1. r.status = "absent" /\ s.status = "queued"
        BY <2>2 DEF Created, NewRow, EmptyRow
      <3>2. s.rev = 0 /\ s.has_state = FALSE /\ s.task_state = "queued"
        BY <2>2 DEF Created, NewRow, EmptyRow
      <3>3. b = <<>> /\ JobReceipts(j)' = {}
        BY <1>1, <2>2, <3>1 DEF Created, OnlyRow, Cleared, Exists, NoRow
      <3>4. LifeOf(r) = "absent" /\ LifeOf(s) = "live"
        BY <3>1, LiveRow DEF LifeOf, Exists, NoRow
      <3> QED
        BY <3>2, <3>3, <3>4
    <2> QED
      BY <2>1, <2>2
  <1>3. Sees(f, r, a, JobReceipts(j), clock) /\ Sees(g, s, <<>>, {}, clock')
    BY <1>2 DEF Watched
  <1> HIDE DEF r, s
  <1>4. Free(g)
    BY <1>1, <1>2, <1>3, FreeRow
  <1>5. g.given = 0 /\ g.spent = {}
    <2>1. Len(<<>>) = 0 /\ SpentIn(<<>>, {}) = {}
      BY EmptySeq DEF SpentIn
    <2> QED
      BY <1>3, <2>1 DEF Sees
  <1>6. g.rev = 0 /\ ~g.has_state
    BY <1>2, <1>3 DEF Sees
  <1>7. f \in Revs!FileRow /\ g \in Revs!FileRow /\ f.life = LifeOf(r) /\ g.life = LifeOf(s)
    BY <1>3 DEF Sees
  <1>8. (f.life = "absent" /\ g.life = "live") \/ (f.life = "live" /\ g.life = "gone")
    BY <1>2, <1>7
  <1>9. Bare(g)
    BY <1>4, <1>5, <1>6 DEF Bare
  <1> QED
    BY <1>7, <1>8, <1>9, StepBlank

\* Time passes, or another job is moved.
LEMMA UntouchedFiles ==
  ASSUME FilesInv, NEW j \in Job, NEW f, NEW g, Watched(f, g, j), Untouched(j),
         clock' \in Nat, clock' >= clock
  PROVE  FileStep(f, g)
  <1>1. jobs[j] \in Row /\ clock \in Nat
    BY AccountParts DEF FilesInv, LedgerInv, BoardInv, TypeOK
  <1>2. LapsedAt(jobs[j], clock) => LapsedAt(jobs[j], clock')
    BY <1>1 DEF LapsedAt, Row
  <1> QED
    BY <1>2, OnlyRowFiles DEF Untouched

\* Every move is a step of Revisions.
LEMMA MoveFiles ==
  ASSUME FilesInv, NEW j \in Job, NEW f, NEW g, Watched(f, g, j), Move(j),
         clock' \in Nat, clock' >= clock
  PROVE  FileStep(f, g)
  <1>1. CASE Untouched(j)
    BY <1>1, UntouchedFiles
  <1>2. CASE clock' = clock /\ Removed(j)
    BY <1>2, BlankFiles
  <1>3. ASSUME clock' = clock, NEW result \in Results, Seals(j, result) PROVE FileStep(f, g)
    BY <1>3, SealsFiles
  <1>4. ASSUME clock' = clock, NEW t \in RequestTimes, TimedMove(j, t) PROVE FileStep(f, g)
    <2>1. ASSUME NEW leg \in Legs, Created(j, leg, t) PROVE FileStep(f, g)
      BY <2>1, BlankFiles
    <2>2. CASE \/ \E leg \in Legs : Asked(j, leg, t)
               \/ \E i \in Item : Chose(j, i, t)
               \/ \E steps \in StepsType : Renewed(j, steps, t)
               \/ Retired(j, t)
      BY <1>4, <2>2, RowFiles
    <2>3. CASE Gave(j, t)
      BY <1>4, <2>3, GaveFiles
    <2>4. ASSUME NEW result \in Results, Publishes(j, result, t) PROVE FileStep(f, g)
      BY <2>4, PublishesFiles
    <2>5. CASE TakesBack(j, t) \/ Fails(j, t) \/ Stops(j, t) \/ Requeues(j, t)
      BY <2>5, EndsFiles
    <2> QED
      BY <1>4, <2>1, <2>2, <2>3, <2>4, <2>5 DEF TimedMove
  <1> QED
    BY <1>1, <1>2, <1>3, <1>4 DEF Move

------------------------------------------------------------------------------
(* The refinement *)

\* claim gives no more leases than the bound, and the clock never goes back.
LEMMA BoundsStep ==
  ASSUME FilesInv, [Next]_vars
  PROVE  Len(leases') <= MaxClaims /\ clock' \in Nat /\ clock' >= clock
  <1>1. clock \in Nat /\ leases \in Seq([job : Job, version : Nat]) /\ Len(leases) <= MaxClaims
    BY DEF FilesInv, LedgerInv, BoardInv, TypeOK
  <1>2. CASE PersonNext
    <2>1. clock' = clock /\ leases' = leases
      BY <1>2 DEF PersonNext, CreateJob, DeleteJob, CheckChoice, SetOverride, DropChoice,
         QueueReview
    <2> QED
      BY <1>1, <2>1
  <1>3. CASE Claim
    <2>1. ASSUME NEW j \in Job, NEW skipped \in SUBSET Job, NEW t \in RequestTimes,
                 ClaimTask(j, skipped, t)
          PROVE  clock' = clock /\ Len(leases') <= MaxClaims
      <3> DEFINE e == [job |-> j, version |-> jobs[j].overrides_version]
      <3>1. jobs[j] \in Row
        BY DEF FilesInv, LedgerInv, BoardInv, TypeOK
      <3>2. e \in [job : Job, version : Nat]
        BY <3>1 DEF Row
      <3>3. leases' = Append(leases, e) /\ clock' = clock /\ Len(leases) < MaxClaims
        BY <2>1 DEF ClaimTask
      <3> HIDE DEF e
      <3> QED
        BY <1>1, <3>2, <3>3, AppendProperties, LenProperties, ClaimBound
    <2>2. ASSUME NEW t \in RequestTimes, ClaimNothing(t)
          PROVE  clock' = clock /\ leases' = leases
      BY <2>2 DEF ClaimNothing
    <2> QED
      BY <1>1, <1>3, <2>1, <2>2 DEF Claim
  <1>4. CASE RunnerNext
    <2>1. clock' = clock /\ leases' = leases
      BY <1>4 DEF RunnerNext, Renew, Progress, CompleteBegin, CompleteCommit, CompleteThrow,
         CompleteDrop, RefuseReview, FailTask
    <2> QED
      BY <1>1, <2>1
  <1>5. CASE Sweep \/ Tick \/ UNCHANGED vars
    <2>1. (clock' = clock \/ clock' = clock + 1) /\ leases' = leases
      BY <1>5 DEF Sweep, Tick, vars
    <2> QED
      BY <1>1, <2>1
  <1> QED
    BY <1>2, <1>3, <1>4, <1>5 DEF Next

\* FileRow is what the files see, of every job.
LEMMA FilesSeen ==
  FilesInv => \A j \in Job : Sees(FileRow(j), jobs[j], artifacts[j], JobReceipts(j), clock)
  BY FilesSee

\* A new board has given nothing.
LEMMA FilesInit == Init => FilesInv /\ Revs!Init
  <1> SUFFICES ASSUME Init PROVE FilesInv /\ Revs!Init
    OBVIOUS
  <1>1. FilesInv
    <2>1. Len(<<>>) = 0
      BY EmptySeq
    <2> QED
      BY <2>1, LedgerInit, ClaimBound DEF FilesInv, Init
  <1>2. ASSUME NEW j \in Job PROVE FileRow(j) = Revs!Blank("absent")
    <2>1. /\ jobs[j] = EmptyRow("absent") /\ artifacts[j] = <<>> /\ JobReceipts(j) = {}
      BY DEF Init, JobReceipts
    <2>2. Sees(FileRow(j), EmptyRow("absent"), <<>>, {}, clock) /\ KeptRow(EmptyRow("absent"))
      BY <1>1, <2>1, FilesSee, EmptyRowKept DEF NoRow
    <2>3. /\ EmptyRow("absent").task_state = "idle" /\ EmptyRow("absent").rev = 0
          /\ ~EmptyRow("absent").has_state /\ LifeOf(EmptyRow("absent")) = "absent"
      BY DEF EmptyRow, LifeOf
    <2>4. Len(<<>>) = 0 /\ SpentIn(<<>>, {}) = {}
      BY EmptySeq DEF SpentIn
    <2>5. FileRow(j) \in Revs!FileRow /\ FileRow(j).life = "absent" /\ Bare(FileRow(j))
      BY <2>2, <2>3, <2>4, FreeRow DEF Sees, Bare
    <2>6. /\ Revs!Blank("absent") \in Revs!FileRow /\ Revs!Blank("absent").life = "absent"
          /\ Bare(Revs!Blank("absent"))
      BY ClaimBound DEF Revs!Blank, Revs!FileRow, Revs!Rev, Bare, Free
    <2> QED
      BY <2>5, <2>6, FilesEqual DEF Bare, Free
  <1> QED
    BY <1>1, <1>2 DEF Revs!Init

\* The board gives, publishes and spends revisions as Revisions says, whatever the order of
\* claims, renewals, completions, refusals, failures and sweeps.
THEOREM BoardImplementsRevisions == Spec => ImplementsRevisions
  <1>1. FilesInv /\ [Next]_vars /\ LedgerInv' => FilesInv'
    BY BoundsStep DEF FilesInv
  <1>2. FilesInv' => (\A j \in Job :
                        Sees(FileRow(j), jobs[j], artifacts[j], JobReceipts(j), clock))'
    BY FilesSeen, PTL
  <1>3. FilesInv /\ FilesInv' /\ [Next]_vars => [Revs!Next]_([j \in Job |-> FileRow(j)])
    <2> SUFFICES ASSUME FilesInv, FilesInv', [Next]_vars
                 PROVE  Revs!Next
      OBVIOUS
    <2>1. ASSUME NEW j \in Job
          PROVE  FileRow(j)' \in Revs!FileRow /\ FileStep(FileRow(j), FileRow(j)')
      <3>1. Sees(FileRow(j), jobs[j], artifacts[j], JobReceipts(j), clock)
        BY FilesSee
      <3>2. Sees(FileRow(j)', jobs'[j], artifacts'[j], JobReceipts(j)', clock')
        BY <1>2
      <3>3. jobs'[j] \in Row /\ KeptRow(jobs'[j])
        BY DEF FilesInv, LedgerInv, BoardInv, TypeOK, JobAccount
      <3>4. Watched(FileRow(j), FileRow(j)', j)
        BY <3>1, <3>2, <3>3 DEF Watched
      <3>5. Move(j)
        BY NextMoves DEF FilesInv, Moves
      <3>6. FileStep(FileRow(j), FileRow(j)')
        BY <3>4, <3>5, BoundsStep, MoveFiles
      <3> QED
        BY <3>2, <3>6 DEF Sees
    <2> QED
      BY <2>1 DEF Revs!Next, FileStep
  <1>4. Spec => []FilesInv
    BY <1>1, FilesInit, LedgerInvariant, PTL DEF Spec
  <1> QED
    BY <1>3, <1>4, FilesInit, PTL DEF Spec, ImplementsRevisions, Revs!Spec

===============================================================================
