--------------------------------- MODULE Review ---------------------------------
(***************************************************************************)
(* A person's decisions about a finished document: the review and sync     *)
(* tasks of runner/tasks.py, the journal of review_revisions.py, the       *)
(* actions of review_actions.py and the copies of the output they protect. *)
(* An attempt works on the archive the last one saved and saves its own.   *)
(***************************************************************************)
EXTENDS Naturals, Sequences, FiniteSets, SequencesExt, FiniteSetsExt

CONSTANTS Figure, Text,  \* figures, and descriptions of them
          Issue,         \* review tasks an assessment may report
          MaxRevs,       \* bound: revisions of the journal
          MaxCrashes     \* bound: attempts that die

ASSUME ReviewConstants ==
  /\ Figure # {} /\ IsFiniteSet(Figure) /\ Text # {} /\ MaxRevs \in Nat \ {0} /\ MaxCrashes \in Nat
  /\ {"pending", "decorative", "gone", "delete"} \cap Text = {}

VARIABLES
  saved,   \* the archive: database, copies of the output, bytes of the working PDF
  task,    \* what the Worker queued
  kept,    \* decisions a person took since the last task: changes and issues
  version, \* overrides_version
  pc,      \* where the attempt is
  live,    \* the attempt's database as committed
  txn,     \* and with what its session has not committed
  disk,    \* preserved copies of the output, by the bytes they hold
  bytes,   \* what the working PDF holds
  made,    \* PDFs made so far
  owned,   \* the revision the attempt owns
  doomed,  \* copies that a prune has retired and not deleted yet
  crashes

reviewVars == <<saved, task, kept, version, pc, live, txn, disk, bytes, made, owned, doomed, crashes>>
workerVars == <<saved, task, kept, version>>
fileVars == <<disk, bytes, made>>

(***************************************************************************)
(* The database.                                                           *)
(***************************************************************************)
NoFile == <<>>
Working == <<0>>
Copy(n) == <<n>>
Ready == {"complete", "manual_remediation"}
Semantics == Text \cup {"pending", "decorative", "gone"}
Idle == [kind |-> "none"]

ChangeTransitions == [pending_review |-> {"kept", "undone"}, kept |-> {"undone"}, undone |-> {}]
TaskTransitions == [pending_review |-> {"resolved"}, resolved |-> {}, none |-> {}]
RevisionTransitions ==
  [prepared |-> {"running", "failed"}, running |-> {"published", "failed"},
   published |-> {}, failed |-> {}]

\* A change of a figure: what it did, and what undoing it brings back.
Change(fig, status, reviewable, after, undo) ==
  [fig |-> fig, status |-> status, reviewable |-> reviewable, after |-> after, undo |-> undo]

\* add_applied_change returns an equal change that is not undone.
AddChange(s, c) ==
  IF \E i \in DOMAIN s : s[i].status # "undone" /\ [s[i] EXCEPT !.status = c.status, !.reviewable = c.reviewable] = c
    THEN s ELSE Append(s, c)

\* list_figure_changes: the last change of a figure that is not undone.
Latest(db, f) == {i \in DOMAIN db.changes :
  /\ db.changes[i].fig = f /\ db.changes[i].status # "undone"
  /\ \A j \in DOMAIN db.changes : j > i => db.changes[j].fig # f \/ db.changes[j].status = "undone"}

\* What a snapshot restores: every table but the journal.
Body(db) == [status |-> db.status, out |-> db.out, entry |-> db.entry,
             changes |-> db.changes, tasks |-> db.tasks, steps |-> db.steps]

NoTxn == [status |-> "none"]

\* A document the pipeline finished, with one reviewable change for each
\* figure, perhaps by a runner that did not preserve its output yet.
Init ==
  /\ \E first \in [Figure -> Text], undo \in {"pending"} \cup {"delete"}, legacy \in BOOLEAN :
       saved = [db |-> [status |-> "complete", out |-> IF legacy THEN Working ELSE Copy(1),
                        entry |-> first, tasks |-> [i \in Issue |-> "pending_review"],
                        changes |-> SetToSeq({Change(f, "pending_review", TRUE, first[f], undo) : f \in Figure}),
                        steps |-> "done", revs |-> <<>>],
                disk |-> IF legacy THEN {} ELSE {1}, bytes |-> 1]
  /\ task = Idle /\ kept = [changes |-> {}, tasks |-> {}] /\ version = 0
  /\ pc = "idle" /\ live = NoTxn /\ txn = NoTxn
  /\ disk = {} /\ bytes = 0 /\ made = 1 /\ owned = 0 /\ doomed = {} /\ crashes = 0

(***************************************************************************)
(* The person and the Worker (modelled in JobBoard), seen from here.       *)
(***************************************************************************)
Keep ==
  /\ task = Idle /\ version < MaxRevs
  /\ \/ \E c \in DOMAIN saved.db.changes \ kept.changes :
          /\ saved.db.changes[c].reviewable /\ saved.db.changes[c].status = "pending_review"
          /\ kept' = [kept EXCEPT !.changes = @ \cup {c}]
     \/ \E i \in {j \in Issue : saved.db.tasks[j] = "pending_review"} \ kept.tasks :
          kept' = [kept EXCEPT !.tasks = @ \cup {i}]
  /\ version' = version + 1
  /\ UNCHANGED <<saved, task, pc, live, txn, fileVars, owned, doomed, crashes>>

QueueReview ==
  /\ task = Idle /\ Len(saved.db.revs) < MaxRevs
  /\ \E c \in DOMAIN saved.db.changes, type \in {"edit", "undo", "revise"}, t \in Text :
       /\ type = "edit" \/ t = CHOOSE u \in Text : TRUE
       /\ task' = [kind |-> "review", type |-> type, change |-> c, text |-> t]
  /\ UNCHANGED <<saved, kept, version, pc, live, txn, fileVars, owned, doomed, crashes>>

QueueSync ==
  /\ task = Idle /\ kept # [changes |-> {}, tasks |-> {}] /\ Len(saved.db.revs) < MaxRevs
  /\ task' = [kind |-> "sync", version |-> version]
  /\ UNCHANGED <<saved, kept, version, pc, live, txn, fileVars, owned, doomed, crashes>>

(***************************************************************************)
(* The attempt: unpack, decide, commit.                                    *)
(***************************************************************************)
\* unpack_state and relocate_database: the files and the database of the
\* archive, at this attempt's paths.
Unpack ==
  /\ pc = "idle" /\ task # Idle
  /\ live' = saved.db /\ txn' = saved.db
  /\ disk' = saved.disk /\ bytes' = saved.bytes
  /\ pc' = IF task.kind = "review" THEN "overrides" ELSE "prepare"
  /\ owned' = 0
  /\ UNCHANGED <<workerVars, made, doomed, crashes>>

\* The attempt ends with an error or its process dies: the Worker leases the
\* task again, or gives it up.
Dies ==
  /\ pc # "idle" /\ crashes < MaxCrashes
  /\ crashes' = crashes + 1
  /\ pc' = "idle" /\ live' = NoTxn /\ txn' = NoTxn /\ disk' = {} /\ bytes' = 0
  /\ owned' = 0 /\ doomed' = {}
  /\ task' \in {task, Idle}
  /\ UNCHANGED <<saved, kept, version, made>>

\* transition_review, replaying a decision already taken.
Decide(db, k) ==
  [db EXCEPT
     !.changes = [i \in DOMAIN @ |-> IF i \in k.changes THEN [@[i] EXCEPT !.status = "kept"] ELSE @[i]],
     !.tasks = [i \in Issue |-> IF i \in k.tasks /\ @[i] # "none" THEN "resolved" ELSE @[i]]]
Decidable(db, k) ==
  /\ \A i \in k.changes : db.changes[i].status \in {"pending_review", "kept"}

\* apply_overrides. A refusal there is not a refusal of the review: it ends
\* the attempt.
Overrides(from, next) ==
  /\ pc = from
  /\ IF Decidable(txn, kept) THEN txn' = Decide(txn, kept) /\ pc' = next
                             ELSE UNCHANGED txn /\ pc' = "error"
  /\ UNCHANGED <<workerVars, live, fileVars, owned, doomed, crashes>>

ReviewOverrides == Overrides("overrides", "prepare")
SyncOverrides == Overrides("sync_overrides", "sync_run")

\* preserve_output: a PDF that is not a copy yet is copied.
Preserved(db) == IF db.out = Working THEN Copy(bytes) ELSE db.out

\* prepare_review: a command is recorded once, unless it failed.
Prior(db, cmd) == {i \in DOMAIN db.revs : db.revs[i].cmd = cmd}
Prepare ==
  /\ pc = "prepare"
  /\ LET prior == Prior(txn, task)
         last == IF prior = {} THEN 0 ELSE Max(prior)
         out == Preserved(txn)
         kept2 == [txn EXCEPT !.out = out]
     IN IF \/ txn.status \notin Ready
           \/ last # 0 /\ txn.revs[last].phase # "failed"
        THEN /\ pc' = IF task.kind = "sync" /\ last # 0 /\ txn.revs[last].phase = "published"
                      THEN "pack" ELSE IF task.kind = "sync" THEN "error" ELSE "refused"
             /\ UNCHANGED <<txn, disk, owned>>
        ELSE /\ disk' = disk \cup (IF out = Working \/ txn.out = out THEN {} ELSE {bytes})
             /\ owned' = Len(txn.revs) + 1
             /\ txn' = [kept2 EXCEPT !.revs = Append(@,
                  [cmd |-> task, phase |-> "prepared", before |-> Body(kept2),
                   edits |-> NoFile, published |-> NoFile])]
             /\ pc' = IF task.kind = "sync" THEN "sync_overrides" ELSE "act"
  /\ UNCHANGED <<workerVars, live, bytes, made, doomed, crashes>>

\* A new change in place of the one the action is about.
Supersede(db, c, after) ==
  LET f == db.changes[c].fig
      marked == [db.changes EXCEPT ![c].status = "undone"]
  IN [db EXCEPT !.entry[f] = after,
                !.changes = AddChange(marked, Change(f, "pending_review", TRUE, after, db.entry[f]))]

\* apply_undo: the state before the change, or no entry where there was none.
Undone(db, c) ==
  LET f == db.changes[c].fig
      back == db.changes[c].undo
      marked == [db.changes EXCEPT ![c].status = "undone"]
  IN IF back = "delete"
       THEN [db EXCEPT !.entry[f] = "gone", !.changes = marked]
       ELSE [db EXCEPT !.entry[f] = back,
                       !.changes = AddChange(marked, Change(f, "kept", FALSE, back, "gone"))]

\* The states apply_review_action may leave; none if it refuses.
Acted(db) ==
  LET c == task.change
      ch == db.changes[c]
      pending == ch.reviewable /\ ch.status = "pending_review"
      present == db.entry[ch.fig] # "gone"
  IN CASE task.type = "edit" -> IF ch.status \in {"pending_review", "kept"} /\ present
                                THEN {Supersede(db, c, task.text)} ELSE {}
       [] task.type = "undo" -> IF pending /\ (present \/ ch.undo = "delete") THEN {Undone(db, c)} ELSE {}
       [] task.type = "revise" -> IF pending /\ present
                                  THEN {Supersede(db, c, a) : a \in Text \cup {"decorative"}} ELSE {}

\* A model may also fail to propose a fix: the review is refused.
Act ==
  /\ pc = "act"
  /\ \/ /\ txn' \in Acted(txn) /\ pc' = "start"
     \/ /\ Acted(txn) = {} \/ task.type = "revise"
        /\ pc' = "refused" /\ UNCHANGED txn
  /\ UNCHANGED <<workerVars, live, fileVars, owned, doomed, crashes>>

\* Mutant: a refused task is tried again.
Refused_Again ==
  /\ pc = "refused"
  /\ pc' = "idle" /\ live' = NoTxn /\ txn' = NoTxn /\ disk' = {} /\ bytes' = 0 /\ owned' = 0
  /\ UNCHANGED <<saved, task, kept, version, made, doomed, crashes>>

\* The session is rolled back and the Worker told; nothing is saved.
Refused ==
  /\ pc = "refused"
  /\ pc' = "idle" /\ task' = Idle /\ live' = NoTxn /\ txn' = NoTxn /\ disk' = {} /\ bytes' = 0
  /\ owned' = 0
  /\ UNCHANGED <<saved, kept, version, made, doomed, crashes>>

Phase(db, n, phase) == [db EXCEPT !.revs[n].phase = phase]

\* start_review, clear_terminal_artifacts, reset_rerun_steps; one commit.
Start ==
  /\ pc = "start"
  /\ txn' = [Phase(txn, owned, "running") EXCEPT
               !.revs[owned].edits = txn.out, !.status = "processing", !.out = NoFile,
               !.steps = "pending"]
  /\ live' = txn' /\ pc' = "tag"
  /\ UNCHANGED <<workerVars, fileVars, owned, doomed, crashes>>

\* Mutant: the issues are recorded anew.
Reconciled_Anew(tasks, found) ==
  [i \in Issue |-> IF i \notin found THEN "none" ELSE "pending_review"]

\* reconcile_review_tasks: an issue still reported keeps its row and the
\* acknowledgement on it.
Reconciled(tasks, found) ==
  [i \in Issue |-> IF i \notin found THEN "none"
                   ELSE IF tasks[i] = "none" THEN "pending_review" ELSE tasks[i]]

\* run_tagging_and_validation (Pipeline): it writes the working PDF, and
\* leaves a published result with its copy, or a failed job.
TagReady ==
  /\ pc = "tag"
  /\ made' = made + 1 /\ bytes' = made' /\ disk' = disk \cup {made'}
  /\ \E status \in Ready, found \in SUBSET Issue :
       live' = [txn EXCEPT !.status = status, !.out = Copy(made'), !.steps = "done",
                           !.tasks = Reconciled(@, found)]
  /\ txn' = live' /\ pc' = "finish"
  /\ UNCHANGED <<workerVars, owned, doomed, crashes>>

\* It may fail after its result was committed: the copy and the new tasks
\* stay, the row is cleared.
TagFails ==
  /\ pc = "tag"
  /\ made' = made + 1 /\ bytes' = made'
  /\ \/ disk' = disk /\ live' = [txn EXCEPT !.status = "failed", !.steps = "failed"]
     \/ /\ disk' = disk \cup {made'}
        /\ \E found \in SUBSET Issue :
             live' = [txn EXCEPT !.status = "failed", !.steps = "failed",
                                 !.tasks = Reconciled(@, found)]
  /\ txn' = live' /\ pc' = "finish"
  /\ UNCHANGED <<workerVars, owned, doomed, crashes>>

\* The sync branch: decisions only, nothing is tagged again.
SyncRun ==
  /\ pc = "sync_run"
  /\ txn' = [Phase(txn, owned, "running") EXCEPT !.revs[owned].edits = txn.out]
  /\ live' = txn' /\ pc' = "finish"
  /\ UNCHANGED <<workerVars, fileVars, owned, doomed, crashes>>

(***************************************************************************)
(* Publication, compensation, and the copies they keep.                    *)
(***************************************************************************)
\* Mutant: whatever the status of the job.
Publish_AnyStatus ==
  /\ pc = "finish"
  /\ IF txn.revs[owned].phase = "running" /\ owned = Len(txn.revs)
       THEN /\ live' = [Phase(txn, owned, "published") EXCEPT !.revs[owned].published = txn.out]
            /\ txn' = live' /\ pc' = "prune"
       ELSE UNCHANGED <<live, txn>> /\ pc' = IF task.kind = "review" THEN "compensate" ELSE "error"
  /\ UNCHANGED <<workerVars, fileVars, owned, doomed, crashes>>

\* finish_review: only a ready job, only the latest revision, still running.
Publish ==
  /\ pc = "finish"
  /\ IF txn.status \in Ready /\ txn.revs[owned].phase = "running" /\ owned = Len(txn.revs)
       THEN /\ live' = [Phase(txn, owned, "published") EXCEPT !.revs[owned].published = txn.out]
            /\ txn' = live' /\ pc' = "prune"
       ELSE UNCHANGED <<live, txn>> /\ pc' = IF task.kind = "review" THEN "compensate" ELSE "error"
  /\ UNCHANGED <<workerVars, fileVars, owned, doomed, crashes>>

\* Mutant: the tables of the tasks are not restored.
Compensate_KeepsTasks ==
  /\ pc = "compensate"
  /\ IF live.revs[owned].phase = "running"
       THEN /\ LET b == live.revs[owned].before
               IN live' = [Phase(live, owned, "failed") EXCEPT
                    !.status = b.status, !.out = b.out, !.entry = b.entry, !.changes = b.changes,
                    !.steps = b.steps]
            /\ txn' = live' /\ pc' = "prune"
       ELSE UNCHANGED <<live, txn>> /\ pc' = "error"
  /\ UNCHANGED <<workerVars, fileVars, owned, doomed, crashes>>

\* fail_review: rolls back, then restores every row from the snapshot taken
\* before the edits, if the revision still runs.
Compensate ==
  /\ pc = "compensate"
  /\ IF live.revs[owned].phase = "running"
       THEN /\ LET b == live.revs[owned].before
               IN live' = [Phase(live, owned, "failed") EXCEPT
                    !.status = b.status, !.out = b.out, !.entry = b.entry, !.changes = b.changes,
                    !.tasks = b.tasks, !.steps = b.steps]
            /\ txn' = live' /\ pc' = "prune"
       ELSE UNCHANGED <<live, txn>> /\ pc' = "error"
  /\ UNCHANGED <<workerVars, fileVars, owned, doomed, crashes>>

\* The pointers prune_preserved_outputs protects.
KeptFiles(db) ==
  LET n == Len(db.revs)
      pub == {i \in DOMAIN db.revs : db.revs[i].phase = "published"}
  IN {db.out} \cup (IF pub = {} THEN {} ELSE {db.revs[Max(pub)].published})
     \cup (IF n > 0 /\ db.revs[n].phase = "running"
           THEN {db.revs[n].before.out, db.revs[n].edits} ELSE {})

\* A copy's pointer in a journal row stays if it is protected.
Retire(out, keep) == IF out \in keep \cup {Working} THEN out ELSE NoFile

Retired(row, keep) ==
  [row EXCEPT !.before.out = Retire(row.before.out, keep), !.edits = Retire(row.edits, keep),
              !.published = Retire(row.published, keep)]

\* The journal's pointers to other copies are retired and committed.
Prune ==
  /\ pc = "prune"
  /\ LET keep == KeptFiles(txn)
     IN /\ live' = [txn EXCEPT !.revs = [i \in DOMAIN txn.revs |-> Retired(txn.revs[i], keep)]]
        /\ doomed' = {n \in disk : Copy(n) \notin keep}
  /\ txn' = live' /\ pc' = "unlink"
  /\ UNCHANGED <<workerVars, fileVars, owned, crashes>>

Unlink ==
  /\ pc = "unlink"
  /\ disk' = disk \ doomed /\ doomed' = {}
  /\ pc' = "pack"
  /\ UNCHANGED <<workerVars, live, txn, bytes, made, owned, crashes>>

\* Pruning may raise: before the publication is final (it is not, then) or
\* after, when there is nothing left to compensate and the attempt fails.
PruneRaises ==
  /\ pc \in {"prune", "unlink"} /\ crashes < MaxCrashes
  /\ crashes' = crashes + 1
  /\ txn' = live /\ doomed' = {}
  /\ pc' = IF task.kind = "review" /\ live.revs[owned].phase = "published"
             THEN "compensate" ELSE "error"
  /\ UNCHANGED <<workerVars, live, fileVars, owned>>

\* An exception ends the attempt; the Worker leases the task again or fails it.
Error ==
  /\ pc = "error"
  /\ pc' = "idle" /\ live' = NoTxn /\ txn' = NoTxn /\ disk' = {} /\ bytes' = 0 /\ owned' = 0
  /\ task' = Idle
  /\ UNCHANGED <<saved, kept, version, made, doomed, crashes>>

\* pack_state: the database as committed, with the files.
Archive == [db |-> live, disk |-> disk, bytes |-> bytes]

\* The completion: the archive is this attempt's; decisions sent with the task are no
\* longer the Worker's to remember.
Pack ==
  /\ pc = "pack"
  /\ saved' = Archive
  /\ task' = Idle /\ kept' = [changes |-> {}, tasks |-> {}]
  /\ pc' = "idle" /\ live' = NoTxn /\ txn' = NoTxn /\ disk' = {} /\ bytes' = 0 /\ owned' = 0
  /\ UNCHANGED <<version, made, doomed, crashes>>

Attempt ==
  \/ Unpack \/ ReviewOverrides \/ SyncOverrides \/ Prepare \/ Act \/ Refused \/ Start
  \/ TagReady \/ TagFails \/ SyncRun \/ Publish \/ Compensate \/ Prune \/ Unlink \/ Error \/ Pack

ReviewNext == Attempt \/ Keep \/ QueueReview \/ QueueSync \/ Dies \/ PruneRaises

ReviewSpec == Init /\ [][ReviewNext]_reviewVars
\* The runner keeps working on a leased task.
FairReviewSpec == ReviewSpec /\ WF_reviewVars(Attempt)

(***************************************************************************)
(* Properties.                                                             *)
(***************************************************************************)
\* The archive always holds a finished document: ready, with its PDF, every
\* revision of the journal published or failed, and the newest published
\* PDF still there, whatever died before the archive was saved.  It never
\* collects more copies than the current one and the last published one, and
\* a figure in it has what its one change in force says, or none when its
\* description was removed.  And no committed pointer, of the row or of a
\* snapshot, names a copy that is gone, at any step of a prune.
PointersHold ==
  live # NoTxn =>
    \A out \in {live.out} \cup UNION {{live.revs[i].before.out, live.revs[i].edits, live.revs[i].published}
                                       : i \in DOMAIN live.revs} :
      out \in {NoFile, Working} \/ \E n \in disk : out = Copy(n)
ArchiveIsSettled ==
  LET db == saved.db
      pub == {i \in DOMAIN db.revs : db.revs[i].phase = "published"}
  IN /\ PointersHold
     /\ db.status \in Ready /\ db.steps = "done"
     /\ db.out = Working \/ \E n \in saved.disk : db.out = Copy(n)
     /\ \A i \in DOMAIN db.revs : db.revs[i].phase \in {"published", "failed"}
     /\ pub # {} => \E n \in saved.disk : db.revs[Max(pub)].published = Copy(n)
     /\ db.revs # <<>> => Cardinality(saved.disk) <= 2
     /\ \A f \in Figure :
          LET active == {i \in DOMAIN db.changes :
                           db.changes[i].fig = f /\ db.changes[i].status # "undone"}
          IN IF db.entry[f] = "gone" THEN active = {}
             ELSE Cardinality(active) = 1 /\ \A i \in active : db.changes[i].after = db.entry[f]

\* A review that failed leaves every row as it was before the review, and
\* the PDF of that time; a revision that was published stays published.
FailureRestores ==
  [][/\ saved' # saved /\ Last(saved'.db.revs).phase = "failed" =>
          /\ saved'.db.entry = saved.db.entry /\ saved'.db.status = saved.db.status
          /\ saved'.db.tasks = Decide(saved.db, kept).tasks
          /\ saved'.db.changes = Decide(saved.db, kept).changes
          /\ saved'.db.out = (IF saved.db.out = Working THEN Copy(saved.bytes) ELSE saved.db.out)
     /\ live # NoTxn /\ live' # NoTxn =>
          \A i \in DOMAIN live.revs :
            live.revs[i].phase = "published" => live'.revs[i].phase = "published"]_reviewVars

\* A queued task is finished, refused or given up.
TaskSettles == (task # Idle) ~> (task = Idle)

\* What a person kept or acknowledged is recorded when the Worker forgets it, also by
\* a task whose review failed, and is not asked again.
DecisionsSaved ==
  [][saved' # saved =>
        /\ \A c \in kept.changes : saved'.db.changes[c].status # "pending_review"
        /\ \A i \in kept.tasks : saved'.db.tasks[i] # "pending_review"
        /\ \A i \in Issue : saved.db.tasks[i] = "resolved" => saved'.db.tasks[i] # "pending_review"]_reviewVars

================================================================================
