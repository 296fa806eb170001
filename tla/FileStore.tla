------------------------------- MODULE FileStore -------------------------------
(***************************************************************************)
(* The files behind the jobs: the uploads, upload_writes and cleanup tables *)
(* of worker/src/board.ts, the objects in R2, the Worker's requests that    *)
(* put objects there (user-api.ts upload, runner-api.ts files) and the      *)
(* calls of cleanFiles that delete them.  Of a job it keeps what Revisions  *)
(* says of it, and each handler of the board is taken with what it does to  *)
(* the files.                                                               *)
(*                                                                          *)
(* A request or a cleaner is between two steps while it awaits R2 or the    *)
(* board; the board then runs other handlers.  A request may die between    *)
(* any two.                                                                 *)
(*                                                                          *)
(* A prefix is <<job, revision>>: jobs/<id>/r<rev>/, or the whole jobs/<id>/*)
(* for revision 0.  An object is <<job, revision>> too: what a runner put   *)
(* of a revision, as one, and for revision 0 the input.  A cleanup row      *)
(* waits until its not_before is reached.  guardRetentionTransition refuses *)
(* none of the steps cleanFiles takes, so the row's state is left out.  A   *)
(* renewal by a late heartbeat (RenewsLate) is left out here too.           *)
(***************************************************************************)
EXTENDS Revisions

CONSTANTS
  Slot,         \* bounds of the exploration: the PUTs of a lease under way,
  MaxFailures,  \*   and what fails, of transfers, answers, requests and R2
  CleanersFail  \* whether R2 or the board may fail while files are deleted

ASSUME StoreLimits == 0 \notin Slot /\ MaxFailures \in Nat /\ CleanersFail \in BOOLEAN

VARIABLES
  uploads,    \* table uploads: the reservation of each job id
  writes,     \* table upload_writes: locators of transfers under way
  cleanup,    \* table cleanup
  objects,    \* the keys in R2
  sending,    \* where the upload request of each job id is
  creating,   \* the createJob calls on their way to the board
  puts,       \* the locators whose PUT request is alive
  complete,   \* the revisions whose manifest R2 has confirmed to complete
  cleaners,   \* the calls of cleanFiles, by their caller
  failures    \* how many failures so far, in requests and in deletions

vars == <<rows, uploads, writes, cleanup, objects, sending, creating, puts, complete,
          cleaners, failures>>

Prefix == Job \X Rev

Whole(j) == <<j, 0>>   \* jobs/<id>/; as an object, the input

\* Whether a key, or a narrower prefix, begins with the prefix p.
Under(k, p) == k[1] = p[1] /\ p[2] \in {0, k[2]}

NoUpload == [state |-> "none", expired |-> FALSE]

UploadWrite(j) == [prefix |-> Whole(j), slot |-> 0]

\* requestCleanup: a row that is there stays as it is.
RequestCleanup(c, prefixes, when) ==
  [p \in Prefix |-> IF p \in prefixes /\ c[p] = "none" THEN when ELSE c[p]]

Becomes(j, outcomes) == \E s \in outcomes : rows' = [rows EXCEPT ![j] = s]

\* A transfer, an answer, a request, R2 or the board itself fails.
OneMoreFailure(in) ==
  /\ failures.requests + failures.deletions < MaxFailures
  /\ failures' = [failures EXCEPT ![in] = @ + 1]

------------------------------------------------------------------------------
(* cleanFiles *)

Caller == {<<"alarm">>} \cup {<<who, j>> : who \in {"delete", "abandon"}, j \in Job}

Resting == [todo |-> {}, at |-> <<>>, phase |-> "resting", seen |-> {}]

\* Mutant: the comparison with not_before the wrong way round.
Due_Flipped(c) == {p \in Prefix : c[p] = "waiting"}

Due(c) == {p \in Prefix : c[p] = "due"}

\* The prefixes are read once, and taken in any order.
Cleaning(todo) ==
  IF todo = {} THEN {Resting}
  ELSE {[todo |-> todo \ {p}, at |-> p, phase |-> "list", seen |-> {}] : p \in todo}

\* A handler that ends with cleanFiles runs on to its first wait for R2.
StartCleaning(who) ==
  /\ cleaners[who] = Resting
  /\ \E c \in Cleaning(Due(cleanup')) : cleaners' = [cleaners EXCEPT ![who] = c]

NextPrefix(who) ==
  \E c \in Cleaning(cleaners[who].todo) : cleaners' = [cleaners EXCEPT ![who] = c]

\* deleteFiles: list, and delete what was listed.
CleanList(who) ==
  LET seen == {k \in objects : Under(k, cleaners[who].at)}
  IN  /\ cleaners[who].phase = "list"
      /\ cleaners' = [cleaners EXCEPT ![who].seen = seen,
                                      ![who].phase = IF seen = {} THEN "look" ELSE "delete"]
      /\ UNCHANGED <<rows, uploads, writes, cleanup, objects, sending, creating, puts,
                     complete, failures>>

CleanDelete(who) ==
  /\ cleaners[who].phase = "delete"
  /\ objects' = objects \ cleaners[who].seen
  /\ cleaners' = [cleaners EXCEPT ![who].seen = {}, ![who].phase = "look"]
  /\ UNCHANGED <<rows, uploads, writes, cleanup, sending, creating, puts, complete,
                 failures>>

\* The row goes when no transfer under the prefix is under way.
CleanLook(who) ==
  LET at == cleaners[who].at
  IN  /\ cleaners[who].phase = "look"
      /\ cleanup' = IF \E w \in writes : Under(w.prefix, at) THEN cleanup
                    ELSE [cleanup EXCEPT ![at] = "none"]
      /\ NextPrefix(who)
      /\ UNCHANGED <<rows, uploads, writes, objects, sending, creating, puts, complete,
                     failures>>

\* R2 fails, at the listing or half way through the deletion.
CleanFail(who) ==
  /\ CleanersFail /\ OneMoreFailure("deletions")
  /\ cleaners[who].phase \in {"list", "delete"}
  /\ \E gone \in SUBSET cleaners[who].seen : objects' = objects \ gone
  /\ NextPrefix(who)
  /\ UNCHANGED <<rows, uploads, writes, cleanup, sending, creating, puts, complete>>

\* The board restarts: what its calls were doing is forgotten.
CleanersLost ==
  /\ CleanersFail /\ OneMoreFailure("deletions")
  /\ \E who \in Caller : cleaners[who] # Resting
  /\ cleaners' = [who \in Caller |-> Resting]
  /\ UNCHANGED <<rows, uploads, writes, cleanup, objects, sending, creating, puts,
                 complete>>

CleanStep(who) == CleanList(who) \/ CleanDelete(who) \/ CleanLook(who)

------------------------------------------------------------------------------
(* upload: reserve, transfer, mark stored, create; or abandon *)

ReserveUpload(j) ==
  /\ rows[j].life = "absent" /\ sending[j] = "none"
  /\ uploads' = [uploads EXCEPT ![j] = [state |-> "receiving", expired |-> FALSE]]
  /\ writes' = writes \cup {UploadWrite(j)}
  /\ sending' = [sending EXCEPT ![j] = "transfer"]
  /\ UNCHANGED <<rows, cleanup, objects, creating, puts, complete, cleaners, failures>>

\* Both sides of the transfer have stopped; one that failed may have stored.
TransferEnds(j) ==
  /\ sending[j] = "transfer"
  /\ \/ /\ objects' = objects \cup {Whole(j)}
        /\ sending' = [sending EXCEPT ![j] = "stored"]
        /\ failures' = failures
     \/ /\ OneMoreFailure("requests")
        /\ objects' \in {objects, objects \cup {Whole(j)}}
        /\ sending' = [sending EXCEPT ![j] = "failed"]
  /\ UNCHANGED <<rows, uploads, writes, cleanup, creating, puts, complete, cleaners>>

\* With its answer the request calls createJob.
MarkUploadStored(j) ==
  /\ sending[j] = "stored"
  /\ IF uploads[j].state = "receiving"
     THEN /\ uploads' = [uploads EXCEPT ![j].state = "stored"]
          /\ sending' = [sending EXCEPT ![j] = "calling"]
          /\ creating' = creating \cup {j}
     ELSE /\ uploads' = uploads
          /\ sending' = [sending EXCEPT ![j] = "failed"]
          /\ creating' = creating
  /\ UNCHANGED <<rows, writes, cleanup, objects, puts, complete, cleaners, failures>>

\* createJob's own look at the reservation, before admit.
Reserved(j) ==
  /\ uploads[j].state = "stored" /\ ~uploads[j].expired
  /\ cleanup[Whole(j)] = "none"

\* The answer of a call, if the request still waits for it; it may be lost.
Answered(j, state) ==
  IF sending[j] # "calling" THEN sending' = sending /\ failures' = failures
  ELSE \/ /\ sending' = [sending EXCEPT ![j] = state]
          /\ failures' = failures
       \/ /\ OneMoreFailure("requests")
          /\ sending' = [sending EXCEPT ![j] = "failed"]

\* createJob; the reservation and the locator go with the job's row.
AdmitUpload(j) ==
  /\ j \in creating /\ Reserved(j)
  /\ Becomes(j, Creates(rows[j]))
  /\ uploads' = [uploads EXCEPT ![j] = NoUpload]
  /\ writes' = writes \ {UploadWrite(j)}
  /\ creating' = creating \ {j}
  /\ Answered(j, "over")
  /\ UNCHANGED <<cleanup, objects, puts, complete, cleaners>>

\* The reservation is not there any more, or admit refuses.
RefuseUpload(j) ==
  /\ j \in creating
  /\ creating' = creating \ {j}
  /\ Answered(j, "failed")
  /\ UNCHANGED <<rows, uploads, writes, cleanup, objects, puts, complete, cleaners>>

\* The connection to the board breaks before the call is answered.
LoseCall(j) ==
  /\ OneMoreFailure("requests")
  /\ sending[j] = "calling"
  /\ sending' = [sending EXCEPT ![j] = "failed"]
  /\ UNCHANGED <<rows, uploads, writes, cleanup, objects, creating, puts, complete,
                 cleaners>>

\* Mutant: abandonUpload takes the word of the request that it failed.
AbandonUpload_Always(j) ==
  /\ sending[j] = "failed"
  /\ sending' = [sending EXCEPT ![j] = "over"]
  /\ uploads' = [uploads EXCEPT ![j] = NoUpload]
  /\ writes' = writes \ {UploadWrite(j)}
  /\ cleanup' = RequestCleanup(cleanup, {Whole(j)}, "due")
  /\ StartCleaning(<<"abandon", j>>)
  /\ UNCHANGED <<rows, objects, creating, puts, complete, failures>>

\* An upload whose job was created after all is left alone.
AbandonUpload(j) ==
  /\ sending[j] = "failed"
  /\ sending' = [sending EXCEPT ![j] = "over"]
  /\ IF rows[j].life = "live"
     THEN UNCHANGED <<uploads, writes, cleanup, cleaners>>
     ELSE /\ uploads' = [uploads EXCEPT ![j] = NoUpload]
          /\ writes' = writes \ {UploadWrite(j)}
          /\ cleanup' = RequestCleanup(cleanup, {Whole(j)}, "due")
          /\ StartCleaning(<<"abandon", j>>)
  /\ UNCHANGED <<rows, objects, creating, puts, complete, failures>>

\* The request dies where it is; its transfer may have stored the input.
UploadDies(j) ==
  /\ OneMoreFailure("requests")
  /\ sending[j] \notin {"none", "over"}
  /\ objects' \in {objects} \cup
       (IF sending[j] = "transfer" THEN {objects \cup {Whole(j)}} ELSE {})
  /\ sending' = [sending EXCEPT ![j] = "over"]
  /\ UNCHANGED <<rows, uploads, writes, cleanup, creating, puts, complete, cleaners>>

------------------------------------------------------------------------------
(* A runner's PUT of a file: begin, transfer, end *)

NextKey(j) == <<j, rows[j].next>>

BeginArtifactUpload(j, s) ==
  LET w == [prefix |-> NextKey(j), slot |-> s]
  IN  /\ Holds(rows[j]) /\ ~rows[j].sealed
      /\ w \notin writes
      /\ puts' = puts \cup {w}
      /\ writes' = writes \cup {w}
      /\ UNCHANGED <<rows, uploads, cleanup, objects, sending, creating, complete,
                     cleaners, failures>>

\* The first PUT of a name wins, so one that lands again changes nothing.
PutLands(w) ==
  /\ objects' = objects \cup {w.prefix}
  /\ UNCHANGED <<rows, uploads, writes, cleanup, sending, creating, puts, complete,
                 cleaners, failures>>

\* What endArtifactUpload may find of the lease, by the time it carries.
MaySeeHeld(p) == rows[p[1]].next = p[2] /\ Holds(rows[p[1]])
MaySeeLost(p) == rows[p[1]].next # p[2] \/ rows[p[1]].lapsed

\* Mutant: the end of any transfer of a task that is over asks for deletion.
LeftBehind_AnyEnd(p) == MaySeeLost(p)

\* A lease that is neither held nor spent has left its files behind.
LeftBehind(p) == MaySeeLost(p) /\ p[2] \notin rows[p[1]].spent

EndArtifactUpload(w) ==
  /\ puts' = puts \ {w}
  /\ writes' = writes \ {w}
  /\ \/ MaySeeHeld(w.prefix) /\ cleanup' = cleanup
     \/ MaySeeLost(w.prefix) /\ ~LeftBehind(w.prefix) /\ cleanup' = cleanup
     \/ LeftBehind(w.prefix) /\ cleanup' = RequestCleanup(cleanup, {w.prefix}, "due")
  /\ UNCHANGED <<rows, uploads, objects, sending, creating, complete, cleaners, failures>>

PutDies(w) ==
  /\ OneMoreFailure("requests")
  /\ puts' = puts \ {w}
  /\ UNCHANGED <<rows, uploads, writes, cleanup, objects, sending, creating, complete,
                 cleaners>>

------------------------------------------------------------------------------
(* The board's handlers, with what they ask to be deleted *)

RemoveJob(j) ==
  /\ Becomes(j, Deletes(rows[j]))
  /\ cleanup' = RequestCleanup(cleanup, {Whole(j)}, "due")
  /\ StartCleaning(<<"delete", j>>)
  /\ UNCHANGED <<uploads, writes, objects, sending, creating, puts, complete, failures>>

ClaimTask(j) ==
  /\ Becomes(j, Claims(rows[j]))
  /\ UNCHANGED <<uploads, writes, cleanup, objects, sending, creating, puts, complete,
                 cleaners, failures>>

\* complete, up to the answers of R2: every file of the manifest is there.
ConfirmManifest(j) ==
  /\ Holds(rows[j])
  /\ NextKey(j) \in objects \ complete
  /\ complete' = complete \cup {NextKey(j)}
  /\ UNCHANGED <<rows, uploads, writes, cleanup, objects, sending, creating, puts,
                 cleaners, failures>>

\* What a publication replaces, and nothing before the first one.
Replaced(j) == {<<j, rows[j].rev>>} \ {Whole(j)}

\* complete, from its second read on.  A failed pipeline has no files that
\* anybody reads again.  The replaced revision keeps its files for a while,
\* for readers that have the old pointer.
Publish(j) ==
  /\ \E saved \in BOOLEAN :
       /\ saved => NextKey(j) \in complete
       /\ Becomes(j, Publishes(rows[j], saved))
  /\ cleanup' = RequestCleanup(cleanup, Replaced(j), "waiting")
  /\ UNCHANGED <<uploads, writes, objects, sending, creating, puts, complete, cleaners,
                 failures>>

\* complete throws at the job's transition, with the revision sealed.
SealAndThrow(j) ==
  /\ Becomes(j, Seals(rows[j]))
  /\ UNCHANGED <<uploads, writes, cleanup, objects, sending, creating, puts, complete,
                 cleaners, failures>>

\* endTask asks for the files of a staged revision, requeue of any.
Abandoned(j) == IF rows[j].sealed THEN {} ELSE {NextKey(j)}

Refuse(j) ==
  /\ Becomes(j, Refuses(rows[j]))
  /\ cleanup' = RequestCleanup(cleanup, Abandoned(j), "waiting")
  /\ UNCHANGED <<uploads, writes, objects, sending, creating, puts, complete, cleaners,
                 failures>>

\* fail: the task ends, or a sync is queued again.
Fail(j) ==
  /\ Holds(rows[j])
  /\ Becomes(j, Ends(rows[j]))
  /\ \E prefixes \in {Abandoned(j), {NextKey(j)}} :
       cleanup' = RequestCleanup(cleanup, prefixes, "waiting")
  /\ UNCHANGED <<uploads, writes, objects, sending, creating, puts, complete, cleaners,
                 failures>>

------------------------------------------------------------------------------
(* The alarm *)

Overdue == {j \in Job : uploads[j].state # "none" /\ uploads[j].expired}

Quiet == {j \in Job : rows[j].next # 0 /\ rows[j].lapsed}

\* A held task is younger than the retention.
MayBeOld == {j \in Job : rows[j].life = "live" /\ (rows[j].next = 0 \/ rows[j].lapsed)}

\* Mutant: an overdue reservation is dropped with nothing deleted.
SweptAway_JobsOnly(old) == {Whole(j) : j \in old}

SweptAway(old) == {Whole(j) : j \in Overdue \cup old}

\* One alarm at a time: quiet tasks end or are queued again, overdue
\* reservations and old jobs go, and the cleanup begins.
Alarm ==
  /\ \E again \in SUBSET Quiet, old \in SUBSET MayBeOld :
       LET left == (UNION {Abandoned(j) : j \in Quiet \ again})
                     \cup {NextKey(j) : j \in again}
       IN  /\ rows' = [j \in Job |-> IF j \in old THEN Blank("gone")
                                     ELSE IF j \in Quiet THEN Released(rows[j])
                                     ELSE rows[j]]
           /\ cleanup' = RequestCleanup(RequestCleanup(cleanup, left, "waiting"),
                                        SweptAway(old), "due")
  /\ uploads' = [j \in Job |-> IF j \in Overdue THEN NoUpload ELSE uploads[j]]
  /\ StartCleaning(<<"alarm">>)
  /\ UNCHANGED <<writes, objects, sending, creating, puts, complete, failures>>

------------------------------------------------------------------------------
(* Time *)

Lapse(j) ==
  /\ Becomes(j, Lapses(rows[j]))
  /\ UNCHANGED <<uploads, writes, cleanup, objects, sending, creating, puts, complete,
                 cleaners, failures>>

Expire(j) ==
  /\ uploads[j].state # "none" /\ ~uploads[j].expired
  /\ uploads' = [uploads EXCEPT ![j].expired = TRUE]
  /\ UNCHANGED <<rows, writes, cleanup, objects, sending, creating, puts, complete,
                 cleaners, failures>>

Ripen(p) ==
  /\ cleanup[p] = "waiting"
  /\ cleanup' = [cleanup EXCEPT ![p] = "due"]
  /\ UNCHANGED <<rows, uploads, writes, objects, sending, creating, puts, complete,
                 cleaners, failures>>

------------------------------------------------------------------------------

StoreInit ==
  /\ Init
  /\ uploads = [j \in Job |-> NoUpload]
  /\ writes = {}
  /\ cleanup = [p \in Prefix |-> "none"]
  /\ objects = {}
  /\ sending = [j \in Job |-> "none"]
  /\ creating = {}
  /\ puts = {}
  /\ complete = {}
  /\ cleaners = [who \in Caller |-> Resting]
  /\ failures = [requests |-> 0, deletions |-> 0]

UploadStep(j) ==
  \/ TransferEnds(j)
  \/ MarkUploadStored(j)
  \/ AdmitUpload(j)
  \/ RefuseUpload(j)
  \/ AbandonUpload(j)

UploadNext(j) ==
  \/ ReserveUpload(j)
  \/ UploadStep(j)
  \/ LoseCall(j)
  \/ UploadDies(j)

PutNext ==
  \/ \E j \in Job, s \in Slot : BeginArtifactUpload(j, s)
  \/ \E w \in puts : PutLands(w)
  \/ \E w \in puts : EndArtifactUpload(w)
  \/ \E w \in puts : PutDies(w)

BoardNext(j) ==
  \/ RemoveJob(j)
  \/ ClaimTask(j)
  \/ ConfirmManifest(j)
  \/ Publish(j)
  \/ SealAndThrow(j)
  \/ Refuse(j)
  \/ Fail(j)
  \/ Lapse(j)
  \/ Expire(j)

CleanNext ==
  \/ \E who \in Caller : CleanStep(who)
  \/ \E who \in Caller : CleanFail(who)
  \/ CleanersLost

StoreNext ==
  \/ \E j \in Job : UploadNext(j)
  \/ PutNext
  \/ \E j \in Job : BoardNext(j)
  \/ Alarm
  \/ CleanNext
  \/ \E p \in Prefix : Ripen(p)

StoreSpec == StoreInit /\ [][StoreNext]_vars

\* Time passes, the alarm comes back, R2 answers, and a request to the Worker
\* that does not die runs on.
StoreFairness ==
  /\ \A j \in Job : WF_vars(Expire(j))
  /\ \A p \in Prefix : WF_vars(Ripen(p))
  /\ WF_vars(Alarm)
  /\ \A who \in Caller : WF_vars(CleanStep(who))
  /\ \A j \in Job : WF_vars(UploadStep(j))
  /\ \A p \in Prefix, s \in Slot :
       WF_vars(LET w == [prefix |-> p, slot |-> s] IN w \in puts /\ EndArtifactUpload(w))

FairStoreSpec == StoreSpec /\ StoreFairness

------------------------------------------------------------------------------
(* Properties *)

\* A job's input is there as long as the job: neither an upload request that
\* saw an error although createJob had committed, or commits later, nor the
\* alarm that finds the reservation overdue, nor a cleanup under way deletes it.
InputKept == \A j \in Job : rows[j].life = "live" => Whole(j) \in objects

\* docs/architecture.md: R2 holds "for each revision of a job's result, the
\* files the read routes serve".  What a job points to is there as long as it
\* does: no late end of a PUT, no retry and no publication deletes it.
OutputKept ==
  \A j \in Job : rows[j].has_state => <<j, rows[j].rev>> \in objects

\* A locator whose request has died is never released.
DeadWrite(w) ==
  IF w.slot = 0 THEN sending[w.prefix[1]] = "over" ELSE w \notin puts

\* Such a locator keeps its cleanup row; any other deletion that is asked for ends.
CleanupEnds ==
  \A p \in Prefix :
    cleanup[p] # "none"
      ~> cleanup[p] = "none" \/ \E w \in writes : Under(w.prefix, p) /\ DeadWrite(w)

\* The files of an upload go away once its request is over and its job is not
\* there, wherever it failed or died, unless a deletion was interrupted, by R2 or
\* by a restart of the board: the next one may then overlook it.
UploadGone ==
  \A j \in Job :
    sending[j] = "over" /\ rows[j].life # "live"
      ~> Whole(j) \notin objects \/ rows[j].life = "live" \/ failures.deletions > 0

\* What came to nothing is removed: the deletions come to their end, and the files of an
\* upload that has no job go with them.
DeletionsEnd == UploadGone /\ CleanupEnds

===============================================================================
