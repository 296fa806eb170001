--------------------------------- MODULE Runner ---------------------------------
(***************************************************************************)
(* Runner processes that take tasks from the Worker and share one volume   *)
(* of attempt directories: the claim loop of __main__.py, the attempt of   *)
(* tasks.py with its lease supervisor, the uploads and terminal calls of   *)
(* client.py, the workspaces of state.py and the threads of thread_work.py.*)
(* The Worker is seen only through the fate of each lease.                 *)
(***************************************************************************)
EXTENDS Naturals, FiniteSets

CONSTANTS Proc,        \* runner processes on the volume
          Lease,       \* leases the Worker may give
          Slots,       \* runner_slots
          UploadTries, \* UPLOAD_ATTEMPTS
          Nobody,      \* no process
          MaxCrashes   \* bound: process crashes

ASSUME RunnerConstants ==
  /\ Slots \in Nat \ {0} /\ UploadTries \in Nat \ {0} /\ MaxCrashes \in Nat
  /\ Nobody \notin Proc

VARIABLES
  mode,    \* Proc -> RunnerMode, with what comes before and after it
  loop,    \* Proc -> where the claim loop is
  free,    \* Proc -> permits left in the semaphore
  got,     \* Proc -> leases of a claim answer on its way
  index,   \* the holder of .runner-attempts.lock
  seen,    \* Proc -> the directories a starting runner has looked at
  dirs,    \* attempt directories that exist
  locked,  \* Lease -> the process that holds the lock of .owner
  board,   \* Lease -> what the Worker makes of it
  net,     \* terminal calls on their way to the Worker
  att,     \* Lease -> the attempt
  crashes

vars == <<mode, loop, free, got, index, seen, dirs, locked, board, net, att, crashes>>
procVars == <<mode, loop, free, got>>
diskVars == <<index, seen, dirs, locked>>
netVars == <<board, net>>

\* task.py: the attempt's place in run_task, the TaskPhase, the operation that
\* while_held supervises, what it gave, and the thread and heartbeat beside it.
NoAttempt == [proc |-> Nobody, pc |-> "none", phase |-> "claimed", op |-> "idle",
              call |-> "none", outcome |-> "none", tries |-> 0, thread |-> FALSE,
              forward |-> "off", late |-> FALSE, cancelled |-> FALSE]

Live(l) == att[l].pc \notin {"none", "ended", "dead"}
Running(p) == {l \in Lease : att[l].proc = p /\ Live(l)}

Init ==
  /\ mode = [p \in Proc |-> "down"] /\ loop = [p \in Proc |-> "off"]
  /\ free = [p \in Proc |-> 0] /\ got = [p \in Proc |-> {}]
  /\ index = Nobody /\ seen = [p \in Proc |-> {}]
  /\ dirs = {} /\ locked = [l \in Lease |-> Nobody]
  /\ board = [l \in Lease |-> "unused"] /\ net = {}
  /\ att = [l \in Lease |-> NoAttempt] /\ crashes = 0

(***************************************************************************)
(* Starting, crashing, and the reaper of abandoned attempts.               *)
(***************************************************************************)

\* cleanup_abandoned_attempts waits for the index lock.
StartUp(p) ==
  /\ mode[p] = "down" /\ index = Nobody
  /\ mode' = [mode EXCEPT ![p] = "reaping"]
  /\ index' = p
  /\ UNCHANGED <<loop, free, got, seen, dirs, locked, netVars, att, crashes>>

\* One directory: removed if its owner's lock is free, skipped if not.
Reap(p, l) ==
  /\ mode[p] = "reaping" /\ l \in dirs \ seen[p]
  /\ seen' = [seen EXCEPT ![p] = @ \cup {l}]
  /\ dirs' = IF locked[l] = Nobody THEN dirs \ {l} ELSE dirs
  /\ UNCHANGED <<procVars, index, locked, netVars, att, crashes>>

ReapDone(p) ==
  /\ mode[p] = "reaping" /\ dirs \subseteq seen[p]
  /\ mode' = [mode EXCEPT ![p] = "accepting"]
  /\ loop' = [loop EXCEPT ![p] = "top"]
  /\ free' = [free EXCEPT ![p] = Slots]
  /\ index' = Nobody /\ seen' = [seen EXCEPT ![p] = {}]
  /\ UNCHANGED <<got, dirs, locked, netVars, att, crashes>>

\* The operating system drops the locks and threads of a dead process.
Crash(p) ==
  /\ mode[p] \notin {"down", "stopped"} /\ crashes < MaxCrashes
  /\ crashes' = crashes + 1
  /\ mode' = [mode EXCEPT ![p] = "down"] /\ loop' = [loop EXCEPT ![p] = "off"]
  /\ free' = [free EXCEPT ![p] = 0] /\ got' = [got EXCEPT ![p] = {}]
  /\ index' = IF index = p THEN Nobody ELSE index
  /\ locked' = [l \in Lease |-> IF locked[l] = p THEN Nobody ELSE locked[l]]
  /\ att' = [l \in Lease |-> IF l \in Running(p)
                             THEN [NoAttempt EXCEPT !.pc = "dead", !.proc = p] ELSE att[l]]
  /\ seen' = [seen EXCEPT ![p] = {}]
  /\ UNCHANGED <<dirs, netVars>>

(***************************************************************************)
(* The claim loop.                                                         *)
(***************************************************************************)

\* RunnerControl.stop, called by a signal.
StopSignal(p) ==
  /\ mode[p] = "accepting"
  /\ mode' = [mode EXCEPT ![p] = "stopping"]
  /\ UNCHANGED <<loop, free, got, diskVars, netVars, att, crashes>>

\* acquire_slot: a permit and the signal race; it looks at the signal last.
TakePermit(p) ==
  /\ loop[p] = "top" /\ free[p] > 0 /\ mode[p] = "accepting"
  /\ loop' = [loop EXCEPT ![p] = "permit"]
  /\ free' = [free EXCEPT ![p] = @ - 1]
  /\ UNCHANGED <<mode, got, diskVars, netVars, att, crashes>>

AskForTask(p) ==
  /\ loop[p] = "permit" /\ mode[p] = "accepting"
  /\ loop' = [loop EXCEPT ![p] = "claiming"]
  /\ UNCHANGED <<mode, free, got, diskVars, netVars, att, crashes>>

\* The permit goes back and the loop ends: found by acquire_slot, or when a
\* claim is answered, whose task (if any) is left to its lease.
QuitWithPermit(p) ==
  /\ mode[p] = "stopping"
  /\ loop[p] \in {"permit", "claiming"}
  /\ free' = [free EXCEPT ![p] = @ + 1]
  /\ got' = [got EXCEPT ![p] = {}]
  /\ loop' = [loop EXCEPT ![p] = "exit"]
  /\ UNCHANGED <<mode, diskVars, netVars, att, crashes>>

QuitWithout(p) ==
  /\ mode[p] = "stopping" /\ loop[p] = "top"
  /\ loop' = [loop EXCEPT ![p] = "exit"]
  /\ UNCHANGED <<mode, free, got, diskVars, netVars, att, crashes>>

\* The Worker gives a lease (external), whose answer may not arrive.
Claim(p, l) ==
  /\ loop[p] = "claiming" /\ board[l] = "unused" /\ got[p] = {}
  /\ board' = [board EXCEPT ![l] = "held"]
  /\ got' = [got EXCEPT ![p] = {l}]
  /\ UNCHANGED <<mode, loop, free, diskVars, net, att, crashes>>

\* Mutant: the permit is not given back.
ClaimFails_KeepsPermit(p) ==
  /\ loop[p] = "claiming"
  /\ loop' = [loop EXCEPT ![p] = "top"]
  /\ got' = [got EXCEPT ![p] = {}]
  /\ UNCHANGED <<mode, free, diskVars, netVars, att, crashes>>

\* The call failed, or its answer did not read as a task.
ClaimFails(p) ==
  /\ loop[p] = "claiming"
  /\ loop' = [loop EXCEPT ![p] = "top"]
  /\ free' = [free EXCEPT ![p] = @ + 1]
  /\ got' = [got EXCEPT ![p] = {}]
  /\ UNCHANGED <<mode, diskVars, netVars, att, crashes>>

NothingToDo(p) ==
  /\ loop[p] = "claiming" /\ mode[p] = "accepting" /\ got[p] = {}
  /\ loop' = [loop EXCEPT ![p] = "top"]
  /\ free' = [free EXCEPT ![p] = @ + 1]
  /\ UNCHANGED <<mode, got, diskVars, netVars, att, crashes>>

\* create_task: the permit is now the attempt's, until it is done.
Spawn(p, l) ==
  /\ loop[p] = "claiming" /\ mode[p] = "accepting" /\ l \in got[p]
  /\ att' = [att EXCEPT ![l] = [NoAttempt EXCEPT !.proc = p, !.pc = "spawned"]]
  /\ got' = [got EXCEPT ![p] = {}]
  /\ loop' = [loop EXCEPT ![p] = "top"]
  /\ UNCHANGED <<mode, free, diskVars, netVars, crashes>>

\* main's finally: every attempt is cancelled once, then joined.
CancelAttempts(p) ==
  /\ loop[p] = "exit"
  /\ loop' = [loop EXCEPT ![p] = "joining"]
  /\ att' = [l \in Lease |-> IF l \in Running(p)
                             THEN [att[l] EXCEPT !.cancelled = TRUE] ELSE att[l]]
  /\ UNCHANGED <<mode, free, got, diskVars, netVars, crashes>>

Stopped(p) ==
  /\ loop[p] = "joining" /\ Running(p) = {}
  /\ mode' = [mode EXCEPT ![p] = "stopped"]
  /\ loop' = [loop EXCEPT ![p] = "off"]
  /\ UNCHANGED <<free, got, diskVars, netVars, att, crashes>>

(***************************************************************************)
(* An attempt: its directory, and the work under while_held.               *)
(***************************************************************************)
Set(l, r) == att' = [att EXCEPT ![l] = r]

\* while_held starts nothing when the heartbeat is gone or, but for a failure
\* report, the deadline has passed.
StartHeld(a, op) ==
  [a EXCEPT !.op = IF a.forward = "lost" THEN "lost"
                   ELSE IF a.late /\ op # "reporting" THEN "timeout" ELSE op]

\* attempt_workspace, under the index lock: the directory, then its owner.
MakeDir(l) ==
  /\ att[l].pc = "spawned" /\ ~att[l].cancelled /\ index = Nobody
  /\ index' = att[l].proc
  /\ dirs' = dirs \cup {l}
  /\ Set(l, [att[l] EXCEPT !.pc = "making"])
  /\ UNCHANGED <<procVars, seen, locked, netVars, crashes>>

\* The lock is taken and the index let go; run begins with its heartbeat, and
\* while_held begins the work.
OwnDir(l) ==
  /\ att[l].pc = "making"
  /\ locked' = [locked EXCEPT ![l] = att[l].proc]
  /\ index' = Nobody
  /\ Set(l, StartHeld([att[l] EXCEPT !.pc = "held", !.phase = "working",
                                     !.forward = "running"], "working"))
  /\ UNCHANGED <<procVars, seen, dirs, netVars, crashes>>

\* A task that is cancelled before its first step never runs.
NeverStarted(l) ==
  /\ att[l].pc = "spawned" /\ att[l].cancelled
  /\ Set(l, [att[l] EXCEPT !.pc = "ended"])
  /\ free' = [free EXCEPT ![att[l].proc] = @ + 1]
  /\ UNCHANGED <<mode, loop, got, diskVars, netVars, crashes>>

Supervised(l) == att[l].pc = "held" /\ att[l].op \notin {"idle", "ok", "error", "timeout", "lost"}

\* to_thread: the operation waits for the thread; a cancelled one leaves it.
ThreadStarts(l) ==
  /\ Supervised(l) /\ att[l].op \in {"working", "packing"} /\ ~att[l].thread
  /\ Set(l, [att[l] EXCEPT !.thread = TRUE])
  /\ UNCHANGED <<procVars, diskVars, netVars, crashes>>

ThreadEnds(l) ==
  /\ att[l].thread
  /\ Set(l, [att[l] EXCEPT !.thread = FALSE])
  /\ UNCHANGED <<procVars, diskVars, netVars, crashes>>

\* _perform returns an Outcome, raises, or meets a 404, 409 or 410.  "bare" is a
\* completion without files: a refused review, or a pipeline that failed.
WorkEnds(l, op, outcome) ==
  /\ att[l].pc = "held" /\ att[l].op = "working" /\ ~att[l].thread
  /\ \/ op = "ok" /\ outcome \in {"views", "failed", "bare"}
     \/ op = "error" /\ outcome = "none"
     \/ op = "lost" /\ outcome = "none" /\ board[l] # "held"
  /\ Set(l, [att[l] EXCEPT !.op = op, !.outcome = outcome])
  /\ UNCHANGED <<procVars, diskVars, netVars, crashes>>

\* _finish uploads the rendered files, packs the state and uploads the archive.
BeginUploads(l) ==
  /\ att[l].pc = "held" /\ att[l].op = "finishing" /\ att[l].outcome = "views"
  /\ Set(l, [att[l] EXCEPT !.op = "uploading"])
  /\ UNCHANGED <<procVars, diskVars, netVars, crashes>>

AfterUpload(op) == IF op = "uploading" THEN "packing" ELSE "sending"

\* One PUT of upload: acknowledged, given up, lost, too late (also for another
\* try), or sent again.
UploadStep(l, op) ==
  LET a == att[l]
      retry == a.tries + 1 < UploadTries
  IN  /\ a.pc = "held" /\ a.op \in {"uploading", "archiving"}
      /\ \/ op = AfterUpload(a.op) /\ board[l] = "held"
         \/ op = "error"
         \/ op = "lost" /\ board[l] # "held"
         \/ op = "timeout" /\ (a.late \/ retry)
         \/ op = a.op /\ retry /\ ~a.late
      /\ Set(l, [a EXCEPT !.op = op, !.tries = IF op = a.op THEN @ + 1 ELSE 0])
      /\ UNCHANGED <<procVars, diskVars, netVars, crashes>>

Packed(l, op) ==
  /\ att[l].pc = "held" /\ att[l].op = "packing" /\ ~att[l].thread
  /\ op \in {"archiving", "error"}
  /\ Set(l, [att[l] EXCEPT !.op = op])
  /\ UNCHANGED <<procVars, diskVars, netVars, crashes>>

\* Its terminal call: complete after the archive, or at once when there are no
\* files; fail for an upload that is no good.  run sends fail for an error.
Send(l, kind) ==
  /\ net' = net \cup {[lease |-> l, kind |-> kind]}
  /\ Set(l, [att[l] EXCEPT !.op = "calling", !.call = kind])
  /\ UNCHANGED <<procVars, diskVars, board, crashes>>

SendComplete(l) ==
  /\ att[l].pc = "held"
  /\ att[l].op = "sending" \/ (att[l].op = "finishing" /\ att[l].outcome = "bare")
  /\ Send(l, "complete")

SendFailed(l) ==
  /\ att[l].pc = "held"
  /\ att[l].op = "reporting" \/ (att[l].op = "finishing" /\ att[l].outcome = "failed")
  /\ Send(l, "fail")

\* The Worker takes a terminal call of a lease that is held (external).
CallArrives(c) ==
  /\ net' = net \ {c}
  /\ LET taken == board[c.lease] = "held"
     IN  /\ board' = IF taken THEN [board EXCEPT ![c.lease] = c.kind] ELSE board
         /\ att' = [att EXCEPT ![c.lease].call =
                      IF @ = c.kind THEN IF taken THEN "taken" ELSE "refused" ELSE @]
  /\ UNCHANGED <<procVars, diskVars, crashes>>

\* The answer, or an error in place of it (the call may still arrive).
CallEnds(l, op) ==
  /\ att[l].pc = "held" /\ att[l].op = "calling"
  /\ \/ op = "ok" /\ att[l].call = "taken"
     \/ op = "lost" /\ att[l].call = "refused"
     \/ op = "error"
  /\ Set(l, [att[l] EXCEPT !.op = op, !.call = "none"])
  /\ UNCHANGED <<procVars, diskVars, netVars, crashes>>

\* _forward_progress meets LeaseLost; other failures it only logs.
HeartbeatLost(l) ==
  /\ att[l].forward = "running" /\ board[l] # "held"
  /\ Set(l, [att[l] EXCEPT !.forward = "lost"])
  /\ UNCHANGED <<procVars, diskVars, netVars, crashes>>

\* The task's deadline passes; the Worker lets a lease lapse, or deletes its job.
DeadlinePasses(l) ==
  /\ att[l].pc = "held" /\ ~att[l].late
  /\ Set(l, [att[l] EXCEPT !.late = TRUE])
  /\ UNCHANGED <<procVars, diskVars, netVars, crashes>>

Lapse(l) ==
  /\ board[l] = "held"
  /\ board' = [board EXCEPT ![l] = "lapsed"]
  /\ UNCHANGED <<procVars, diskVars, net, att, crashes>>

(***************************************************************************)
(* The supervisor.  while_held returns the operation's result, or raises   *)
(* LeaseLost or TimeoutError; either way it cancels and joins the          *)
(* operation.                                                              *)
(***************************************************************************)
Ended(op) == op \in {"ok", "error", "timeout", "lost"}
Reporting(a) == a.outcome = "report"

\* Mutant: the heartbeat is looked at first, whatever the phase.
AckWins_Never(a) == FALSE

\* A terminal acknowledgement wins over a heartbeat that was refused.
AckWins(a) == Ended(a.op) /\ a.phase = "publishing"

Verdict(a) ==
  IF AckWins(a) THEN a.op
  ELSE IF a.forward = "lost" THEN "lost"
  ELSE IF Ended(a.op) THEN a.op
  ELSE "timeout"

Wakes(a) == Ended(a.op) \/ a.forward = "lost" \/ (a.late /\ ~Reporting(a))

Leave(a, phase) == [a EXCEPT !.pc = "leaving", !.phase = phase, !.op = "idle", !.tries = 0,
                             !.call = "none", !.forward = "off", !.late = FALSE]

\* Mutant: a failure is logged and not reported.
Report_Quiet(a) == Leave(a, "failed")

\* After an error or a timeout the failure is reported, under the same
\* supervisor but no deadline.
Report(a) == StartHeld([a EXCEPT !.phase = "publishing", !.outcome = "report",
                                 !.call = "none"], "reporting")

Supervise(l) ==
  LET a == att[l]
      v == Verdict(a)
  IN  /\ a.pc = "held" /\ Wakes(a) /\ ~a.cancelled
      /\ Set(l, CASE v = "lost" -> Leave(a, "failed")
                  [] v = "ok" /\ a.phase = "working"
                       -> StartHeld([a EXCEPT !.phase = "publishing"], "finishing")
                  [] v = "ok" /\ a.phase = "publishing"
                       -> Leave(a, IF a.outcome \in {"failed", "report"} THEN "failed" ELSE "done")
                  [] v \in {"error", "timeout"} /\ Reporting(a) -> Leave(a, "failed")
                  [] v \in {"error", "timeout"} /\ ~Reporting(a) -> Report(a))
      /\ UNCHANGED <<procVars, diskVars, netVars, crashes>>

\* A cancelled attempt ends where it waits.
Cancelled(l) ==
  /\ att[l].pc = "held" /\ att[l].cancelled
  /\ Set(l, Leave(att[l], "failed"))
  /\ UNCHANGED <<procVars, diskVars, netVars, crashes>>

\* Mutant: threads are not joined.
RemoveDir_NoJoin(l) ==
  /\ att[l].pc = "leaving" /\ index = Nobody
  /\ dirs' = dirs \ {l}
  /\ locked' = [locked EXCEPT ![l] = Nobody]
  /\ Set(l, [att[l] EXCEPT !.pc = "ended"])
  /\ free' = [free EXCEPT ![att[l].proc] = @ + 1]
  /\ UNCHANGED <<mode, loop, got, index, seen, netVars, crashes>>

\* owned_thread_work joins the threads; then attempt_workspace removes the
\* directory and lets go of its lock, under the index lock, and the permit
\* goes back.
RemoveDir(l) ==
  /\ att[l].pc = "leaving" /\ ~att[l].thread /\ index = Nobody
  /\ dirs' = dirs \ {l}
  /\ locked' = [locked EXCEPT ![l] = Nobody]
  /\ Set(l, [att[l] EXCEPT !.pc = "ended"])
  /\ free' = [free EXCEPT ![att[l].proc] = @ + 1]
  /\ UNCHANGED <<mode, loop, got, index, seen, netVars, crashes>>

LoopStep(p) ==
  \/ TakePermit(p) \/ AskForTask(p) \/ QuitWithPermit(p) \/ QuitWithout(p)
  \/ ClaimFails(p) \/ NothingToDo(p) \/ CancelAttempts(p) \/ Stopped(p)
  \/ ReapDone(p)
  \/ \E l \in Lease : Spawn(p, l) \/ Reap(p, l)

OpEnds == {"ok", "error", "lost"}

\* The attempt's own steps: its directory, and its calls.
DirStep(l) == MakeDir(l) \/ OwnDir(l) \/ NeverStarted(l) \/ RemoveDir(l)

CallStep(l) ==
  \/ \E op \in OpEnds \cup {"uploading", "packing", "archiving", "sending", "timeout"} :
       UploadStep(l, op)
  \/ \E op \in {"archiving", "error"} : Packed(l, op)
  \/ BeginUploads(l) \/ SendComplete(l) \/ SendFailed(l)
  \/ \E op \in OpEnds : CallEnds(l, op)

AttemptStep(l) ==
  \/ DirStep(l) \/ CallStep(l) \/ ThreadEnds(l) \/ Supervise(l) \/ Cancelled(l)
  \/ \E op \in OpEnds, o \in {"none", "views", "failed", "bare"} : WorkEnds(l, op, o)

Next ==
  \/ \E p \in Proc : StartUp(p) \/ Crash(p) \/ StopSignal(p) \/ LoopStep(p)
  \/ \E p \in Proc, l \in Lease : Claim(p, l)
  \/ \E l \in Lease : AttemptStep(l) \/ ThreadStarts(l) \/ HeartbeatLost(l)
                      \/ DeadlinePasses(l) \/ Lapse(l)
  \/ \E c \in net : CallArrives(c)

Spec == Init /\ [][Next]_vars

\* Processes run and calls end; a crashed runner is started again.  Deadlines
\* pass.  No signal, crash, heartbeat answer or lapse is assumed.
Fairness ==
  /\ \A p \in Proc : WF_vars(StartUp(p)) /\ WF_vars(LoopStep(p))
  /\ \A l \in Lease :
       /\ WF_vars(DirStep(l)) /\ WF_vars(CallStep(l)) /\ WF_vars(ThreadEnds(l))
       /\ WF_vars(Supervise(l)) /\ WF_vars(Cancelled(l)) /\ WF_vars(DeadlinePasses(l))
FairSpec == Spec /\ Fairness

(***************************************************************************)
(* Properties.                                                             *)
(***************************************************************************)
\* An attempt's files are there, and its own, as long as it works or a thread
\* of it still runs: no reaper, other attempt or early removal takes them.
FilesOutliveWork ==
  \A l \in Lease :
    /\ att[l].pc = "making" => l \in dirs
    /\ att[l].pc \in {"held", "leaving"} \/ att[l].thread
         => l \in dirs /\ locked[l] = att[l].proc

\* An attempt that calls itself done was published; and one that was not
\* cancelled leaves the lease only when the Worker has ended it or its failure
\* was reported as well as the network allowed.
TellsTheWorker ==
  \A l \in Lease :
    /\ att[l].phase = "done" => board[l] = "complete"
    /\ att[l].pc \in {"leaving", "ended"} /\ ~att[l].cancelled /\ board[l] = "held"
         => Reporting(att[l])

\* An acknowledged completion ends its attempt as done, also when a heartbeat
\* was refused because of it, or the deadline passed, before the attempt woke.
AcknowledgedIsDone ==
  [][\A l \in Lease :
       (/\ att[l].phase = "publishing" /\ att[l].op = "ok" /\ board[l] = "complete"
        /\ att[l].pc = "held" /\ att'[l].pc = "leaving" /\ ~att[l].cancelled)
         => att'[l].phase = "done"]_vars

\* Every permit is free, in the claim loop's hand or with one live attempt.
PermitsAddUp ==
  \A p \in Proc :
    mode[p] \in {"accepting", "stopping"} =>
      free[p] + Cardinality(Running(p))
        + (IF loop[p] \in {"permit", "claiming"} THEN 1 ELSE 0) = Slots

\* A runner never runs dry: its permits add up, every attempt ends, by its
\* result, its lease or its deadline, a runner told to stop does stop, and what
\* a crash left on the volume is removed.
RunnerGoesOn ==
  /\ [][PermitsAddUp']_vars
  /\ \A l \in Lease : Live(l) ~> ~Live(l)
  /\ \A p \in Proc : mode[p] = "stopping" ~> mode[p] \in {"stopped", "down"}
  /\ \A l \in Lease : (att[l].pc = "dead" /\ l \in dirs) ~> l \notin dirs

================================================================================
