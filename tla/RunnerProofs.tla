------------------------------ MODULE RunnerProofs ------------------------------
(***************************************************************************)
(* Proofs about the runner, for any number of processes on the volume, of  *)
(* leases, slots, tries and crashes.  The invariant has three parts: what  *)
(* an attempt believes of its lease agrees with what the Worker made of    *)
(* it; who may touch a directory, by the index lock and by the owner's;    *)
(* and where the permits of the claim loop are.                            *)
(***************************************************************************)
EXTENDS Runner, FiniteSetTheorems, TLAPS

------------------------------------------------------------------------------
(* The inductive invariant *)

Op == {"idle", "working", "finishing", "uploading", "packing", "archiving", "sending",
       "reporting", "calling", "ok", "error", "timeout", "lost"}

AttemptRow ==
  [ proc : Proc \cup {Nobody},
    pc : {"none", "spawned", "making", "held", "leaving", "ended", "dead"},
    phase : {"claimed", "working", "publishing", "done", "failed"},
    op : Op, call : {"none", "complete", "fail", "taken", "refused"},
    outcome : {"none", "views", "failed", "bare", "report"}, tries : Nat,
    thread : BOOLEAN, forward : {"off", "running", "lost"}, late : BOOLEAN,
    cancelled : BOOLEAN ]

RunnerTypeOK ==
  /\ mode \in [Proc -> {"down", "reaping", "accepting", "stopping", "stopped"}]
  /\ loop \in
       [Proc -> {"off", "top", "permit", "claiming", "exit", "joining"}]
  /\ free \in [Proc -> Nat]
  /\ got \in [Proc -> SUBSET Lease]
  /\ index \in Proc \cup {Nobody}
  /\ seen \in [Proc -> SUBSET Lease]
  /\ dirs \subseteq Lease
  /\ locked \in [Lease -> Proc \cup {Nobody}]
  /\ board \in [Lease -> {"unused", "held", "lapsed", "complete", "fail"}]
  /\ net \subseteq [lease : Lease, kind : {"complete", "fail"}]
  /\ att \in [Lease -> AttemptRow]
  /\ crashes \in Nat

\* The terminal call that an outcome ends with.
KindOf(outcome) == IF outcome \in {"failed", "report"} THEN "fail" ELSE "complete"

\* An attempt a, of a lease that the Worker has as b, knows of it what is true.
AttemptOK(a, b) ==
  /\ a.pc # "none" => a.proc \in Proc /\ b # "unused"
  /\ a.pc = "held" => a.phase \in {"working", "publishing"}
  /\ a.thread => a.pc \in {"held", "leaving"}
  /\ a.op # "idle" => a.pc = "held"
  /\ a.op = "working" => a.phase = "working"
  /\ a.op \in {"uploading", "packing", "archiving", "sending"} => a.outcome = "views"
  /\ a.op = "reporting" => a.outcome = "report"
  /\ a.op \in {"finishing", "uploading", "packing", "archiving", "sending", "reporting",
               "calling"} => a.phase = "publishing"
  /\ a.forward # "off" => a.pc = "held"
  /\ a.call # "none" => a.op = "calling"
  /\ a.call \in {"complete", "fail"} => a.call = KindOf(a.outcome)
  /\ a.call = "taken" => b = KindOf(a.outcome)
  /\ a.call = "refused" => b # "held"
  /\ a.op = "ok" /\ a.phase = "publishing" => b = KindOf(a.outcome)
  /\ a.op = "lost" \/ a.forward = "lost" => b # "held"
  /\ a.phase = "done" => b = "complete" /\ a.pc \in {"leaving", "ended"}
  /\ a.pc \in {"leaving", "ended"} /\ ~a.cancelled /\ b = "held" => a.outcome = "report"

\* Who has a directory: its maker by the index, then its owner by its own lock.
DirsOK ==
  /\ \A p \in Proc : mode[p] = "reaping" => index = p
  /\ \A l \in Lease : att[l].pc = "making" => l \in dirs /\ index = att[l].proc
  /\ \A l, m \in Lease : att[l].pc = "making" /\ att[m].pc = "making" => l = m
  /\ \A l \in Lease :
       att[l].pc \in {"held", "leaving"} => l \in dirs /\ locked[l] = att[l].proc

\* A lease is the loop's, or one attempt's; and an attempt lives in a process.
LeasesOK ==
  /\ \A p \in Proc : \A l \in got[p] : att[l].pc = "none" /\ board[l] # "unused"
  /\ \A p, q \in Proc : p # q => got[p] \cap got[q] = {}
  /\ \A l \in Lease : Live(l) => mode[att[l].proc] \in {"accepting", "stopping"}

PermitsOK == PermitsAddUp /\ \A p \in Proc : IsFiniteSet(Running(p))

RunnerInv ==
  /\ RunnerTypeOK
  /\ \A l \in Lease : AttemptOK(att[l], board[l])
  /\ DirsOK
  /\ LeasesOK
  /\ PermitsOK

------------------------------------------------------------------------------
(* The permits, and steps of an attempt that move neither its directory nor *)
(* its process                                                              *)

\* The permit in the loop's hand.
InHand(p) == IF loop[p] \in {"permit", "claiming"} THEN 1 ELSE 0

\* With the same attempts, a loop that takes a permit or puts it back keeps the sum.
LEMMA PermitsStay ==
  ASSUME RunnerInv, RunnerTypeOK',
         \A p \in Proc : Running(p)' = Running(p),
         \A p \in Proc : mode'[p] \in {"accepting", "stopping"} =>
           /\ mode[p] \in {"accepting", "stopping"}
           /\ free'[p] + InHand(p)' = free[p] + InHand(p)
  PROVE  PermitsOK'
<1>1. \A p \in Proc : IsFiniteSet(Running(p)')
  BY DEF RunnerInv, PermitsOK
<1>2. ASSUME NEW p \in Proc, mode'[p] \in {"accepting", "stopping"}
      PROVE  free'[p] + Cardinality(Running(p)') + InHand(p)' = Slots
  <2>1. Cardinality(Running(p)) \in Nat /\ Slots \in Nat
    BY FS_CardinalityType, RunnerConstants DEF RunnerInv, PermitsOK
  <2>2. free[p] \in Nat /\ free'[p] \in Nat /\ InHand(p) \in Nat /\ InHand(p)' \in Nat
    BY DEF RunnerInv, RunnerTypeOK, InHand
  <2>3. free[p] + Cardinality(Running(p)) + InHand(p) = Slots
    BY <1>2 DEF RunnerInv, PermitsOK, PermitsAddUp, InHand
  <2>4. Running(p)' = Running(p)
    OBVIOUS
  <2>5. free'[p] + InHand(p)' = free[p] + InHand(p)
    BY <1>2
  <2> QED
    BY <2>1, <2>2, <2>3, <2>4, <2>5
<1>3. PermitsAddUp'
  BY <1>2 DEF PermitsAddUp, InHand
<1> QED
  BY <1>1, <1>3 DEF PermitsOK

\* A row of the same attempt, that at most begins to leave.
QuietRow(a, r) ==
  /\ r \in AttemptRow /\ r.proc = a.proc
  /\ r.pc = a.pc \/ (a.pc = "held" /\ r.pc = "leaving")

\* What the types say of one attempt.
LEMMA AttemptTypes ==
  ASSUME RunnerInv, NEW l \in Lease
  PROVE  att[l] \in AttemptRow /\ AttemptOK(att[l], board[l])
         /\ board[l] \in {"unused", "held", "lapsed", "complete", "fail"}
BY DEF RunnerInv, RunnerTypeOK

\* Attempts that keep their process and their place keep the permits, and the
\* directories, where they were.
LEMMA QuietKeeps ==
  ASSUME RunnerInv, RunnerTypeOK',
         UNCHANGED <<mode, free, got, index, dirs, locked>>,
         \A p \in Proc : InHand(p)' = InHand(p),
         \A l \in Lease : QuietRow(att[l], att'[l]),
         \A l \in Lease : board[l] # "unused" => board'[l] # "unused"
  PROVE  DirsOK' /\ LeasesOK' /\ PermitsOK'
<1>1. \A l \in Lease : /\ att'[l].proc = att[l].proc
                       /\ \/ att'[l].pc = att[l].pc
                          \/ att[l].pc = "held" /\ att'[l].pc = "leaving"
  BY DEF QuietRow
<1>2. \A l \in Lease : Live(l)' <=> Live(l)
  BY <1>1 DEF Live
<1>3. \A p \in Proc : Running(p)' = Running(p)
  BY <1>1, <1>2 DEF Running
<1>4. DirsOK'
  BY <1>1 DEF RunnerInv, DirsOK
<1>5. LeasesOK'
  <2>1. \A p \in Proc : \A l \in got'[p] : att'[l].pc = "none" /\ board'[l] # "unused"
    BY <1>1 DEF RunnerInv, RunnerTypeOK, LeasesOK
  <2>2. \A p, q \in Proc : p # q => got'[p] \cap got'[q] = {}
    BY DEF RunnerInv, LeasesOK
  <2>3. \A l \in Lease : Live(l)' => mode'[att'[l].proc] \in {"accepting", "stopping"}
    BY <1>1, <1>2 DEF RunnerInv, LeasesOK
  <2> QED
    BY <2>1, <2>2, <2>3 DEF LeasesOK
<1>6. PermitsOK'
  BY <1>3, PermitsStay
<1> QED
  BY <1>4, <1>5, <1>6

\* So one attempt that goes on, and knows what is true, keeps the invariant.
LEMMA QuietStep ==
  ASSUME RunnerInv, NEW l \in Lease, NEW r, Set(l, r),
         QuietRow(att[l], r), AttemptOK(r, board[l]),
         UNCHANGED <<procVars, diskVars, board, crashes>>,
         net' \subseteq [lease : Lease, kind : {"complete", "fail"}]
  PROVE  RunnerInv'
<1>1. att' = [att EXCEPT ![l] = r] /\ r \in AttemptRow
  BY DEF Set, QuietRow
<1>2. RunnerTypeOK'
  BY <1>1 DEF RunnerInv, RunnerTypeOK, procVars, diskVars
<1>3. \A m \in Lease : att'[m] = IF m = l THEN r ELSE att[m]
  BY <1>1 DEF RunnerInv, RunnerTypeOK
<1>4. \A m \in Lease : QuietRow(att[m], att'[m])
  BY <1>3, AttemptTypes DEF QuietRow
<1>5. \A m \in Lease : AttemptOK(att'[m], board'[m])
  BY <1>3, AttemptTypes
<1>6. DirsOK' /\ LeasesOK' /\ PermitsOK'
  BY <1>2, <1>4, QuietKeeps DEF procVars, diskVars, InHand
<1> QED
  BY <1>2, <1>5, <1>6 DEF RunnerInv

\* A thread starts only while its operation is supervised.
LEMMA ThreadSteps ==
  ASSUME RunnerInv, NEW l \in Lease, ThreadStarts(l) \/ ThreadEnds(l)
  PROVE  RunnerInv'
<1>1. PICK on \in BOOLEAN :
        /\ Set(l, [att[l] EXCEPT !.thread = on])
        /\ UNCHANGED <<procVars, diskVars, netVars, crashes>>
        /\ on => att[l].pc = "held"
  BY DEF ThreadStarts, ThreadEnds, Supervised
<1> DEFINE r == [att[l] EXCEPT !.thread = on]
<1>2. QuietRow(att[l], r)
  BY AttemptTypes DEF QuietRow, AttemptRow
<1>3. AttemptOK(r, board[l])
  BY <1>1, AttemptTypes DEF AttemptOK, AttemptRow
<1>4. net' \subseteq [lease : Lease, kind : {"complete", "fail"}] /\ UNCHANGED board
  BY <1>1 DEF RunnerInv, RunnerTypeOK, netVars
<1> QED
  BY <1>1, <1>2, <1>3, <1>4, QuietStep

\* An operation that goes from one step of the work to the next, or ends.
LEMMA OperationSteps ==
  ASSUME RunnerInv, NEW l \in Lease,
         \/ \E op \in OpEnds, o \in {"none", "views", "failed", "bare"} : WorkEnds(l, op, o)
         \/ BeginUploads(l)
         \/ \E op \in {"archiving", "error"} : Packed(l, op)
  PROVE  RunnerInv'
<1>1. PICK op \in Op, o \in {"none", "views", "failed", "bare", "report"} :
        /\ Set(l, [att[l] EXCEPT !.op = op, !.outcome = o])
        /\ att[l].pc = "held"
        /\ UNCHANGED <<procVars, diskVars, netVars, crashes>>
        /\ \/ att[l].op = "working" /\ op \in {"ok", "error", "lost"}
              /\ (op = "lost" => board[l] # "held")
           \/ att[l].op = "finishing" /\ op = "uploading" /\ o = "views"
           \/ att[l].op = "packing" /\ op \in {"archiving", "error"} /\ o = att[l].outcome
  <2>1. CASE \E op \in OpEnds, o \in {"none", "views", "failed", "bare"} : WorkEnds(l, op, o)
    BY <2>1 DEF WorkEnds, OpEnds, Op
  <2>2. CASE BeginUploads(l)
    <3>1. att[l].outcome = "views" /\ att[l].outcome \in {"none", "views", "failed", "bare", "report"}
      BY <2>2 DEF BeginUploads
    <3>2. [att[l] EXCEPT !.op = "uploading", !.outcome = att[l].outcome]
            = [att[l] EXCEPT !.op = "uploading"]
      BY AttemptTypes DEF AttemptRow
    <3> QED
      BY <2>2, <3>1, <3>2 DEF BeginUploads, Op
  <2>3. CASE \E op \in {"archiving", "error"} : Packed(l, op)
    <3>1. PICK op \in {"archiving", "error"} : Packed(l, op)
      BY <2>3
    <3>2. att[l].outcome \in {"none", "views", "failed", "bare", "report"}
      BY AttemptTypes DEF AttemptRow
    <3>3. [att[l] EXCEPT !.op = op, !.outcome = att[l].outcome] = [att[l] EXCEPT !.op = op]
      BY AttemptTypes DEF AttemptRow
    <3> QED
      BY <3>1, <3>2, <3>3 DEF Packed, Op
  <2> QED
    BY <2>1, <2>2, <2>3
<1> DEFINE r == [att[l] EXCEPT !.op = op, !.outcome = o]
<1>2. att[l] \in AttemptRow /\ AttemptOK(att[l], board[l])
  BY AttemptTypes
<1>3. QuietRow(att[l], r)
  BY <1>2 DEF QuietRow, AttemptRow
<1>4. AttemptOK(r, board[l])
  BY <1>1, <1>2 DEF AttemptOK, AttemptRow, KindOf
<1>5. net' \subseteq [lease : Lease, kind : {"complete", "fail"}] /\ UNCHANGED board
  BY <1>1 DEF RunnerInv, RunnerTypeOK, netVars
<1> HIDE DEF r
<1> QED
  BY <1>1, <1>3, <1>4, <1>5, QuietStep DEF r

\* A PUT is tried again, or the operation goes on, or it ends.
LEMMA UploadSteps ==
  ASSUME RunnerInv, NEW l \in Lease,
         NEW op \in OpEnds \cup {"uploading", "packing", "archiving", "sending", "timeout"},
         UploadStep(l, op)
  PROVE  RunnerInv'
<1>1. PICK tries \in Nat :
        /\ Set(l, [att[l] EXCEPT !.op = op, !.tries = tries])
        /\ UNCHANGED <<procVars, diskVars, netVars, crashes>>
  <2>1. att[l].tries \in Nat /\ att[l].tries + 1 \in Nat /\ 0 \in Nat
    BY AttemptTypes DEF AttemptRow
  <2>2. CASE op = att[l].op
    BY <2>1, <2>2 DEF UploadStep
  <2>3. CASE op # att[l].op
    BY <2>1, <2>3 DEF UploadStep
  <2> QED
    BY <2>2, <2>3
<1>2. /\ att[l].pc = "held" /\ att[l].op \in {"uploading", "archiving"}
      /\ op \in {"uploading", "archiving", "packing", "sending", "error", "timeout", "lost"}
      /\ op = "lost" => board[l] # "held"
  BY DEF UploadStep, AfterUpload
<1> DEFINE r == [att[l] EXCEPT !.op = op, !.tries = tries]
<1>3. att[l] \in AttemptRow /\ AttemptOK(att[l], board[l])
  BY AttemptTypes
<1>4. QuietRow(att[l], r)
  BY <1>2, <1>3 DEF QuietRow, AttemptRow, Op
<1>5. AttemptOK(r, board[l])
  BY <1>2, <1>3 DEF AttemptOK, AttemptRow, KindOf
<1>6. net' \subseteq [lease : Lease, kind : {"complete", "fail"}] /\ UNCHANGED board
  BY <1>1 DEF RunnerInv, RunnerTypeOK, netVars
<1> HIDE DEF r
<1> QED
  BY <1>1, <1>4, <1>5, <1>6, QuietStep DEF r

\* A terminal call of the kind the outcome calls for.
LEMMA SendSteps ==
  ASSUME RunnerInv, NEW l \in Lease, SendComplete(l) \/ SendFailed(l)
  PROVE  RunnerInv'
<1>1. att[l] \in AttemptRow /\ AttemptOK(att[l], board[l])
  BY AttemptTypes
<1>2. PICK kind \in {"complete", "fail"} :
        /\ att[l].pc = "held" /\ att[l].phase = "publishing" /\ kind = KindOf(att[l].outcome)
        /\ Send(l, kind)
  <2>1. CASE SendComplete(l)
    BY <1>1, <2>1 DEF SendComplete, AttemptOK, KindOf
  <2>2. CASE SendFailed(l)
    BY <1>1, <2>2 DEF SendFailed, AttemptOK, KindOf
  <2> QED
    BY <2>1, <2>2
<1> DEFINE r == [att[l] EXCEPT !.op = "calling", !.call = kind]
<1>3. QuietRow(att[l], r)
  <2>1. r \in AttemptRow
    <3>1. "calling" \in Op
      BY DEF Op
    <3> QED
      BY <1>1, <3>1 DEF AttemptRow
  <2>2. r.proc = att[l].proc /\ r.pc = att[l].pc
    BY <1>1 DEF AttemptRow
  <2> QED
    BY <2>1, <2>2 DEF QuietRow
<1>4. AttemptOK(r, board[l])
  BY <1>1, <1>2 DEF AttemptOK, AttemptRow
<1>5. /\ Set(l, r) /\ UNCHANGED <<procVars, diskVars, board, crashes>>
      /\ net' = net \cup {[lease |-> l, kind |-> kind]}
  BY <1>2 DEF Send
<1>6. net' \subseteq [lease : Lease, kind : {"complete", "fail"}]
  BY <1>5 DEF RunnerInv, RunnerTypeOK
<1> HIDE DEF r
<1> QED
  BY <1>3, <1>4, <1>5, <1>6, QuietStep

\* The answer to a terminal call, or an error in its place.
LEMMA AnswerSteps ==
  ASSUME RunnerInv, NEW l \in Lease, NEW op \in OpEnds, CallEnds(l, op)
  PROVE  RunnerInv'
<1>1. att[l] \in AttemptRow /\ AttemptOK(att[l], board[l])
  BY AttemptTypes
<1>2. /\ Set(l, [att[l] EXCEPT !.op = op, !.call = "none"])
      /\ UNCHANGED <<procVars, diskVars, netVars, crashes>>
      /\ att[l].pc = "held" /\ att[l].op = "calling"
      /\ \/ op = "ok" /\ att[l].call = "taken"
         \/ op = "lost" /\ att[l].call = "refused"
         \/ op = "error"
  BY DEF CallEnds
<1> DEFINE r == [att[l] EXCEPT !.op = op, !.call = "none"]
<1>3. QuietRow(att[l], r)
  <2>1. r \in AttemptRow
    <3>1. op \in Op
      BY DEF Op, OpEnds
    <3> QED
      BY <1>1, <3>1 DEF AttemptRow
  <2>2. r.proc = att[l].proc /\ r.pc = att[l].pc
    BY <1>1 DEF AttemptRow
  <2> QED
    BY <2>1, <2>2 DEF QuietRow
<1>4. AttemptOK(r, board[l])
  BY <1>1, <1>2 DEF AttemptOK, AttemptRow
<1>5. net' \subseteq [lease : Lease, kind : {"complete", "fail"}] /\ UNCHANGED board
  BY <1>2 DEF RunnerInv, RunnerTypeOK, netVars
<1> HIDE DEF r
<1> QED
  BY <1>2, <1>3, <1>4, <1>5, QuietStep DEF r

\* The heartbeat meets a lease that is over; the deadline passes.
LEMMA WatchSteps ==
  ASSUME RunnerInv, NEW l \in Lease, HeartbeatLost(l) \/ DeadlinePasses(l)
  PROVE  RunnerInv'
<1>1. att[l] \in AttemptRow /\ AttemptOK(att[l], board[l])
  BY AttemptTypes
<1>2. PICK r : /\ \/ /\ r = [att[l] EXCEPT !.forward = "lost"]
                     /\ att[l].forward = "running" /\ board[l] # "held"
                  \/ r = [att[l] EXCEPT !.late = TRUE]
               /\ Set(l, r)
               /\ UNCHANGED <<procVars, diskVars, netVars, crashes>>
  BY DEF HeartbeatLost, DeadlinePasses
<1>3. QuietRow(att[l], r)
  <2>1. r \in AttemptRow
    <3>1. CASE r = [att[l] EXCEPT !.forward = "lost"]
      BY <1>1, <3>1 DEF AttemptRow
    <3>2. CASE r = [att[l] EXCEPT !.late = TRUE]
      BY <1>1, <3>2 DEF AttemptRow
    <3> QED
      BY <1>2, <3>1, <3>2
  <2>2. r.proc = att[l].proc /\ r.pc = att[l].pc
    BY <1>1, <1>2 DEF AttemptRow
  <2> QED
    BY <2>1, <2>2 DEF QuietRow
<1>4. AttemptOK(r, board[l])
  BY <1>1, <1>2 DEF AttemptOK, AttemptRow
<1>5. net' \subseteq [lease : Lease, kind : {"complete", "fail"}] /\ UNCHANGED board
  BY <1>2 DEF RunnerInv, RunnerTypeOK, netVars
<1> QED
  BY <1>2, <1>3, <1>4, <1>5, QuietStep

\* An attempt that begins to leave has nothing under way.
LEMMA LeaveRow ==
  ASSUME NEW a \in AttemptRow, NEW phase \in {"done", "failed"}
  PROVE  LET r == Leave(a, phase)
         IN  /\ r \in AttemptRow /\ r.proc = a.proc /\ r.pc = "leaving" /\ r.phase = phase
             /\ r.op = "idle" /\ r.call = "none" /\ r.forward = "off"
             /\ r.outcome = a.outcome /\ (r.cancelled <=> a.cancelled)
<1>1. "idle" \in Op /\ 0 \in Nat
  BY DEF Op
<1>2. Leave(a, phase) \in AttemptRow
  BY <1>1 DEF Leave, AttemptRow
<1> QED
  BY <1>2 DEF Leave, AttemptRow

\* What while_held starts: the operation, unless the lease or the time is over.
LEMMA StartRow ==
  ASSUME NEW a \in AttemptRow, NEW op \in {"working", "finishing", "reporting"}
  PROVE  LET r == StartHeld(a, op)
         IN  /\ r \in AttemptRow /\ r.proc = a.proc /\ r.pc = a.pc /\ r.phase = a.phase
             /\ r.op \in {op, "lost", "timeout"} /\ (r.op = "lost" => a.forward = "lost")
             /\ r.call = a.call /\ r.forward = a.forward /\ r.outcome = a.outcome
             /\ (r.cancelled <=> a.cancelled) /\ (r.thread <=> a.thread)
<1>1. PICK to \in {op, "lost", "timeout"} :
        StartHeld(a, op) = [a EXCEPT !.op = to] /\ (to = "lost" => a.forward = "lost")
  BY DEF StartHeld
<1>2. to \in Op
  BY DEF Op
<1>3. [a EXCEPT !.op = to] \in AttemptRow
  BY <1>2 DEF AttemptRow
<1>4. LET r == [a EXCEPT !.op = to]
      IN  /\ r.proc = a.proc /\ r.pc = a.pc /\ r.phase = a.phase /\ r.op = to
          /\ r.call = a.call /\ r.forward = a.forward /\ r.outcome = a.outcome
          /\ (r.cancelled <=> a.cancelled) /\ (r.thread <=> a.thread)
  BY DEF AttemptRow
<1> QED
  BY <1>1, <1>3, <1>4

\* An attempt leaves knowing what it must of its lease.
LEMMA LeavingIsOK ==
  ASSUME RunnerInv, NEW l \in Lease, NEW phase \in {"done", "failed"},
         att[l].pc = "held",
         phase = "done" => board[l] = "complete",
         att[l].cancelled \/ board[l] # "held" \/ att[l].outcome = "report"
  PROVE  /\ QuietRow(att[l], Leave(att[l], phase))
         /\ AttemptOK(Leave(att[l], phase), board[l])
<1>1. att[l] \in AttemptRow /\ AttemptOK(att[l], board[l])
  BY AttemptTypes
<1> DEFINE r == Leave(att[l], phase)
<1>2. /\ r \in AttemptRow /\ r.proc = att[l].proc /\ r.pc = "leaving" /\ r.phase = phase
      /\ r.op = "idle" /\ r.call = "none" /\ r.forward = "off"
      /\ r.outcome = att[l].outcome /\ (r.cancelled <=> att[l].cancelled)
  BY <1>1, LeaveRow
<1> HIDE DEF r
<1>3. AttemptOK(r, board[l])
  BY <1>1, <1>2 DEF AttemptOK
<1>4. QuietRow(att[l], r)
  BY <1>2 DEF QuietRow
<1> QED
  BY <1>3, <1>4 DEF r

\* A cancelled attempt leaves.
LEMMA CancelledSteps ==
  ASSUME RunnerInv, NEW l \in Lease, Cancelled(l)
  PROVE  RunnerInv'
<1>1. /\ Set(l, Leave(att[l], "failed")) /\ att[l].pc = "held" /\ att[l].cancelled
      /\ UNCHANGED <<procVars, diskVars, netVars, crashes>>
  BY DEF Cancelled
<1>2. /\ QuietRow(att[l], Leave(att[l], "failed"))
      /\ AttemptOK(Leave(att[l], "failed"), board[l])
  BY <1>1, LeavingIsOK
<1>3. net' \subseteq [lease : Lease, kind : {"complete", "fail"}] /\ UNCHANGED board
  BY <1>1 DEF RunnerInv, RunnerTypeOK, netVars
<1> QED
  BY <1>1, <1>2, <1>3, QuietStep

\* The verdict of the supervisor, with what it may stand for.
LEMMA VerdictIsTrue ==
  ASSUME NEW a \in AttemptRow, NEW b, AttemptOK(a, b), a.pc = "held"
  PROVE  /\ Verdict(a) \in {"ok", "error", "timeout", "lost"}
         /\ Verdict(a) = "lost" => b # "held"
         /\ Verdict(a) = "ok" => a.op = "ok"
BY DEF Verdict, AckWins, Ended, AttemptOK

\* The supervisor goes on to the next step of the attempt, or reports, or leaves:
\* done only if the Worker has its completion, and otherwise only if the Worker has
\* ended the lease or was told of the failure.
LEMMA SupervisorSteps ==
  ASSUME RunnerInv, NEW l \in Lease, Supervise(l)
  PROVE  RunnerInv'
<1> DEFINE a == att[l]
           v == Verdict(a)
<1>1. /\ a.pc = "held" /\ ~a.cancelled
      /\ UNCHANGED <<procVars, diskVars, netVars, crashes>>
      /\ Set(l, CASE v = "lost" -> Leave(a, "failed")
                  [] v = "ok" /\ a.phase = "working"
                       -> StartHeld([a EXCEPT !.phase = "publishing"], "finishing")
                  [] v = "ok" /\ a.phase = "publishing"
                       -> Leave(a, IF a.outcome \in {"failed", "report"} THEN "failed" ELSE "done")
                  [] v \in {"error", "timeout"} /\ Reporting(a) -> Leave(a, "failed")
                  [] v \in {"error", "timeout"} /\ ~Reporting(a) -> Report(a))
  BY DEF Supervise
<1>2. a \in AttemptRow /\ AttemptOK(a, board[l]) /\ a.phase \in {"working", "publishing"}
  BY <1>1, AttemptTypes DEF AttemptOK
<1>3. /\ v \in {"ok", "error", "timeout", "lost"}
      /\ v = "lost" => board[l] # "held"
      /\ v = "ok" => a.op = "ok"
  BY <1>1, <1>2, VerdictIsTrue
<1>4. net' \subseteq [lease : Lease, kind : {"complete", "fail"}] /\ UNCHANGED board
      /\ UNCHANGED <<procVars, diskVars, crashes>>
  BY <1>1 DEF RunnerInv, RunnerTypeOK, netVars
<1> HIDE DEF v
<1>5. CASE v = "lost"
  <2>1. Set(l, Leave(a, "failed"))
    BY <1>1, <1>5
  <2>2. QuietRow(a, Leave(a, "failed")) /\ AttemptOK(Leave(a, "failed"), board[l])
    BY <1>1, <1>3, <1>5, LeavingIsOK
  <2> QED
    BY <1>4, <2>1, <2>2, QuietStep
<1>6. CASE v = "ok" /\ a.phase = "working"
  <2> DEFINE s == [a EXCEPT !.phase = "publishing"]
             r == StartHeld(s, "finishing")
  <2>1. Set(l, r)
    BY <1>1, <1>6
  <2>2. /\ s \in AttemptRow /\ s.proc = a.proc /\ s.pc = a.pc /\ s.phase = "publishing"
        /\ s.call = a.call /\ s.forward = a.forward /\ s.outcome = a.outcome
        /\ (s.cancelled <=> a.cancelled) /\ (s.thread <=> a.thread)
    BY <1>2 DEF AttemptRow
  <2> HIDE DEF s
  <2>3. /\ r \in AttemptRow /\ r.proc = s.proc /\ r.pc = s.pc /\ r.phase = s.phase
        /\ r.op \in {"finishing", "lost", "timeout"} /\ (r.op = "lost" => s.forward = "lost")
        /\ r.call = s.call /\ r.forward = s.forward /\ r.outcome = s.outcome
        /\ (r.cancelled <=> s.cancelled) /\ (r.thread <=> s.thread)
    BY <2>2, StartRow
  <2> HIDE DEF r
  <2>4. a.op = "ok"
    BY <1>3, <1>6
  <2>5. AttemptOK(r, board[l])
    BY <1>1, <1>2, <2>2, <2>3, <2>4 DEF AttemptOK
  <2>6. QuietRow(a, r)
    BY <2>2, <2>3 DEF QuietRow
  <2> QED
    BY <1>4, <2>1, <2>5, <2>6, QuietStep
<1>7. CASE v = "ok" /\ a.phase = "publishing"
  <2> DEFINE to == IF a.outcome \in {"failed", "report"} THEN "failed" ELSE "done"
  <2>1. Set(l, Leave(a, to))
    BY <1>1, <1>7
  <2>2. a.op = "ok" /\ board[l] = KindOf(a.outcome)
    BY <1>2, <1>3, <1>7 DEF AttemptOK
  <2>3. to \in {"done", "failed"} /\ (to = "done" => board[l] = "complete") /\ board[l] # "held"
    BY <2>2 DEF KindOf
  <2> HIDE DEF to
  <2>4. QuietRow(a, Leave(a, to)) /\ AttemptOK(Leave(a, to), board[l])
    BY <1>1, <2>3, LeavingIsOK
  <2> QED
    BY <1>4, <2>1, <2>4, QuietStep
<1>8. CASE v \in {"error", "timeout"} /\ Reporting(a)
  <2>1. Set(l, Leave(a, "failed"))
    BY <1>1, <1>8
  <2>2. QuietRow(a, Leave(a, "failed")) /\ AttemptOK(Leave(a, "failed"), board[l])
    BY <1>1, <1>8, LeavingIsOK DEF Reporting
  <2> QED
    BY <1>4, <2>1, <2>2, QuietStep
<1>9. CASE v \in {"error", "timeout"} /\ ~Reporting(a)
  <2> DEFINE s == [a EXCEPT !.phase = "publishing", !.outcome = "report", !.call = "none"]
             r == StartHeld(s, "reporting")
  <2>1. Set(l, r)
    BY <1>1, <1>9 DEF Report
  <2>2. /\ s \in AttemptRow /\ s.proc = a.proc /\ s.pc = a.pc /\ s.phase = "publishing"
        /\ s.call = "none" /\ s.forward = a.forward /\ s.outcome = "report"
        /\ (s.cancelled <=> a.cancelled) /\ (s.thread <=> a.thread)
    BY <1>2 DEF AttemptRow
  <2> HIDE DEF s
  <2>3. /\ r \in AttemptRow /\ r.proc = s.proc /\ r.pc = s.pc /\ r.phase = s.phase
        /\ r.op \in {"reporting", "lost", "timeout"} /\ (r.op = "lost" => s.forward = "lost")
        /\ r.call = s.call /\ r.forward = s.forward /\ r.outcome = s.outcome
        /\ (r.cancelled <=> s.cancelled) /\ (r.thread <=> s.thread)
    BY <2>2, StartRow
  <2> HIDE DEF r
  <2>4. AttemptOK(r, board[l])
    BY <1>1, <1>2, <2>2, <2>3 DEF AttemptOK
  <2>5. QuietRow(a, r)
    BY <2>2, <2>3 DEF QuietRow
  <2> QED
    BY <1>4, <2>1, <2>4, <2>5, QuietStep
<1> QED
  BY <1>2, <1>3, <1>5, <1>6, <1>7, <1>8, <1>9

\* The Worker takes a terminal call of a lease it has as held, or refuses it, or
\* lets the lease lapse; each way the attempt's knowledge stays true.
LEMMA WorkerSteps ==
  ASSUME RunnerInv, (\E c \in net : CallArrives(c)) \/ (\E l \in Lease : Lapse(l))
  PROVE  RunnerInv'
<1>1. CASE \E c \in net : CallArrives(c)
  <2>1. PICK c \in net : CallArrives(c)
    BY <1>1
  <2> DEFINE taken == board[c.lease] = "held"
             a == att[c.lease]
             call == IF a.call = c.kind THEN IF taken THEN "taken" ELSE "refused" ELSE a.call
  <2>2. c.lease \in Lease /\ c.kind \in {"complete", "fail"}
    BY DEF RunnerInv, RunnerTypeOK
  <2>3. /\ att' = [att EXCEPT ![c.lease] = [a EXCEPT !.call = call]]
        /\ board' = IF taken THEN [board EXCEPT ![c.lease] = c.kind] ELSE board
        /\ net' = net \ {c} /\ UNCHANGED <<procVars, diskVars, crashes>>
    BY <2>1 DEF CallArrives
  <2>4. a \in AttemptRow /\ AttemptOK(a, board[c.lease])
    BY <2>2, AttemptTypes
  <2>5. [a EXCEPT !.call = call] \in AttemptRow
    BY <2>4 DEF AttemptRow
  <2>6. RunnerTypeOK'
    BY <2>2, <2>3, <2>5 DEF RunnerInv, RunnerTypeOK, procVars, diskVars
  <2>7. att'[c.lease] = [a EXCEPT !.call = call]
        /\ \A l \in Lease : l # c.lease => att'[l] = att[l] /\ board'[l] = board[l]
    BY <2>2, <2>3 DEF RunnerInv, RunnerTypeOK
  <2>8. board'[c.lease] = IF taken THEN c.kind ELSE board[c.lease]
    BY <2>2, <2>3 DEF RunnerInv, RunnerTypeOK
  <2>9. AttemptOK([a EXCEPT !.call = call], board'[c.lease])
    BY <2>2, <2>4, <2>8 DEF AttemptOK, AttemptRow, KindOf
  <2>10. \A l \in Lease : AttemptOK(att'[l], board'[l])
    BY <2>7, <2>9, AttemptTypes
  <2>11. \A l \in Lease : QuietRow(att[l], att'[l])
    BY <2>4, <2>5, <2>7, AttemptTypes DEF QuietRow, AttemptRow
  <2>12. \A l \in Lease : board[l] # "unused" => board'[l] # "unused"
    BY <2>2, <2>7, <2>8
  <2>13. DirsOK' /\ LeasesOK' /\ PermitsOK'
    BY <2>3, <2>6, <2>11, <2>12, QuietKeeps DEF procVars, diskVars, InHand
  <2> QED
    BY <2>6, <2>10, <2>13 DEF RunnerInv
<1>2. CASE \E l \in Lease : Lapse(l)
  <2>1. PICK l \in Lease : /\ board[l] = "held" /\ board' = [board EXCEPT ![l] = "lapsed"]
                           /\ UNCHANGED <<procVars, diskVars, net, att, crashes>>
    BY <1>2 DEF Lapse
  <2>2. RunnerTypeOK'
    BY <2>1 DEF RunnerInv, RunnerTypeOK, procVars, diskVars
  <2>3. \A m \in Lease : board'[m] = IF m = l THEN "lapsed" ELSE board[m]
    BY <2>1 DEF RunnerInv, RunnerTypeOK
  <2>4. \A m \in Lease : AttemptOK(att'[m], board'[m])
    <3>1. AttemptOK(att[l], "lapsed")
      <4>1. AttemptOK(att[l], "held")
        BY <2>1, AttemptTypes
      <4> QED
        BY <4>1 DEF AttemptOK, KindOf
    <3> QED
      BY <2>1, <2>3, <3>1, AttemptTypes
  <2>5. \A m \in Lease : QuietRow(att[m], att'[m])
    BY <2>1, AttemptTypes DEF QuietRow
  <2>6. \A m \in Lease : board[m] # "unused" => board'[m] # "unused"
    BY <2>3
  <2>7. DirsOK' /\ LeasesOK' /\ PermitsOK'
    BY <2>1, <2>2, <2>5, <2>6, QuietKeeps DEF procVars, diskVars, InHand
  <2> QED
    BY <2>2, <2>4, <2>7 DEF RunnerInv
<1> QED
  BY <1>1, <1>2

------------------------------------------------------------------------------
(* The claim loop *)

\* A step of the loop that touches no attempt keeps the invariant.
LEMMA LoopKeeps ==
  ASSUME RunnerInv, RunnerTypeOK',
         UNCHANGED <<att, board, index, dirs, locked>>,
         \A q \in Proc : got'[q] \subseteq got[q],
         \A q \in Proc :
           mode'[q] = mode[q] \/ (mode[q] = "accepting" /\ mode'[q] = "stopping"),
         \A q \in Proc : free'[q] + InHand(q)' = free[q] + InHand(q)
  PROVE  RunnerInv'
<1>1. \A l \in Lease : AttemptOK(att'[l], board'[l])
  BY AttemptTypes
<1>2. DirsOK'
  BY DEF RunnerInv, DirsOK
<1>3. LeasesOK'
  <2>1. \A l \in Lease : Live(l)' <=> Live(l)
    BY DEF Live
  <2>2. \A p \in Proc : \A l \in got'[p] : att'[l].pc = "none" /\ board'[l] # "unused"
    BY DEF RunnerInv, LeasesOK
  <2>3. \A p, q \in Proc : p # q => got'[p] \cap got'[q] = {}
    BY DEF RunnerInv, LeasesOK
  <2>4. \A l \in Lease : Live(l)' => mode'[att'[l].proc] \in {"accepting", "stopping"}
    <3>1. \A l \in Lease : Live(l) => att[l].proc \in Proc
      BY AttemptTypes DEF Live, AttemptOK
    <3> QED
      BY <2>1, <3>1 DEF RunnerInv, LeasesOK
  <2> QED
    BY <2>2, <2>3, <2>4 DEF LeasesOK
<1>4. \A p \in Proc : Running(p)' = Running(p)
  BY DEF Running, Live
<1>5. PermitsOK'
  BY <1>4, PermitsStay
<1> QED
  BY <1>1, <1>2, <1>3, <1>5 DEF RunnerInv

\* The steps of the loop between attempts, and the signal.
LEMMA LoopSteps ==
  ASSUME RunnerInv, NEW p \in Proc,
         \/ StopSignal(p) \/ TakePermit(p) \/ AskForTask(p) \/ QuitWithPermit(p)
         \/ QuitWithout(p) \/ ClaimFails(p) \/ NothingToDo(p)
  PROVE  RunnerInv'
<1>1. /\ mode \in [Proc -> {"down", "reaping", "accepting", "stopping", "stopped"}]
      /\ loop \in [Proc -> {"off", "top", "permit", "claiming", "exit", "joining"}]
      /\ free \in [Proc -> Nat] /\ got \in [Proc -> SUBSET Lease]
  BY DEF RunnerInv, RunnerTypeOK
<1>2. UNCHANGED <<att, diskVars, netVars, crashes>>
  BY DEF StopSignal, TakePermit, AskForTask, QuitWithPermit, QuitWithout, ClaimFails,
         NothingToDo
<1>3. CASE StopSignal(p)
  <2>1. /\ mode[p] = "accepting" /\ mode' = [mode EXCEPT ![p] = "stopping"]
        /\ UNCHANGED <<loop, free, got>>
    BY <1>3 DEF StopSignal
  <2>2. RunnerTypeOK'
    BY <1>1, <1>2, <2>1 DEF RunnerInv, RunnerTypeOK, diskVars, netVars
  <2>3. \A q \in Proc : mode'[q] = mode[q] \/ (mode[q] = "accepting" /\ mode'[q] = "stopping")
    BY <1>1, <2>1
  <2>4. \A q \in Proc : free'[q] + InHand(q)' = free[q] + InHand(q)
    BY <2>1 DEF InHand
  <2> QED
    BY <1>2, <2>1, <2>2, <2>3, <2>4, LoopKeeps DEF diskVars, netVars
<1>4. CASE ~StopSignal(p)
  <2>1. /\ mode' = mode
        /\ \E to \in {"top", "permit", "claiming", "exit"} : loop' = [loop EXCEPT ![p] = to]
        /\ got' = got \/ got' = [got EXCEPT ![p] = {}]
        /\ \/ free' = free \/ free' = [free EXCEPT ![p] = @ + 1]
           \/ free[p] > 0 /\ free' = [free EXCEPT ![p] = @ - 1]
    BY <1>4 DEF TakePermit, AskForTask, QuitWithPermit, QuitWithout, ClaimFails, NothingToDo
  <2>2. /\ loop' \in [Proc -> {"off", "top", "permit", "claiming", "exit", "joining"}]
        /\ free' \in [Proc -> Nat] /\ got' \in [Proc -> SUBSET Lease]
        /\ \A q \in Proc : got'[q] \subseteq got[q]
    BY <1>1, <2>1
  <2>3. RunnerTypeOK'
    BY <1>1, <1>2, <2>1, <2>2 DEF RunnerInv, RunnerTypeOK, diskVars, netVars
  <2>4. \A q \in Proc : q # p => free'[q] = free[q] /\ loop'[q] = loop[q]
    BY <1>1, <2>1
  <2>5. free'[p] + InHand(p)' = free[p] + InHand(p)
    BY <1>1, <1>4 DEF InHand, TakePermit, AskForTask, QuitWithPermit, QuitWithout,
                      ClaimFails, NothingToDo
  <2>6. \A q \in Proc : free'[q] + InHand(q)' = free[q] + InHand(q)
    BY <2>4, <2>5 DEF InHand
  <2> QED
    BY <1>2, <2>1, <2>2, <2>3, <2>6, LoopKeeps DEF diskVars, netVars
<1> QED
  BY <1>3, <1>4

\* The loop is answered with a lease, that nobody had before.
LEMMA ClaimSteps ==
  ASSUME RunnerInv, NEW p \in Proc, NEW l \in Lease, Claim(p, l)
  PROVE  RunnerInv'
<1>1. /\ board[l] = "unused" /\ board' = [board EXCEPT ![l] = "held"]
      /\ got' = [got EXCEPT ![p] = {l}]
      /\ UNCHANGED <<mode, loop, free, diskVars, net, att, crashes>>
  BY DEF Claim
<1>2. RunnerTypeOK'
  BY <1>1 DEF RunnerInv, RunnerTypeOK, diskVars
<1>3. /\ \A m \in Lease : board'[m] = IF m = l THEN "held" ELSE board[m]
      /\ \A q \in Proc : got'[q] = IF q = p THEN {l} ELSE got[q]
  BY <1>1 DEF RunnerInv, RunnerTypeOK
<1>4. att[l].pc = "none"
  BY <1>1, AttemptTypes DEF AttemptOK
<1>5. \A m \in Lease : AttemptOK(att'[m], board'[m])
  <2>1. AttemptOK(att[l], "held")
    <3>1. AttemptOK(att[l], "unused")
      BY <1>1, AttemptTypes
    <3> QED
      BY <1>4, <3>1 DEF AttemptOK, KindOf
  <2> QED
    BY <1>1, <1>3, <2>1, AttemptTypes
<1>6. DirsOK'
  BY <1>1 DEF RunnerInv, DirsOK, diskVars
<1>7. LeasesOK'
  <2>1. \A q \in Proc : l \notin got[q]
    BY <1>1 DEF RunnerInv, LeasesOK
  <2>2. \A q \in Proc : \A m \in got'[q] : att'[m].pc = "none" /\ board'[m] # "unused"
    BY <1>1, <1>3, <1>4 DEF RunnerInv, RunnerTypeOK, LeasesOK
  <2>3. \A q, r \in Proc : q # r => got'[q] \cap got'[r] = {}
    BY <1>3, <2>1 DEF RunnerInv, LeasesOK
  <2>4. \A m \in Lease : Live(m)' => mode'[att'[m].proc] \in {"accepting", "stopping"}
    BY <1>1 DEF RunnerInv, LeasesOK, Live
  <2> QED
    BY <2>2, <2>3, <2>4 DEF LeasesOK
<1>8. PermitsOK'
  BY <1>1, <1>2, PermitsStay DEF Running, Live, InHand
<1> QED
  BY <1>2, <1>5, <1>6, <1>7, <1>8 DEF RunnerInv

\* The permit in the loop's hand becomes the attempt's.
LEMMA SpawnSteps ==
  ASSUME RunnerInv, NEW p \in Proc, NEW l \in Lease, Spawn(p, l)
  PROVE  RunnerInv'
<1> DEFINE r == [NoAttempt EXCEPT !.proc = p, !.pc = "spawned"]
<1>1. /\ loop[p] = "claiming" /\ mode[p] = "accepting" /\ l \in got[p]
      /\ att' = [att EXCEPT ![l] = r] /\ got' = [got EXCEPT ![p] = {}]
      /\ loop' = [loop EXCEPT ![p] = "top"]
      /\ UNCHANGED <<mode, free, diskVars, netVars, crashes>>
  BY DEF Spawn
<1>2. r \in AttemptRow /\ r.proc = p /\ r.pc = "spawned" /\ r.phase = "claimed"
      /\ r.op = "idle" /\ r.call = "none" /\ r.forward = "off" /\ ~r.thread
  BY DEF NoAttempt, AttemptRow, Op
<1> HIDE DEF r
<1>3. RunnerTypeOK'
  BY <1>1, <1>2 DEF RunnerInv, RunnerTypeOK, diskVars, netVars
<1>4. /\ \A m \in Lease : att'[m] = IF m = l THEN r ELSE att[m]
      /\ \A q \in Proc : got'[q] = IF q = p THEN {} ELSE got[q]
      /\ \A q \in Proc : loop'[q] = IF q = p THEN "top" ELSE loop[q]
  BY <1>1 DEF RunnerInv, RunnerTypeOK
<1>5. att[l].pc = "none" /\ board[l] # "unused"
  BY <1>1 DEF RunnerInv, LeasesOK
<1>6. \A m \in Lease : AttemptOK(att'[m], board'[m])
  <2>1. AttemptOK(r, board[l])
    BY <1>2, <1>5 DEF AttemptOK
  <2> QED
    BY <1>1, <1>4, <2>1, AttemptTypes DEF netVars
<1>7. DirsOK'
  BY <1>1, <1>2, <1>4 DEF RunnerInv, DirsOK, diskVars
<1>8. LeasesOK'
  <2>1. \A q \in Proc : q # p => l \notin got[q]
    BY <1>1 DEF RunnerInv, LeasesOK
  <2>2. \A q \in Proc : \A m \in got'[q] : att'[m].pc = "none" /\ board'[m] # "unused"
    BY <1>1, <1>4, <2>1 DEF RunnerInv, RunnerTypeOK, LeasesOK, netVars
  <2>3. \A q, s \in Proc : q # s => got'[q] \cap got'[s] = {}
    BY <1>4 DEF RunnerInv, LeasesOK
  <2>4. \A m \in Lease : Live(m)' => mode'[att'[m].proc] \in {"accepting", "stopping"}
    BY <1>1, <1>2, <1>4 DEF RunnerInv, LeasesOK, Live
  <2> QED
    BY <2>2, <2>3, <2>4 DEF LeasesOK
<1>9. PermitsOK'
  <2>1. /\ Running(p)' = Running(p) \cup {l} /\ l \notin Running(p)
        /\ \A q \in Proc : q # p => Running(q)' = Running(q)
    BY <1>2, <1>4, <1>5 DEF Running, Live
  <2>2. IsFiniteSet(Running(p))
    BY DEF RunnerInv, PermitsOK
  <2>3. IsFiniteSet(Running(p)') /\ Cardinality(Running(p)') = Cardinality(Running(p)) + 1
    BY <2>1, <2>2, FS_AddElement
  <2>4. Cardinality(Running(p)) \in Nat /\ free[p] \in Nat /\ Slots \in Nat
    BY <2>2, FS_CardinalityType, RunnerConstants DEF RunnerInv, RunnerTypeOK
  <2>5. \A q \in Proc : IsFiniteSet(Running(q)')
    BY <2>1, <2>3 DEF RunnerInv, PermitsOK
  <2>6. free[p] + Cardinality(Running(p)) + 1 = Slots
    BY <1>1 DEF RunnerInv, PermitsOK, PermitsAddUp
  <2>7. free'[p] + Cardinality(Running(p)') + 0 = Slots
    BY <1>1, <2>3, <2>4, <2>6
  <2>8. PermitsAddUp'
    BY <1>1, <1>4, <2>1, <2>7 DEF RunnerInv, PermitsOK, PermitsAddUp
  <2> QED
    BY <2>5, <2>8 DEF PermitsOK
<1> QED
  BY <1>3, <1>6, <1>7, <1>8, <1>9 DEF RunnerInv

\* Cancelling asks nothing of an attempt but to end.
LEMMA CancelSteps ==
  ASSUME RunnerInv, NEW p \in Proc, CancelAttempts(p)
  PROVE  RunnerInv'
<1>1. /\ loop[p] = "exit" /\ loop' = [loop EXCEPT ![p] = "joining"]
      /\ att' = [l \in Lease |-> IF l \in Running(p)
                                 THEN [att[l] EXCEPT !.cancelled = TRUE] ELSE att[l]]
      /\ UNCHANGED <<mode, free, got, diskVars, netVars, crashes>>
  BY DEF CancelAttempts
<1>2. ASSUME NEW l \in Lease
      PROVE  /\ QuietRow(att[l], att'[l]) /\ att'[l] \in AttemptRow
             /\ AttemptOK(att'[l], board[l])
  <2>1. att[l] \in AttemptRow /\ AttemptOK(att[l], board[l])
    BY AttemptTypes
  <2>2. CASE l \in Running(p)
    <3> DEFINE r == [att[l] EXCEPT !.cancelled = TRUE]
    <3>1. att'[l] = r
      BY <1>1, <2>2
    <3>2. r \in AttemptRow /\ r.proc = att[l].proc /\ r.pc = att[l].pc
      BY <2>1 DEF AttemptRow
    <3>3. AttemptOK(r, board[l])
      BY <2>1 DEF AttemptOK, AttemptRow
    <3> QED
      BY <3>1, <3>2, <3>3 DEF QuietRow
  <2>3. CASE l \notin Running(p)
    BY <1>1, <2>1, <2>3 DEF QuietRow
  <2> QED
    BY <2>2, <2>3
<1>3. att' \in [Lease -> AttemptRow]
  BY <1>1, <1>2
<1>4. RunnerTypeOK'
  BY <1>1, <1>3 DEF RunnerInv, RunnerTypeOK, diskVars, netVars
<1>5. \A q \in Proc : InHand(q)' = InHand(q)
  BY <1>1 DEF InHand, RunnerInv, RunnerTypeOK
<1>6. DirsOK' /\ LeasesOK' /\ PermitsOK'
  BY <1>1, <1>2, <1>4, <1>5, QuietKeeps DEF diskVars, netVars
<1>7. \A l \in Lease : AttemptOK(att'[l], board'[l])
  BY <1>1, <1>2 DEF netVars
<1> QED
  BY <1>4, <1>6, <1>7 DEF RunnerInv

------------------------------------------------------------------------------
(* The life of a process *)

\* A process that joins has joined them all.
LEMMA StopSteps ==
  ASSUME RunnerInv, NEW p \in Proc, Stopped(p)
  PROVE  RunnerInv'
<1>1. /\ Running(p) = {} /\ mode' = [mode EXCEPT ![p] = "stopped"]
      /\ loop[p] = "joining" /\ loop' = [loop EXCEPT ![p] = "off"]
      /\ UNCHANGED <<free, got, diskVars, netVars, att, crashes>>
  BY DEF Stopped
<1>2. RunnerTypeOK'
  BY <1>1 DEF RunnerInv, RunnerTypeOK, diskVars, netVars
<1>3. /\ \A q \in Proc : mode'[q] = IF q = p THEN "stopped" ELSE mode[q]
      /\ \A q \in Proc : InHand(q)' = InHand(q)
  BY <1>1 DEF RunnerInv, RunnerTypeOK, InHand
<1>4. \A l \in Lease : AttemptOK(att'[l], board'[l])
  BY <1>1, AttemptTypes DEF netVars
<1>5. DirsOK'
  BY <1>1, <1>3 DEF RunnerInv, DirsOK, diskVars
<1>6. LeasesOK'
  <2>1. \A q \in Proc : \A m \in got'[q] : att'[m].pc = "none" /\ board'[m] # "unused"
    BY <1>1 DEF RunnerInv, LeasesOK, netVars
  <2>2. \A q, s \in Proc : q # s => got'[q] \cap got'[s] = {}
    BY <1>1 DEF RunnerInv, LeasesOK
  <2>3. \A m \in Lease : Live(m)' => mode'[att'[m].proc] \in {"accepting", "stopping"}
    <3>1. \A m \in Lease : Live(m) => att[m].proc \in Proc /\ att[m].proc # p
      BY <1>1, AttemptTypes DEF Live, AttemptOK, Running
    <3> QED
      BY <1>1, <1>3, <3>1 DEF RunnerInv, LeasesOK, Live
  <2> QED
    BY <2>1, <2>2, <2>3 DEF LeasesOK
<1>7. PermitsOK'
  <2>1. \A q \in Proc : Running(q)' = Running(q)
    BY <1>1 DEF Running, Live
  <2> QED
    BY <1>1, <1>2, <1>3, <2>1, PermitsStay
<1> QED
  BY <1>2, <1>4, <1>5, <1>6, <1>7 DEF RunnerInv

\* A process that is not accepting or stopping has no attempt alive.
LEMMA NoneRuns ==
  ASSUME RunnerInv, NEW p \in Proc, mode[p] \notin {"accepting", "stopping"}
  PROVE  Running(p) = {}
BY DEF RunnerInv, LeasesOK, Running

\* A starting process takes the index, which no maker then has.
LEMMA StartSteps ==
  ASSUME RunnerInv, NEW p \in Proc, StartUp(p)
  PROVE  RunnerInv'
<1>1. /\ mode[p] = "down" /\ index = Nobody /\ index' = p
      /\ mode' = [mode EXCEPT ![p] = "reaping"]
      /\ UNCHANGED <<loop, free, got, seen, dirs, locked, netVars, att, crashes>>
  BY DEF StartUp
<1>2. RunnerTypeOK'
  BY <1>1 DEF RunnerInv, RunnerTypeOK, netVars
<1>3. \A q \in Proc : mode'[q] = IF q = p THEN "reaping" ELSE mode[q]
  BY <1>1 DEF RunnerInv, RunnerTypeOK
<1>4. \A l \in Lease : AttemptOK(att'[l], board'[l])
  BY <1>1, AttemptTypes DEF netVars
<1>5. DirsOK'
  <2>1. \A l \in Lease : att[l].pc # "making"
    BY <1>1, RunnerConstants, AttemptTypes DEF RunnerInv, DirsOK, AttemptOK
  <2>2. \A q \in Proc : mode[q] # "reaping"
    BY <1>1, RunnerConstants DEF RunnerInv, DirsOK
  <2> QED
    BY <1>1, <1>3, <2>1, <2>2 DEF RunnerInv, DirsOK
<1>6. LeasesOK'
  <2>1. \A q \in Proc : \A m \in got'[q] : att'[m].pc = "none" /\ board'[m] # "unused"
    BY <1>1 DEF RunnerInv, LeasesOK, netVars
  <2>2. \A q, s \in Proc : q # s => got'[q] \cap got'[s] = {}
    BY <1>1 DEF RunnerInv, LeasesOK
  <2>3. \A m \in Lease : Live(m)' => mode'[att'[m].proc] \in {"accepting", "stopping"}
    <3>1. \A m \in Lease : Live(m) => att[m].proc \in Proc /\ att[m].proc # p
      BY <1>1, AttemptTypes DEF Live, AttemptOK, RunnerInv, LeasesOK
    <3> QED
      BY <1>1, <1>3, <3>1 DEF RunnerInv, LeasesOK, Live
  <2> QED
    BY <2>1, <2>2, <2>3 DEF LeasesOK
<1>7. PermitsOK'
  BY <1>1, <1>2, <1>3, PermitsStay DEF Running, Live, InHand
<1> QED
  BY <1>2, <1>4, <1>5, <1>6, <1>7 DEF RunnerInv

\* The reaper takes only a directory whose owner's lock is free; an attempt
\* between the directory and its lock has the index, which the reaper holds.
LEMMA ReapSteps ==
  ASSUME RunnerInv, NEW p \in Proc, NEW l \in Lease, Reap(p, l)
  PROVE  RunnerInv'
<1>1. /\ mode[p] = "reaping" /\ l \in dirs
      /\ seen' = [seen EXCEPT ![p] = @ \cup {l}]
      /\ dirs' = IF locked[l] = Nobody THEN dirs \ {l} ELSE dirs
      /\ UNCHANGED <<procVars, index, locked, netVars, att, crashes>>
  BY DEF Reap
<1>2. RunnerTypeOK'
  BY <1>1 DEF RunnerInv, RunnerTypeOK, procVars, netVars
<1>3. \A m \in Lease : AttemptOK(att'[m], board'[m])
  BY <1>1, AttemptTypes DEF netVars
<1>4. \A m \in Lease : att[m].pc \in {"held", "leaving"} => m \in dirs'
  BY <1>1, RunnerConstants, AttemptTypes DEF RunnerInv, DirsOK, AttemptOK
<1>5. \A m \in Lease : att[m].pc # "making"
  <2>1. ASSUME NEW m \in Lease, att[m].pc = "making" PROVE FALSE
    <3>1. index = p /\ att[m].proc = p /\ Live(m)
      BY <1>1, <2>1 DEF RunnerInv, DirsOK, Live
    <3> QED
      BY <1>1, <3>1 DEF RunnerInv, LeasesOK
  <2> QED
    BY <2>1
<1>6. DirsOK'
  BY <1>1, <1>4, <1>5 DEF RunnerInv, DirsOK, procVars
<1>7. LeasesOK'
  BY <1>1 DEF RunnerInv, LeasesOK, Live, procVars, netVars
<1>8. PermitsOK'
  BY <1>1, <1>2, PermitsStay DEF Running, Live, InHand, procVars
<1> QED
  BY <1>2, <1>3, <1>6, <1>7, <1>8 DEF RunnerInv

\* A process begins to accept with every permit free and no attempt of its own.
LEMMA AcceptSteps ==
  ASSUME RunnerInv, NEW p \in Proc, ReapDone(p)
  PROVE  RunnerInv'
<1>1. /\ mode[p] = "reaping" /\ mode' = [mode EXCEPT ![p] = "accepting"]
      /\ loop' = [loop EXCEPT ![p] = "top"] /\ free' = [free EXCEPT ![p] = Slots]
      /\ index' = Nobody /\ seen' = [seen EXCEPT ![p] = {}]
      /\ UNCHANGED <<got, dirs, locked, netVars, att, crashes>>
  BY DEF ReapDone
<1>2. RunnerTypeOK'
  BY <1>1, RunnerConstants DEF RunnerInv, RunnerTypeOK, netVars
<1>3. /\ \A q \in Proc : mode'[q] = IF q = p THEN "accepting" ELSE mode[q]
      /\ \A q \in Proc : loop'[q] = IF q = p THEN "top" ELSE loop[q]
      /\ \A q \in Proc : free'[q] = IF q = p THEN Slots ELSE free[q]
  BY <1>1 DEF RunnerInv, RunnerTypeOK
<1>4. \A l \in Lease : AttemptOK(att'[l], board'[l])
  BY <1>1, AttemptTypes DEF netVars
<1>5. Running(p) = {}
  BY <1>1, NoneRuns
<1>6. DirsOK'
  <2>1. index = p /\ \A q \in Proc : q # p => mode[q] # "reaping"
    BY <1>1 DEF RunnerInv, DirsOK
  <2>2. \A l \in Lease : att[l].pc # "making"
    BY <1>5, <2>1 DEF RunnerInv, DirsOK, Running, Live
  <2> QED
    BY <1>1, <1>3, <2>1, <2>2 DEF RunnerInv, DirsOK
<1>7. LeasesOK'
  <2>1. \A q \in Proc : \A m \in got'[q] : att'[m].pc = "none" /\ board'[m] # "unused"
    BY <1>1 DEF RunnerInv, LeasesOK, netVars
  <2>2. \A q, s \in Proc : q # s => got'[q] \cap got'[s] = {}
    BY <1>1 DEF RunnerInv, LeasesOK
  <2>3. \A m \in Lease : Live(m)' => mode'[att'[m].proc] \in {"accepting", "stopping"}
    <3>1. \A m \in Lease : Live(m) => att[m].proc \in Proc
      BY AttemptTypes DEF Live, AttemptOK
    <3> QED
      BY <1>1, <1>3, <3>1 DEF RunnerInv, LeasesOK, Live
  <2> QED
    BY <2>1, <2>2, <2>3 DEF LeasesOK
<1>8. PermitsOK'
  <2>1. \A q \in Proc : Running(q)' = Running(q)
    BY <1>1 DEF Running, Live
  <2>2. \A q \in Proc : IsFiniteSet(Running(q)')
    BY <2>1 DEF RunnerInv, PermitsOK
  <2>3. Cardinality(Running(p)') = 0
    BY <1>5, <2>1, FS_EmptySet
  <2>4. free'[p] + Cardinality(Running(p)') + 0 = Slots
    BY <1>3, <2>3, RunnerConstants
  <2>5. PermitsAddUp'
    BY <1>3, <2>1, <2>4 DEF RunnerInv, PermitsOK, PermitsAddUp
  <2> QED
    BY <2>2, <2>5 DEF PermitsOK
<1> QED
  BY <1>2, <1>4, <1>6, <1>7, <1>8 DEF RunnerInv

\* A crash takes the process's attempts, its locks and its permits with it, and
\* nothing of another process.
LEMMA CrashSteps ==
  ASSUME RunnerInv, NEW p \in Proc, Crash(p)
  PROVE  RunnerInv'
<1> DEFINE dead == [NoAttempt EXCEPT !.pc = "dead", !.proc = p]
<1>1. /\ mode' = [mode EXCEPT ![p] = "down"] /\ loop' = [loop EXCEPT ![p] = "off"]
      /\ free' = [free EXCEPT ![p] = 0] /\ got' = [got EXCEPT ![p] = {}]
      /\ index' = IF index = p THEN Nobody ELSE index
      /\ locked' = [l \in Lease |-> IF locked[l] = p THEN Nobody ELSE locked[l]]
      /\ att' = [l \in Lease |-> IF l \in Running(p) THEN dead ELSE att[l]]
      /\ seen' = [seen EXCEPT ![p] = {}] /\ crashes' = crashes + 1
      /\ UNCHANGED <<dirs, netVars>>
  BY DEF Crash
<1>2. dead \in AttemptRow /\ dead.proc = p /\ dead.pc = "dead" /\ dead.phase = "claimed"
      /\ dead.op = "idle" /\ dead.call = "none" /\ dead.forward = "off" /\ ~dead.thread
  BY DEF NoAttempt, AttemptRow, Op
<1> HIDE DEF dead
<1>3. RunnerTypeOK'
  BY <1>1, <1>2 DEF RunnerInv, RunnerTypeOK, netVars
<1>4. /\ \A l \in Lease : att'[l] = IF l \in Running(p) THEN dead ELSE att[l]
      /\ \A q \in Proc : mode'[q] = IF q = p THEN "down" ELSE mode[q]
      /\ \A q \in Proc : got'[q] = IF q = p THEN {} ELSE got[q]
      /\ \A q \in Proc : q # p => loop'[q] = loop[q] /\ free'[q] = free[q]
  BY <1>1 DEF RunnerInv, RunnerTypeOK
<1>5. \A l \in Lease : l \in Running(p) => board[l] # "unused"
  BY AttemptTypes DEF Running, Live, AttemptOK
<1>6. \A l \in Lease : AttemptOK(att'[l], board'[l])
  <2>1. \A l \in Lease : l \in Running(p) => AttemptOK(dead, board[l])
    BY <1>2, <1>5 DEF AttemptOK
  <2> QED
    BY <1>1, <1>4, <2>1, AttemptTypes DEF netVars
<1>7. \A l \in Lease : att'[l].pc \in {"spawned", "making", "held", "leaving"} =>
        att'[l] = att[l] /\ att[l].proc # p
  BY <1>2, <1>4 DEF Running, Live
<1>8. DirsOK'
  BY <1>1, <1>4, <1>7 DEF RunnerInv, DirsOK
<1>9. LeasesOK'
  <2>1. \A q \in Proc : \A m \in got'[q] : att'[m].pc = "none" /\ board'[m] # "unused"
    <3>1. ASSUME NEW q \in Proc, NEW m \in got'[q]
          PROVE  att'[m].pc = "none" /\ board'[m] # "unused"
      <4>1. q # p /\ m \in got[q] /\ m \in Lease
        BY <1>4, <3>1 DEF RunnerInv, RunnerTypeOK
      <4>2. att[m].pc = "none" /\ board[m] # "unused"
        BY <4>1 DEF RunnerInv, LeasesOK
      <4> QED
        BY <1>1, <1>4, <4>1, <4>2 DEF Running, Live, netVars
    <3> QED
      BY <3>1
  <2>2. \A q, s \in Proc : q # s => got'[q] \cap got'[s] = {}
    BY <1>4 DEF RunnerInv, LeasesOK
  <2>3. \A m \in Lease : Live(m)' => mode'[att'[m].proc] \in {"accepting", "stopping"}
    <3>1. ASSUME NEW m \in Lease, Live(m)'
          PROVE  mode'[att'[m].proc] \in {"accepting", "stopping"}
      <4>1. m \notin Running(p) /\ att'[m] = att[m]
        BY <1>2, <1>4, <3>1 DEF Live
      <4>2. Live(m) /\ att[m].proc \in Proc /\ att[m].proc # p
        BY <3>1, <4>1, AttemptTypes DEF Live, Running, AttemptOK
      <4> QED
        BY <1>4, <4>1, <4>2 DEF RunnerInv, LeasesOK
    <3> QED
      BY <3>1
  <2> QED
    BY <2>1, <2>2, <2>3 DEF LeasesOK
<1>10. PermitsOK'
  <2>1. Running(p)' = {}
    BY <1>2, <1>4 DEF Running, Live
  <2>2. \A q \in Proc : q # p => Running(q)' = Running(q)
    BY <1>2, <1>4 DEF Running, Live
  <2>3. \A q \in Proc : IsFiniteSet(Running(q)')
    BY <2>1, <2>2, FS_EmptySet DEF RunnerInv, PermitsOK
  <2>4. PermitsAddUp'
    BY <1>4, <2>2 DEF RunnerInv, PermitsOK, PermitsAddUp
  <2> QED
    BY <2>3, <2>4 DEF PermitsOK
<1> QED
  BY <1>3, <1>6, <1>8, <1>9, <1>10 DEF RunnerInv

------------------------------------------------------------------------------
(* The attempt's directory *)

\* An attempt that lives on in its process keeps its permit and its lease.
LEMMA LivesOn ==
  ASSUME RunnerInv, RunnerTypeOK', NEW l \in Lease, NEW r \in AttemptRow, Set(l, r),
         Live(l), r.proc = att[l].proc, r.pc \notin {"none", "ended", "dead"},
         UNCHANGED <<procVars, board>>
  PROVE  LeasesOK' /\ PermitsOK'
<1>1. \A m \in Lease : att'[m] = IF m = l THEN r ELSE att[m]
  BY DEF Set, RunnerInv, RunnerTypeOK
<1>2. \A m \in Lease : (Live(m)' <=> Live(m)) /\ att'[m].proc = att[m].proc
  BY <1>1 DEF Live
<1>3. LeasesOK'
  <2>1. \A q \in Proc : \A m \in got'[q] : att'[m].pc = "none" /\ board'[m] # "unused"
    BY <1>1 DEF RunnerInv, RunnerTypeOK, LeasesOK, Live, procVars
  <2>2. \A q, s \in Proc : q # s => got'[q] \cap got'[s] = {}
    BY DEF RunnerInv, LeasesOK, procVars
  <2>3. \A m \in Lease : Live(m)' => mode'[att'[m].proc] \in {"accepting", "stopping"}
    BY <1>2 DEF RunnerInv, LeasesOK, procVars
  <2> QED
    BY <2>1, <2>2, <2>3 DEF LeasesOK
<1>4. \A q \in Proc : Running(q)' = Running(q)
  BY <1>2 DEF Running
<1>5. PermitsOK'
  BY <1>4, PermitsStay DEF InHand, procVars
<1> QED
  BY <1>3, <1>5

\* An attempt that ends gives its permit back.
LEMMA GivesBack ==
  ASSUME RunnerInv, RunnerTypeOK', NEW l \in Lease, NEW r \in AttemptRow, Set(l, r),
         Live(l), r.proc = att[l].proc, r.pc = "ended",
         free' = [free EXCEPT ![att[l].proc] = @ + 1],
         UNCHANGED <<mode, loop, got, board>>
  PROVE  LeasesOK' /\ PermitsOK'
<1> PICK p \in Proc : p = att[l].proc
  BY AttemptTypes DEF AttemptOK, Live
<1>1. \A m \in Lease : att'[m] = IF m = l THEN r ELSE att[m]
  BY DEF Set, RunnerInv, RunnerTypeOK
<1>2. \A m \in Lease : (Live(m)' <=> Live(m) /\ m # l) /\ att'[m].proc = att[m].proc
  BY <1>1 DEF Live
<1>3. LeasesOK'
  <2>1. \A q \in Proc : \A m \in got'[q] : att'[m].pc = "none" /\ board'[m] # "unused"
    BY <1>1 DEF RunnerInv, RunnerTypeOK, LeasesOK, Live
  <2>2. \A q, s \in Proc : q # s => got'[q] \cap got'[s] = {}
    BY DEF RunnerInv, LeasesOK
  <2>3. \A m \in Lease : Live(m)' => mode'[att'[m].proc] \in {"accepting", "stopping"}
    BY <1>2 DEF RunnerInv, LeasesOK
  <2> QED
    BY <2>1, <2>2, <2>3 DEF LeasesOK
<1>4. PermitsOK'
  <2>1. /\ Running(p)' = Running(p) \ {l} /\ l \in Running(p)
        /\ \A q \in Proc : q # p => Running(q)' = Running(q)
    BY <1>2 DEF Running
  <2>2. IsFiniteSet(Running(p))
    BY <1>1 DEF RunnerInv, PermitsOK
  <2>3. IsFiniteSet(Running(p)') /\ Cardinality(Running(p)') = Cardinality(Running(p)) - 1
    BY <2>1, <2>2, FS_RemoveElement
  <2>4. /\ Cardinality(Running(p)) \in Nat /\ free[p] \in Nat /\ Slots \in Nat
        /\ InHand(p) \in Nat
    BY <1>1, <2>2, FS_CardinalityType, RunnerConstants DEF RunnerInv, RunnerTypeOK, InHand
  <2>5. \A q \in Proc : IsFiniteSet(Running(q)')
    BY <2>1, <2>3 DEF RunnerInv, PermitsOK
  <2>6. mode[p] \in {"accepting", "stopping"}
    BY DEF RunnerInv, LeasesOK
  <2>7. free[p] + Cardinality(Running(p)) + InHand(p) = Slots
    BY <1>1, <2>6 DEF RunnerInv, PermitsOK, PermitsAddUp, InHand
  <2>8. /\ free'[p] = free[p] + 1
        /\ \A q \in Proc : q # p => free'[q] = free[q]
    BY <1>1 DEF RunnerInv, RunnerTypeOK
  <2>9. free'[p] + Cardinality(Running(p)') + InHand(p) = Slots
    BY <2>3, <2>4, <2>7, <2>8
  <2>10. PermitsAddUp'
    BY <2>1, <2>8, <2>9 DEF RunnerInv, PermitsOK, PermitsAddUp, InHand
  <2> QED
    BY <2>5, <2>10 DEF PermitsOK
<1> QED
  BY <1>3, <1>4

\* The directory is made under the index, which nobody else has.
LEMMA MakeSteps ==
  ASSUME RunnerInv, NEW l \in Lease, MakeDir(l)
  PROVE  RunnerInv'
<1> DEFINE r == [att[l] EXCEPT !.pc = "making"]
<1>1. /\ att[l].pc = "spawned" /\ index = Nobody /\ index' = att[l].proc
      /\ dirs' = dirs \cup {l} /\ Set(l, r)
      /\ UNCHANGED <<procVars, seen, locked, netVars, crashes>>
  BY DEF MakeDir
<1>2. att[l] \in AttemptRow /\ AttemptOK(att[l], board[l])
  BY AttemptTypes
<1>3. r \in AttemptRow /\ r.proc = att[l].proc /\ r.pc = "making"
  BY <1>2 DEF AttemptRow
<1>4. AttemptOK(r, board[l])
  BY <1>1, <1>2 DEF AttemptOK, AttemptRow
<1> HIDE DEF r
<1>5. att[l].proc \in Proc
  BY <1>1, <1>2 DEF AttemptOK
<1>6. RunnerTypeOK'
  BY <1>1, <1>3, <1>5 DEF RunnerInv, RunnerTypeOK, procVars, netVars, Set
<1>7. \A m \in Lease : att'[m] = IF m = l THEN r ELSE att[m]
  BY <1>1 DEF RunnerInv, RunnerTypeOK, Set
<1>8. \A m \in Lease : AttemptOK(att'[m], board'[m])
  BY <1>1, <1>4, <1>7, AttemptTypes DEF netVars
<1>9. DirsOK'
  <2>1. \A m \in Lease : att[m].pc # "making"
    BY <1>1, RunnerConstants, AttemptTypes DEF RunnerInv, DirsOK, AttemptOK
  <2>2. \A q \in Proc : mode[q] # "reaping"
    BY <1>1, RunnerConstants DEF RunnerInv, DirsOK
  <2> QED
    BY <1>1, <1>3, <1>7, <2>1, <2>2 DEF RunnerInv, DirsOK, procVars
<1>10. LeasesOK' /\ PermitsOK'
  BY <1>1, <1>3, <1>6, LivesOn DEF Live, netVars
<1> QED
  BY <1>6, <1>8, <1>9, <1>10 DEF RunnerInv

\* The owner's lock is taken before the index is let go.
LEMMA OwnSteps ==
  ASSUME RunnerInv, NEW l \in Lease, OwnDir(l)
  PROVE  RunnerInv'
<1> DEFINE s == [att[l] EXCEPT !.pc = "held", !.phase = "working", !.forward = "running"]
           r == StartHeld(s, "working")
<1>1. /\ att[l].pc = "making" /\ index' = Nobody
      /\ locked' = [locked EXCEPT ![l] = att[l].proc] /\ Set(l, r)
      /\ UNCHANGED <<procVars, seen, dirs, netVars, crashes>>
  BY DEF OwnDir
<1>2. att[l] \in AttemptRow /\ AttemptOK(att[l], board[l])
  BY AttemptTypes
<1>3. /\ s \in AttemptRow /\ s.proc = att[l].proc /\ s.pc = "held" /\ s.phase = "working"
      /\ s.call = att[l].call /\ s.forward = "running" /\ s.outcome = att[l].outcome
      /\ (s.cancelled <=> att[l].cancelled) /\ (s.thread <=> att[l].thread)
  <2>1. s \in AttemptRow
    BY <1>2 DEF AttemptRow
  <2> QED
    BY <1>2, <2>1 DEF AttemptRow
<1> HIDE DEF s
<1>4. /\ r \in AttemptRow /\ r.proc = s.proc /\ r.pc = s.pc /\ r.phase = s.phase
      /\ r.op \in {"working", "lost", "timeout"} /\ (r.op = "lost" => s.forward = "lost")
      /\ r.call = s.call /\ r.forward = s.forward /\ r.outcome = s.outcome
      /\ (r.cancelled <=> s.cancelled) /\ (r.thread <=> s.thread)
  BY <1>3, StartRow
<1> HIDE DEF r
<1>5. att[l].proc \in Proc
  BY <1>1, <1>2 DEF AttemptOK
<1>6. AttemptOK(r, board[l])
  BY <1>1, <1>2, <1>3, <1>4 DEF AttemptOK
<1>7. RunnerTypeOK'
  BY <1>1, <1>4, <1>5 DEF RunnerInv, RunnerTypeOK, procVars, netVars, Set
<1>8. /\ \A m \in Lease : att'[m] = IF m = l THEN r ELSE att[m]
      /\ \A m \in Lease : locked'[m] = IF m = l THEN att[l].proc ELSE locked[m]
  BY <1>1 DEF RunnerInv, RunnerTypeOK, Set
<1>9. \A m \in Lease : AttemptOK(att'[m], board'[m])
  BY <1>1, <1>6, <1>8, AttemptTypes DEF netVars
<1>10. DirsOK'
  <2>1. l \in dirs /\ index = att[l].proc
    BY <1>1 DEF RunnerInv, DirsOK
  <2>2. \A q \in Proc : mode[q] # "reaping"
    BY <1>1, <2>1 DEF RunnerInv, DirsOK, LeasesOK, Live
  <2>3. \A m \in Lease : m # l => att[m].pc # "making"
    BY <1>1 DEF RunnerInv, DirsOK
  <2> QED
    BY <1>1, <1>3, <1>4, <1>8, <2>1, <2>2, <2>3 DEF RunnerInv, DirsOK, procVars
<1>11. LeasesOK' /\ PermitsOK'
  BY <1>1, <1>3, <1>4, <1>7, LivesOn DEF Live, netVars
<1> QED
  BY <1>7, <1>9, <1>10, <1>11 DEF RunnerInv

\* An attempt ends: it never began, or its directory is removed, with the lock,
\* under the index.
LEMMA EndSteps ==
  ASSUME RunnerInv, NEW l \in Lease, NeverStarted(l) \/ RemoveDir(l)
  PROVE  RunnerInv'
<1> DEFINE r == [att[l] EXCEPT !.pc = "ended"]
<1>1. /\ att[l].pc \in {"spawned", "leaving"} /\ ~att[l].thread
      /\ att[l].pc = "spawned" => att[l].cancelled
      /\ Set(l, r)
      /\ free' = [free EXCEPT ![att[l].proc] = @ + 1]
      /\ \/ UNCHANGED <<dirs, locked>>
         \/ dirs' = dirs \ {l} /\ locked' = [locked EXCEPT ![l] = Nobody]
      /\ UNCHANGED <<mode, loop, got, index, seen, netVars, crashes>>
  BY AttemptTypes DEF NeverStarted, RemoveDir, diskVars, AttemptOK
<1>2. att[l] \in AttemptRow /\ AttemptOK(att[l], board[l])
  BY AttemptTypes
<1>3. r \in AttemptRow /\ r.proc = att[l].proc /\ r.pc = "ended"
  BY <1>2 DEF AttemptRow
<1>4. AttemptOK(r, board[l])
  BY <1>1, <1>2 DEF AttemptOK, AttemptRow
<1> HIDE DEF r
<1>5. att[l].proc \in Proc
  BY <1>1, <1>2 DEF AttemptOK
<1>6. RunnerTypeOK'
  BY <1>1, <1>3, <1>5 DEF RunnerInv, RunnerTypeOK, netVars, Set
<1>7. /\ \A m \in Lease : att'[m] = IF m = l THEN r ELSE att[m]
      /\ \A m \in Lease : m # l => locked'[m] = locked[m] /\ (m \in dirs' <=> m \in dirs)
  BY <1>1 DEF RunnerInv, RunnerTypeOK, Set
<1>8. \A m \in Lease : AttemptOK(att'[m], board'[m])
  BY <1>1, <1>4, <1>7, AttemptTypes DEF netVars
<1>9. DirsOK'
  BY <1>1, <1>3, <1>7 DEF RunnerInv, DirsOK
<1>10. LeasesOK' /\ PermitsOK'
  BY <1>1, <1>3, <1>6, GivesBack DEF Live, netVars
<1> QED
  BY <1>6, <1>8, <1>9, <1>10 DEF RunnerInv

------------------------------------------------------------------------------
(* The invariant of the runner, and what follows from it *)

\* Before the first process is started nothing is held.
LEMMA RunnerBegins == Init => RunnerInv
<1> SUFFICES ASSUME Init PROVE RunnerInv
  OBVIOUS
<1>1. NoAttempt \in AttemptRow
  BY DEF NoAttempt, AttemptRow, Op
<1>2. RunnerTypeOK
  BY <1>1 DEF Init, RunnerTypeOK
<1>3. \A l \in Lease : AttemptOK(att[l], board[l])
  BY DEF Init, NoAttempt, AttemptOK
<1>4. DirsOK
  BY DEF Init, NoAttempt, DirsOK
<1>5. LeasesOK
  BY DEF Init, NoAttempt, LeasesOK, Live
<1>6. \A p \in Proc : Running(p) = {}
  BY DEF Init, NoAttempt, Running, Live
<1>7. PermitsOK
  BY <1>6, FS_EmptySet DEF Init, PermitsOK, PermitsAddUp
<1> QED
  BY <1>2, <1>3, <1>4, <1>5, <1>7 DEF RunnerInv

\* Every step of a runner, of its attempts and of the Worker keeps the invariant.
LEMMA RunnerStepKeeps == RunnerInv /\ [Next]_vars => RunnerInv'
<1> SUFFICES ASSUME RunnerInv, [Next]_vars PROVE RunnerInv'
  OBVIOUS
<1>1. CASE \E p \in Proc : StartUp(p) \/ Crash(p) \/ StopSignal(p)
  BY <1>1, StartSteps, CrashSteps, LoopSteps
<1>2. CASE \E p \in Proc : LoopStep(p)
  <2>1. PICK p \in Proc : LoopStep(p)
    BY <1>2
  <2>2. CASE \/ TakePermit(p) \/ AskForTask(p) \/ QuitWithPermit(p) \/ QuitWithout(p)
             \/ ClaimFails(p) \/ NothingToDo(p)
    BY <2>2, LoopSteps
  <2>3. CASE CancelAttempts(p) \/ Stopped(p) \/ ReapDone(p)
    BY <2>3, CancelSteps, StopSteps, AcceptSteps
  <2>4. CASE \E l \in Lease : Spawn(p, l) \/ Reap(p, l)
    BY <2>4, SpawnSteps, ReapSteps
  <2> QED
    BY <2>1, <2>2, <2>3, <2>4 DEF LoopStep
<1>3. CASE \E p \in Proc, l \in Lease : Claim(p, l)
  BY <1>3, ClaimSteps
<1>4. CASE \E l \in Lease : AttemptStep(l)
  <2>1. PICK l \in Lease : AttemptStep(l)
    BY <1>4
  <2>2. CASE DirStep(l)
    BY <2>2, MakeSteps, OwnSteps, EndSteps DEF DirStep
  <2>3. CASE CallStep(l)
    BY <2>3, UploadSteps, OperationSteps, SendSteps, AnswerSteps DEF CallStep
  <2>4. CASE ThreadEnds(l) \/ Supervise(l) \/ Cancelled(l)
    BY <2>4, ThreadSteps, SupervisorSteps, CancelledSteps
  <2>5. CASE \E op \in OpEnds, o \in {"none", "views", "failed", "bare"} : WorkEnds(l, op, o)
    BY <2>5, OperationSteps
  <2> QED
    BY <2>1, <2>2, <2>3, <2>4, <2>5 DEF AttemptStep
<1>5. CASE \E l \in Lease : ThreadStarts(l) \/ HeartbeatLost(l) \/ DeadlinePasses(l) \/ Lapse(l)
  BY <1>5, ThreadSteps, WatchSteps, WorkerSteps
<1>6. CASE \E c \in net : CallArrives(c)
  BY <1>6, WorkerSteps
<1>7. CASE UNCHANGED vars
  <2>1. RunnerTypeOK' /\ \A l \in Lease : AttemptOK(att'[l], board'[l])
    BY <1>7, AttemptTypes DEF vars, RunnerInv, RunnerTypeOK
  <2>2. DirsOK' /\ LeasesOK'
    BY <1>7 DEF vars, RunnerInv, DirsOK, LeasesOK, Live
  <2>3. PermitsOK'
    BY <1>7, <2>1, PermitsStay DEF vars, Running, Live, InHand
  <2> QED
    BY <2>1, <2>2, <2>3 DEF RunnerInv
<1> QED
  BY <1>1, <1>2, <1>3, <1>4, <1>5, <1>6, <1>7 DEF Next

\* The processes, their attempts and the volume always agree with each other and
\* with the Worker as RunnerInv says, through crashes, cancellations and lost answers.
THEOREM RunnerInvariant == Spec => []RunnerInv
BY RunnerBegins, RunnerStepKeeps, PTL DEF Spec

\* cleanup_abandoned_attempts and attempt_workspace, on a volume that many processes
\* share, never take the directory of an attempt that works or whose thread still runs.
THEOREM FilesOutliveTheWork == Spec => []FilesOutliveWork
<1>1. RunnerInv => FilesOutliveWork
  BY AttemptTypes DEF RunnerInv, DirsOK, AttemptOK, FilesOutliveWork
<1> QED
  BY <1>1, RunnerInvariant, PTL

\* run_task says done only of a lease the Worker completed, and leaves a lease the
\* Worker still has as held only after it tried to report the failure.
THEOREM WorkerIsTold == Spec => []TellsTheWorker
<1>1. RunnerInv => TellsTheWorker
  BY AttemptTypes DEF AttemptOK, TellsTheWorker, Reporting
<1> QED
  BY <1>1, RunnerInvariant, PTL

\* A step that moves attempt m anywhere but to its leaving leaves no attempt.
LEMMA NotLeaving ==
  ASSUME RunnerInv, NEW l \in Lease, NEW m \in Lease, NEW r, Set(m, r),
         att[l].pc # "leaving", r.pc # "leaving"
  PROVE  att'[l].pc # "leaving"
BY DEF Set, RunnerInv, RunnerTypeOK

\* An attempt begins to leave by its supervisor's verdict, or cancelled.
LEMMA LeavesBy ==
  ASSUME RunnerInv, Next, NEW l \in Lease, att[l].pc = "held", att'[l].pc = "leaving"
  PROVE  Supervise(l) \/ Cancelled(l)
<1>1. \A m \in Lease : att[m] \in AttemptRow
  BY AttemptTypes
<1>2. \A m \in Lease : \A r : Set(m, r) => r.pc = "leaving"
  BY NotLeaving
<1>3. CASE \E p \in Proc : StartUp(p) \/ StopSignal(p) \/ \E m \in Lease : Claim(p, m)
  BY <1>3 DEF StartUp, StopSignal, Claim
<1>4. CASE \E p \in Proc : Crash(p)
  BY <1>4 DEF Crash, NoAttempt
<1>5. CASE \E p \in Proc : LoopStep(p)
  <2>1. PICK p \in Proc : LoopStep(p)
    BY <1>5
  <2>2. CASE CancelAttempts(p)
    <3>1. att'[l] \in {att[l], [att[l] EXCEPT !.cancelled = TRUE]}
      BY <2>2 DEF CancelAttempts
    <3> QED
      BY <1>1, <3>1 DEF AttemptRow
  <2>3. CASE \E m \in Lease : Spawn(p, m)
    <3>1. PICK m \in Lease : Set(m, [NoAttempt EXCEPT !.proc = p, !.pc = "spawned"])
      BY <2>3 DEF Spawn, Set
    <3>2. [NoAttempt EXCEPT !.proc = p, !.pc = "spawned"].pc = "spawned"
      BY DEF NoAttempt
    <3> QED
      BY <1>2, <3>1, <3>2
  <2> QED
    BY <2>1, <2>2, <2>3 DEF LoopStep, TakePermit, AskForTask, QuitWithPermit, QuitWithout,
                            ClaimFails, NothingToDo, Stopped, ReapDone, Reap
<1>6. CASE \E m \in Lease : DirStep(m)
  <2>1. PICK m \in Lease : DirStep(m)
    BY <1>6
  <2>2. CASE MakeDir(m)
    BY <1>1, <1>2, <2>2 DEF MakeDir, AttemptRow
  <2>3. CASE OwnDir(m)
    <3> DEFINE s == [att[m] EXCEPT !.pc = "held", !.phase = "working", !.forward = "running"]
    <3>1. s \in AttemptRow
      BY <1>1 DEF AttemptRow
    <3>2. s.pc = "held"
      BY <1>1 DEF AttemptRow
    <3>3. Set(m, StartHeld(s, "working"))
      BY <2>3 DEF OwnDir
    <3> HIDE DEF s
    <3>4. StartHeld(s, "working").pc = "held"
      BY <3>1, <3>2, StartRow
    <3> QED
      BY <1>2, <3>3, <3>4
  <2>4. CASE NeverStarted(m) \/ RemoveDir(m)
    BY <1>1, <1>2, <2>4 DEF NeverStarted, RemoveDir, AttemptRow
  <2> QED
    BY <2>1, <2>2, <2>3, <2>4 DEF DirStep
<1>7. ASSUME NEW m \in Lease, NEW r, Set(m, r), r.pc = att[m].pc
      PROVE  FALSE
  <2>1. CASE m = l
    BY <1>2, <1>7, <2>1
  <2>2. CASE m # l
    BY <1>7, <2>2 DEF Set, RunnerInv, RunnerTypeOK
  <2> QED
    BY <2>1, <2>2
<1>8. CASE \E m \in Lease : CallStep(m) \/ ThreadEnds(m) \/ ThreadStarts(m)
  <2>1. PICK m \in Lease : CallStep(m) \/ ThreadEnds(m) \/ ThreadStarts(m)
    BY <1>8
  <2>2. CASE ThreadEnds(m)
    BY <1>1, <1>7, <2>2 DEF ThreadEnds, AttemptRow
  <2>3. CASE ThreadStarts(m)
    BY <1>1, <1>7, <2>3 DEF ThreadStarts, AttemptRow
  <2>4. CASE \E op \in OpEnds \cup {"uploading", "packing", "archiving", "sending", "timeout"} :
               UploadStep(m, op)
    <3>1. PICK op, tries : Set(m, [att[m] EXCEPT !.op = op, !.tries = tries])
      BY <2>4 DEF UploadStep
    <3> QED
      BY <1>1, <1>7, <3>1 DEF AttemptRow
  <2>5. CASE BeginUploads(m) \/ \E op \in {"archiving", "error"} : Packed(m, op)
    <3>1. PICK op : Set(m, [att[m] EXCEPT !.op = op])
      BY <2>5 DEF BeginUploads, Packed
    <3> QED
      BY <1>1, <1>7, <3>1 DEF AttemptRow
  <2>6. CASE SendComplete(m) \/ SendFailed(m) \/ \E op \in OpEnds : CallEnds(m, op)
    <3>1. PICK op, call : Set(m, [att[m] EXCEPT !.op = op, !.call = call])
      BY <2>6 DEF SendComplete, SendFailed, Send, CallEnds
    <3> QED
      BY <1>1, <1>7, <3>1 DEF AttemptRow
  <2> QED
    BY <2>1, <2>2, <2>3, <2>4, <2>5, <2>6 DEF CallStep
<1>9. CASE \E m \in Lease : \/ HeartbeatLost(m) \/ DeadlinePasses(m) \/ Lapse(m)
                           \/ \E op \in OpEnds, o \in {"none", "views", "failed", "bare"} :
                                WorkEnds(m, op, o)
  <2>1. PICK m \in Lease : \/ HeartbeatLost(m) \/ DeadlinePasses(m) \/ Lapse(m)
                           \/ \E op \in OpEnds, o \in {"none", "views", "failed", "bare"} :
                                WorkEnds(m, op, o)
    BY <1>9
  <2>2. CASE Lapse(m)
    BY <2>2 DEF Lapse
  <2>3. CASE HeartbeatLost(m)
    BY <1>1, <1>7, <2>3 DEF HeartbeatLost, AttemptRow
  <2>4. CASE DeadlinePasses(m)
    BY <1>1, <1>7, <2>4 DEF DeadlinePasses, AttemptRow
  <2>5. CASE \E op \in OpEnds, o \in {"none", "views", "failed", "bare"} : WorkEnds(m, op, o)
    BY <1>1, <1>7, <2>5 DEF WorkEnds, AttemptRow
  <2> QED
    BY <2>1, <2>2, <2>3, <2>4, <2>5
<1>10. CASE \E m \in Lease : Supervise(m) \/ Cancelled(m)
  <2>1. PICK m \in Lease : Supervise(m) \/ Cancelled(m)
    BY <1>10
  <2>2. PICK r : Set(m, r)
    BY <2>1 DEF Supervise, Cancelled
  <2>3. m = l
    BY <2>2 DEF Set, RunnerInv, RunnerTypeOK
  <2> QED
    BY <2>1, <2>3
<1>11. CASE \E c \in net : CallArrives(c)
  <2>1. PICK c \in net : CallArrives(c)
    BY <1>11
  <2>2. PICK call : Set(c.lease, [att[c.lease] EXCEPT !.call = call])
    BY <2>1 DEF CallArrives, Set
  <2>3. c.lease \in Lease
    BY DEF RunnerInv, RunnerTypeOK
  <2> QED
    BY <1>1, <1>7, <2>2, <2>3 DEF AttemptRow
<1> QED
  BY <1>3, <1>4, <1>5, <1>6, <1>8, <1>9, <1>10, <1>11 DEF Next, AttemptStep

\* In while_held a terminal acknowledgement wins: an attempt whose completion the
\* Worker took ends as done, whatever its heartbeat or its deadline say by then.
THEOREM AcknowledgedEndsDone == Spec => AcknowledgedIsDone
<1> DEFINE Acknowledged(l) ==
      /\ att[l].phase = "publishing" /\ att[l].op = "ok" /\ board[l] = "complete"
      /\ att[l].pc = "held" /\ att'[l].pc = "leaving" /\ ~att[l].cancelled
<1>1. ASSUME RunnerInv, Next, NEW l \in Lease, Acknowledged(l)
      PROVE  att'[l].phase = "done"
  <2>1. att[l] \in AttemptRow /\ AttemptOK(att[l], board[l])
    BY <1>1, AttemptTypes
  <2>2. att[l].outcome \notin {"failed", "report"}
    BY <1>1, <2>1 DEF AttemptOK, KindOf
  <2>3. Supervise(l)
    BY <1>1, LeavesBy DEF Cancelled
  <2>4. Verdict(att[l]) = "ok"
    BY <1>1 DEF Verdict, AckWins, Ended
  <2>5. Set(l, Leave(att[l], "done"))
    BY <1>1, <2>2, <2>3, <2>4 DEF Supervise
  <2>6. att'[l] = Leave(att[l], "done")
    BY <1>1, <2>5 DEF Set, RunnerInv, RunnerTypeOK
  <2> QED
    BY <2>1, <2>6, LeaveRow
<1>2. RunnerInv /\ [Next]_vars => [\A l \in Lease : Acknowledged(l) => att'[l].phase = "done"]_vars
  BY <1>1
<1> QED
  BY <1>2, RunnerInvariant, PTL DEF Spec, AcknowledgedIsDone

\* ClaimSlots: at any time the free permits of a process, the one in the hand of its
\* claim loop and its live attempts are together runner_slots.
THEOREM PermitsAlwaysAddUp == Spec => []PermitsAddUp
<1>1. RunnerInv => PermitsAddUp
  BY DEF RunnerInv, PermitsOK
<1> QED
  BY <1>1, RunnerInvariant, PTL

===============================================================================
