------------------------------ MODULE JobContract ------------------------------
(***************************************************************************)
(* What JobBoard promises a person about each upload, with no tasks,       *)
(* leases, queue or clock: the job is worked on, then shows an output or   *)
(* has failed; a shown output changes only by a new publication; work that *)
(* is taken back returns to exactly the output shown before; a failure and *)
(* a deletion are final.                                                   *)
(***************************************************************************)
CONSTANTS Job, Output, NoOutput

VARIABLES
  phase,    \* where each job stands
  output    \* what it shows, or goes back to when a review is refused

Phase == {"none", "working", "ready", "failed", "gone"}

Init ==
  /\ phase = [j \in Job |-> "none"]
  /\ output = [j \in Job |-> NoOutput]

Moves(j, from, to, shown) ==
  /\ phase[j] \in from /\ phase'[j] = to
  /\ output'[j] = shown

Accept(j)  == Moves(j, {"none"}, "working", NoOutput)
Publish(j) == \E o \in Output : Moves(j, {"working"}, "ready", o)
Rework(j)  == Moves(j, {"ready"}, "working", output[j])
Return(j)  == output[j] # NoOutput /\ Moves(j, {"working"}, "ready", output[j])
Fail(j)    == Moves(j, {"working"}, "failed", NoOutput)
Delete(j)  == Moves(j, Phase \ {"none", "gone"}, "gone", NoOutput)

\* A re-render replaces an output, shown or set aside for a review.
Refresh(j) ==
  /\ output[j] # NoOutput
  /\ \E o \in Output : \/ Moves(j, {"ready"}, "ready", o)
                       \/ Moves(j, {"working"}, "working", o)

Keep(j) == phase'[j] = phase[j] /\ output'[j] = output[j]

JobStep(j) ==
  Accept(j) \/ Publish(j) \/ Rework(j) \/ Return(j) \/ Fail(j) \/ Delete(j)
    \/ Refresh(j)

\* One handler may move several jobs: the sweep, and a claim that retires
\* tasks it meets.
Next ==
  /\ phase' \in [Job -> Phase]
  /\ output' \in [Job -> Output \cup {NoOutput}]
  /\ \A j \in Job : JobStep(j) \/ Keep(j)

Spec == Init /\ [][Next]_<<phase, output>>

===============================================================================
