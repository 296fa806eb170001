------------------------------ MODULE MCJobBoard ------------------------------
(***************************************************************************)
(* Values of JobBoard's constants for TLC.  A lease is two time units, so  *)
(* that it can be renewed or missed; the other limits keep their order.    *)
(***************************************************************************)
EXTENDS JobBoard, TLC

\* One step a review keeps and one it runs again.
BoardSteps == {"structure", "tagging"}
BoardRerun == {"tagging"}

AllDone == [s \in BoardSteps |-> "complete"]

\* An output that leaves manual work, and a failed pipeline.  Which of the
\* two output-ready statuses a result has makes no difference to the board.
BoardResults ==
  { [status |-> "manual_remediation", steps |-> AllDone],
    [status |-> "failed", steps |-> [AllDone EXCEPT !["tagging"] = "failed"]] }

\* A step that is run again is reported as running.
BoardEvents == [step : BoardRerun, status : {"running"}]

OnePerson == [j \in Job |-> "person"]

\* Uploads of one person differ in nothing but their ids.
Uploads == Permutations(Job)

===============================================================================
