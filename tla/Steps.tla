-------------------------------- MODULE Steps --------------------------------
(***************************************************************************)
(* worker/src/steps.ts: the pipeline steps of a job and how reports from   *)
(* the runner move them.  Only the status of a step is kept; its times,    *)
(* message and result follow the status and no property tells them apart.  *)
(***************************************************************************)
EXTENDS FiniteSets

CONSTANTS
  PipelineSteps,   \* PIPELINE_STEPS of contract.ts
  RerunSteps       \* RERUN_STEPS: the ones a review runs again

ASSUME StepNames == RerunSteps \subseteq PipelineSteps

StepStatus == {"pending", "running", "complete", "skipped", "failed"}

StepsType == [PipelineSteps -> StepStatus]

\* TRANSITIONS: a step that has ended stays as it ended.
StepAllowed(current, target) ==
  CASE current = "pending" -> target \in StepStatus
    [] current = "running" -> target \in StepStatus \ {"pending"}
    [] OTHER               -> target = current

PendingSteps == [s \in PipelineSteps |-> "pending"]

\* resetSteps: a review keeps the steps it does not run again.
ResetSteps(steps, review) ==
  [s \in PipelineSteps |->
     IF review /\ s \notin RerunSteps THEN steps[s] ELSE "pending"]

\* applyStepProgress: one event names one step and its new status; an event
\* the guard refuses answers 422 and changes nothing.
StepEvent == [step : PipelineSteps, status : StepStatus]

ApplyStepProgress(steps, event) == [steps EXCEPT ![event.step] = event.status]

\* failSteps: what had not ended when the job failed has failed.
FailSteps(steps) ==
  [s \in PipelineSteps |->
     IF steps[s] \in {"pending", "running"} THEN "failed" ELSE steps[s]]

===============================================================================
