SPECIFICATION Spec
CONSTANTS
  QueueMinimum = 3
  ClaimMinimum = 2
  GatewayMargin = 1
  LeaseMs = 2
  JobMaxMs = 4
  SyncMaxMs = 3
  RetentionMs = 4
  Attempts = 2
  PipelineSteps <- BoardSteps
  RerunSteps <- BoardRerun
  Results <- BoardResults
  Events <- BoardEvents
  Item = {change}
  Job = {a}
  OwnerOf <- OnePerson
  Legs = {6}
  ActivePerPerson = 1
  ActiveGlobal = 1
  MaxTime = 6
  MaxClaims = 4
  MaxVersion = 2
  MaxWaiting = 1
  MaxLag = 0
INVARIANTS
  TypeOK
  ActiveHasTask
  CredentialScope
  ShowsPublished
  SweepNeverThrows
  HeldCanFinish
PROPERTIES
  ChoiceKept
  WaitingReviewRuns
\* The board rests when no job is left and nobody asks for anything.
CHECK_DEADLOCK FALSE
