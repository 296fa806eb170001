SPECIFICATION Spec
CONSTANTS
  QueueMinimum = 3
  ClaimMinimum = 2
  GatewayMargin = 1
  LeaseMs = 2
  JobMaxMs = 4
  SyncMaxMs = 3
  RetentionMs = 4
  Attempts = 2
  PipelineSteps <- BoardSteps
  RerunSteps <- BoardRerun
  Results <- BoardResults
  Events <- BoardEvents
  Item = {change}
  Job = {a}
  OwnerOf <- OnePerson
  Legs = {5, 7}
  ActivePerPerson = 1
  ActiveGlobal = 1
  MaxTime = 6
  MaxClaims = 3
  MaxVersion = 1
  MaxWaiting = 1
  MaxLag = 0
INVARIANT
  NoSyncAfterFailure
\* The board rests when no job is left and nobody asks for anything.
CHECK_DEADLOCK FALSE
