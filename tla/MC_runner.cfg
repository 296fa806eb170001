SPECIFICATION FairSpec
CONSTANTS
  Proc = {p, q}
  Lease = {k}
  Slots = 1
  UploadTries = 2
  Nobody = Nobody
  MaxCrashes = 1
INVARIANTS
  FilesOutliveWork
  TellsTheWorker
PROPERTIES
  AcknowledgedIsDone
  RunnerGoesOn
CHECK_DEADLOCK FALSE
