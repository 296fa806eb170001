SPECIFICATION FairStoreSpec
CONSTANTS
  Job = {a}
  MaxRev = 1
  Late = FALSE
  Slot = {1}
  MaxFailures = 1
  CleanersFail = TRUE
INVARIANT InputKept
PROPERTY DeletionsEnd
\* Nothing is left to do when the job is gone and its files are deleted.
CHECK_DEADLOCK FALSE
