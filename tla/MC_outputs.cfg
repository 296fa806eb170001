SPECIFICATION StoreSpec
CONSTANTS
  Job = {a}
  MaxRev = 2
  Late = FALSE
  Slot = {1, 2}
  MaxFailures = 0
  CleanersFail = FALSE
INVARIANT OutputKept
\* Nothing is left to do when the job is gone and its files are deleted.
CHECK_DEADLOCK FALSE
