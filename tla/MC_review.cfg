SPECIFICATION FairReviewSpec
CONSTANTS
  Figure = {f}
  Text = {"t", "u"}
  Issue = {"i"}
  MaxRevs = 2
  MaxCrashes = 1
INVARIANT ArchiveIsSettled
PROPERTIES
  FailureRestores
  DecisionsSaved
  TaskSettles
CHECK_DEADLOCK FALSE
