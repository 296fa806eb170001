SPECIFICATION TextSpec
CONSTANTS
  Pages <- MCPages
  Weight <- MCWeight
  Temperatures = 2
  Delays = 1
  Jobs = 2
INVARIANTS
  OcrHolds
  StructureHolds
  FontsHold
  HeldForAReason
  NothingFoundIsLost
CHECK_DEADLOCK FALSE
