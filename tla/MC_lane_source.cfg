SPECIFICATION Spec
CONSTANTS
  Rule <- MCRule
  Verdict <- MCVerdict
  TagCount <- MCTagCount
  MaxBlocking = 1
INVARIANTS
  SourceOfBytes
CHECK_DEADLOCK FALSE
