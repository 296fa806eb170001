SPECIFICATION CallsSpec
CONSTANTS
  Rule <- MCRule
  Verdict <- MCVerdict
  TagCount <- MCTagCount
  MaxBlocking = 2
  Ask = {a1, a2}
  Counted = {a1}
  MaxRetries = 1
  MaxConcurrency = 2
  Image = {i1, i2}
  Size = {1, 6}
  TextSize = 2
  BodyLimit = 8
  SmallestImage = 2
  Attempts = 3
INVARIANTS
  ResultIsProven
  CallsAccounted
PROPERTIES
  GoodIsKept
  QuietAfterRefusal
  CallsEnd
CHECK_DEADLOCK FALSE
