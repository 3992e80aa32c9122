SPECIFICATION FairSpec
CONSTANTS
  Keys = {1, 2, 3}
  Values = {a, b}
  a = a
  b = b
  MaxCount = 4
  MaxMerged = 2
INVARIANTS
  TypeOK
  KeysAreSorted
  SearchIsRight
PROPERTIES
  ActsAsMap
  CallsReturn
CHECK_DEADLOCK FALSE
