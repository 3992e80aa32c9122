CONSTANTS
  Owners = {o1, o2}
  Buffers = {b1, b2, b3}
  Values = {v}
  Junk = junk
  Sizes = {1, 2}
  None = none
SPECIFICATION FairSpec
INVARIANTS TypeOK CountIsExact NoDanglingPointer ExclusiveMeansAlone NothingLeaks
PROPERTIES OwnersAreIsolated LastReleaseFrees
CHECK_DEADLOCK FALSE
