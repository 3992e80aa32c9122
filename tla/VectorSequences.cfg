CONSTANTS
  Vectors = {v1, v2}
  Blocks = {b1, b2, b3}
  Items = {10, 20}
  Default = 10
  Raw = raw
  None = none
  kMinVectorCapacity = 2
  MaxCount = 3
  MaxCapacity = 4
  Kinds = {FALSE, TRUE}
SPECIFICATION Spec
SYMMETRY Symmetric
INVARIANTS MemoryIsSound SlotsMatchCount SharersAgree
PROPERTIES VectorsAreSequences
