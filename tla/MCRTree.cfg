SPECIFICATION Spec
CONSTANTS
  Box <- MCBox
  Batches <- MCBatches
  Queries <- MCQueries
  MaxEntries = 2
  MinEntries = 1
  Threshold = 3
  MaxItems = 6
  Capacity = 2
  HilbertLevel = 3
INVARIANTS
  TypeOK
  TreeKept
  SearchIsRight
  SearchesFind
CHECK_DEADLOCK FALSE
