SPECIFICATION Spec
CONSTANTS
  Box <- MCBox
  Batches <- MCBatches
  Queries <- MCQueries
  MaxEntries = 2
  MinEntries = 1
  Threshold = 3
  MaxItems = 6
  Capacity = 2
  HilbertLevel = 3
INVARIANT SearchFindsAll
CHECK_DEADLOCK FALSE
