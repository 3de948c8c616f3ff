CONSTANTS
  NUM_ROOTS = 3
  chunksize = 48
  MaxHeap = 128
  SizeMod = 4096
  Index <- ids
  Sizes <- requests
  Counts <- counts
  BalancedTraces = TRUE
SPECIFICATION Spec
INVARIANTS
  DriverAccepts
  HeapConsistent
  BlocksAreHeld
  GrowthIsNeeded
