CONSTANTS
  NUM_ROOTS = 3
  chunksize = 48
  MaxHeap = 128
  SizeMod = 4096
  Index <- ids
  Sizes <- requests
  Counts <- counts
  BalancedTraces = FALSE
SPECIFICATION Spec
INVARIANT DriverAccepts
