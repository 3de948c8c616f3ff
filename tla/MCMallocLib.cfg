CONSTANTS
  Byte = {0, 1}
  Unwritten = Unwritten
  Junk = Junk
  WORD = 2
  MaxHeap = 5
  SPARSE_PAGE_SIZE = 2
  num_pages = 2
  num_buckets = 2
  Key = {1, 2, 3, 4, 5}
  Record = {r1, r2}
  NULL = NULL
VIEW MCView
SPECIFICATION MCSpec
PROPERTIES
  ImplementsFlatMem
  ImplementsKeyMap
CHECK_DEADLOCK FALSE
