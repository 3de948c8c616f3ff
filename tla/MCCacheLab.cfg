SPECIFICATION Spec
CONSTANTS
  AddrBits = 28
  IntBits = 14
  None = None
  FileMissing = FileMissing
  BlockSize = 8
  Small = 32
  Large = 16
  TMPCOUNT = 256
  Leftovers <- MCLeftovers
  TRACE_INFO <- MCTraceInfo
  TraceFiles <- MCTraceFiles
  CommandLines <- MCCommandLines
  TransCalls <- MCTransCalls
  RowBytes <- MCRowBytes
  Addresses <- MCAddresses
INVARIANTS
  MarkedFairly
  FunctionsTranspose
  Trans32FullScore
PROPERTIES
  ImplementsSetLRU
CHECK_DEADLOCK FALSE
