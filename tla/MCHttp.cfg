CONSTANTS
  c1 = c1  c2 = c2  d1 = d1
  Client = {c1, c2, d1}
  Direct = {d1}
  Impatient = {c1}
  SOCKBUF = 8
  RIO_BUFSIZE = 6
  MAXLINE = 5
  MAXBUF = 18
  MAX_OBJECT_SIZE = 6
  HeaderName <- MCHeaderName
  Parts <- MCParts
  Mode <- MCMode
  Content <- MCContent
  Parsed <- MCParsed
  
  Requests <- MCRequests
SPECIFICATION FairSpec
INVARIANTS ForwardedWellFormed CachedIsComplete AnswersItsRequest
PROPERTY EveryClientAnswered
CHECK_DEADLOCK FALSE
