CONSTANTS
  c1 = c1
  c2 = c2
  Callers = {c1, c2}
  Patient = {c1}
  WriteQueueCap = 1
  BufferCap = 1
  NetCap = 1
  SubCap = 1
  KeepAliveTimeout = 1
  Setups <- MCSetups
SPECIFICATION LiveSpec
INVARIANT TypeOK
INVARIANT ReplyAnswersOwnRequest
INVARIANT ResolveFindsChannelOpen
INVARIANT WaiterIsKnown
PROPERTY ImplementsRequestReply
PROPERTY RequestsEnd
PROPERTY BreakIsSignalled
CHECK_DEADLOCK FALSE
