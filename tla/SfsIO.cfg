CONSTANTS
  Robject <- AllObjects
  MAX_DEPTH = 4
  Depth <- Heights
  Object <- SomeObjects
  Sink <- AllSinks
  DEF_BUF_SIZE = 30
  MAX_CHUNK_SIZE = 24
  MIN_INPLACE_SIZE = 12
  MAX_SEND_SIZE = 7
  MAX_RECV_SIZE = 6
  DEC_BUF_SIZE = 6
  Malloced <- Uninitialised
  Garbage = {0, 103}
SPECIFICATION FairSpec
INVARIANTS Accounted RoundTrip
PROPERTY LoadReturns
CHECK_DEADLOCK FALSE
