CONSTANTS
  b1 = b1
  b2 = b2
  Request <- SomeRequests
  Block = {b1, b2}
  MaxObj = 2
  MaxQueue = 1
  CutCRLF = TRUE
  LINE_BUF_SIZE = 12
  HEADERS_SIZE = 7
  HEADERS_MORE = 2
  NULL = NULL
SPECIFICATION Spec
INVARIANT RequestIntact
