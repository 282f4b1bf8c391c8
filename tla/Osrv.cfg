CONSTANTS
  c1 = c1
  k1 = k1
  x = x
  Client = {c1}
  Key = {k1}
  Request <- SomeRequests
  Value <- SomeValues
  Byte <- SomeBytes
  Upper = {"E"}
  BufSize = 14
  MaxObj = 2
  NULL = NULL
SPECIFICATION FairSpec
INVARIANTS TypeOK AnswerTrue PutStored InStep
PROPERTIES AskReturns WorkerFreed
