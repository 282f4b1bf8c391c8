CONSTANTS
  q1 = q1
  q2 = q2
  e1 = e1
  e2 = e2
  e3 = e3
  c1 = c1
  c2 = c2
  Queue = {q1, q2}
  Entry = {e1, e2, e3}
  Consumer = {c1, c2}
  NULL = NULL
SPECIFICATION FairSpec
INVARIANTS TypeOK OwnedOnce ListRep NoLostWakeup
PROPERTIES PopWaitReturns
