CONSTANTS
  c1 = c1
  c2 = c2
  f1 = f1
  f2 = f2
  e1 = e1
  e2 = e2
  w1 = w1
  w2 = w2
  Client = {c1, c2}
  FD = {f1, f2}
  Ent = {e1, e2}
  Worker = {w1, w2}
  ROOT = ROOT
  NULL = NULL
SPECIFICATION FairSpec
INVARIANTS TypeOK OwnSocket NoSocketLeak ListRep NoIdleWorker
PROPERTIES AcceptedServed ChildKeepsServed
