CONSTANTS
  k1 = k1
  k2 = k2
  c1 = c1
  c2 = c2
  c3 = c3
  w1 = w1
  Key = {k1, k2}
  KeyList <- SomeKeyLists
  MaxReq = 3
  Cell = {c1, c2, c3}
  Main = Main
  Worker = {w1}
  MaxObj = 1
  NULL = NULL
SPECIFICATION FairSpec
INVARIANTS TypeOK ListSound NoneForgotten
PROPERTIES PostedComplete StoreUnlocks
