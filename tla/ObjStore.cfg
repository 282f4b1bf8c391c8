CONSTANTS
  k1 = k1
  k2 = k2
  w1 = w1
  w2 = w2
  a1 = a1
  a2 = a2
  a3 = a3
  x1 = x1
  b1 = b1
  Key = {k1, k2}
  Worker = {w1, w2}
  Addr = {a1, a2, a3}
  RObj = {x1, NilValue}
  NilValue = NilValue
  Buf = {b1}
  RAW = RAW
  NULL = NULL
SPECIFICATION Spec
SYMMETRY Symmetry
INVARIANTS TypeOK EntriesAccounted PreserveBalanced MainEntryValid
PROPERTIES PublishedImmutable ImplementsKVStore
