SPECIFICATION FairSpec
CONSTANTS
  c1 = c1
  c2 = c2
  k1 = k1
  k2 = k2
  h1 = h1
  h2 = h2
  w1 = w1
  w2 = w2
  Conns = {c1, c2}
  Keys = {k1}
  Handles = {h1, h2}
  Writes = {w1}
  KeyOf <- OneFile
  MaxSize = 1
  HasSync = FALSE
  Workload = {"unstable", "stable", "commit", "read", "drop"}
  MaxOps = 1
  Nil = Nil
CHECK_DEADLOCK FALSE
INVARIANTS IInv
PROPERTY RequestsEnd
