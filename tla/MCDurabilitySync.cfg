SPECIFICATION Spec
CONSTANTS
  c1 = c1
  c2 = c2
  k1 = k1
  k2 = k2
  h1 = h1
  h2 = h2
  w1 = w1
  w2 = w2
  Conns = {c1, c2}
  Keys = {k1, k2}
  Handles = {h1, h2}
  Writes = {w1, w2}
  KeyOf <- TwoFiles
  MaxSize = 1
  HasSync = TRUE
  Workload = {"unstable", "stable", "read", "commit"}
  MaxOps = 1
  Nil = Nil
SYMMETRY SymTwo
CHECK_DEADLOCK FALSE
INVARIANTS CommitCovers ReadCovers StableCovers
PROPERTY ImplementsBarrier
