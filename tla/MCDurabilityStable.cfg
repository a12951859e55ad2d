SPECIFICATION Spec
CONSTANTS
  c1 = c1
  c2 = c2
  k1 = k1
  k2 = k2
  h1 = h1
  h2 = h2
  w1 = w1
  w2 = w2
  Conns = {c1, c2}
  Keys = {k1}
  Handles = {h1, h2}
  Writes = {w1, w2}
  KeyOf <- OneFile
  MaxSize = 1
  HasSync = TRUE
  Workload = {"stable", "commit"}
  MaxOps = 2
  Nil = Nil
SYMMETRY Symmetry
CHECK_DEADLOCK FALSE
INVARIANT StableMeansDurable
