SPECIFICATION Spec
CONSTANTS
  c1 = c1
  c2 = c2
  h1 = h1
  h2 = h2
  w1 = w1
  w2 = w2
  Conns = {c1, c2}
  Fds = {h1, h2}
  Writes = {w1, w2}
  Workload = {"setattr"}
  MaxUses = 2
  MaxChanges = 1
  Nil = Nil
SYMMETRY Symmetry
CHECK_DEADLOCK FALSE
INVARIANT NoResurrection
