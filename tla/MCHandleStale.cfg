SPECIFICATION Spec
CONSTANTS
  c1 = c1
  c2 = c2
  pa = pa
  pb = pb
  i1 = i1
  i2 = i2
  i3 = i3
  n1 = n1
  n2 = n2
  n3 = n3
  Conns = {c1, c2}
  Paths = {pa, pb}
  Ids = {i1, i2, i3}
  Inodes = {n1, n2, n3}
  Files0 <- TwoFiles
  Limit = 2
  MaxOps = 5
  Cost <- Renames
  Nil = Nil
SYMMETRY Symmetry
CHECK_DEADLOCK FALSE
INVARIANT NoStaleInode
