---------------------------- MODULE MCHandleLife -----------------------------
EXTENDS HandleLife, TLC

CONSTANTS c1, c2, pa, pb, i1, i2, i3, n1, n2, n3

TwoFiles == (pa :> n1) @@ (pb :> n2)

\* All sequences of three requests, and of four with at most one that changes the names.
Mixed == [lookup |-> 3, rename |-> 4, io |-> 3, create |-> 4, remove |-> 4]

\* LOOKUP, RENAME and READ/WRITE alone.
Renames == [lookup |-> 1, rename |-> 1, io |-> 1, create |-> 6, remove |-> 6]

Symmetry == Permutations(Conns) \cup Permutations(Ids)
=============================================================================
