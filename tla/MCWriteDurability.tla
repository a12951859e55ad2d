------------------------- MODULE MCWriteDurability -------------------------
EXTENDS WriteDurability, TLC

CONSTANTS c1, c2, k1, k2, h1, h2, w1, w2

OneFile == [w \in Writes |-> k1]
TwoFiles == (w1 :> k1) @@ (w2 :> k2)

Symmetry == Permutations(Conns) \cup Permutations(Handles) \cup Permutations(Writes)
SymTwo == Permutations(Conns) \cup Permutations(Handles)
=============================================================================
