---------------------------- MODULE MCFdCoherence ----------------------------
EXTENDS FdCoherence, TLC

CONSTANTS c1, c2, h1, h2, w1, w2

Symmetry == Permutations(Conns) \cup Permutations(Fds) \cup Permutations(Writes)
=============================================================================
