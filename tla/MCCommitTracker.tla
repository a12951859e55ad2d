--------------------------- MODULE MCCommitTracker ---------------------------
EXTENDS CommitTracker, TLC

CONSTANTS k1, k2, f1, f2, w1, w2
=============================================================================
