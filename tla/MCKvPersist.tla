---------------------------- MODULE MCKvPersist ----------------------------
EXTENDS KvPersist, TLC

Symmetry == Permutations(Records)
=============================================================================
