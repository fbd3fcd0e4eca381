-------------------------- MODULE MCWorkProjection --------------------------
EXTENDS WorkProjection
Symmetry == Permutations(Workers) \cup Permutations(Sessions) \cup Permutations(WorkNodes)
=============================================================================
