--------------------------- MODULE MCEffectCallback ---------------------------
EXTENDS EffectCallback, TLC

Symmetry == Permutations(Requests)
=============================================================================
