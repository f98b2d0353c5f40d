----------------------------- MODULE MCNodeCache -----------------------------
EXTENDS NodeCache, TLC

Symmetry == Permutations(Writers)
=============================================================================
