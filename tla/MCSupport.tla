----------------------------- MODULE MCSupport -----------------------------
EXTENDS Support, TLC

Symmetry == Permutations(Sessions) \cup Permutations(Ids)
=============================================================================
