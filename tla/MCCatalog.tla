------------------------------ MODULE MCCatalog ------------------------------
EXTENDS Catalog, TLC

Symmetry == Permutations(Sessions) \cup Permutations(Variants) \cup Permutations(Axes)
=============================================================================
