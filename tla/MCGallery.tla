------------------------------ MODULE MCGallery ------------------------------
EXTENDS Gallery, TLC

Symmetry == Permutations(Sessions) \cup Permutations(Files)
=============================================================================
