----------------------------- MODULE MCTemplates -----------------------------
EXTENDS Templates, TLC

Symmetry ==
    Permutations(Sessions) \cup Permutations(Keys)
        \cup Permutations(Values)
=============================================================================
