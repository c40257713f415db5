------------------------------- MODULE MCTeam -------------------------------
EXTENDS Team, TLC

Symmetry == Permutations(Sessions) \cup Permutations(Tokens)
=============================================================================
