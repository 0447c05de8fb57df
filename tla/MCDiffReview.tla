---------------------------- MODULE MCDiffReview ----------------------------
EXTENDS DiffReview, TLC
Symmetry == Permutations(Docs) \cup Permutations(Mods)
=============================================================================
