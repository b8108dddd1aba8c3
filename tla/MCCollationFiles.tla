-------------------------- MODULE MCCollationFiles --------------------------
EXTENDS CollationFiles, TLC
Symmetry == Permutations(Children) \cup Permutations(Dicts)
=============================================================================
