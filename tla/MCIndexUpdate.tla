--------------------------- MODULE MCIndexUpdate ---------------------------
EXTENDS IndexUpdate, TLC

Symmetry == Permutations(Process) \cup Permutations(URL)
=============================================================================
