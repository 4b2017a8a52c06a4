--------------------------- MODULE MCServiceFiles ---------------------------
EXTENDS ServiceFiles

Symmetry == Permutations(Process) \cup Permutations(Service)
=============================================================================
