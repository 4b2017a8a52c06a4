------------------------- MODULE MCServiceSupervisor -------------------------
EXTENDS ServiceSupervisor, TLC

CONSTANTS c1, c2

Symmetry == Permutations(Client)
=============================================================================
