-------------------------- MODULE MCSessionCleanup --------------------------
EXTENDS SessionCleanup

CONSTANTS p1, p2, p3, r1
=============================================================================
