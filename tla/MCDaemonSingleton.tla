-------------------------- MODULE MCDaemonSingleton --------------------------
EXTENDS DaemonSingleton

CONSTANTS s1, s2, c1, c2
=============================================================================
