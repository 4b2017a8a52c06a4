---------------------------- MODULE MCProjectProxy ----------------------------
EXTENDS ProjectProxy
=============================================================================
