--------------------------- MODULE MCProjectExport ---------------------------
EXTENDS ProjectExport, TLC

CONSTANTS dir, inner, top

\* a directory with a file in it, and a file beside it
WalkThree == <<dir, inner, top>>
ParentThree == dir :> Root @@ inner :> dir @@ top :> Root

Symmetry == Permutations(Process) \cup Permutations(Unit) \cup Permutations(Project)
=============================================================================
