------------------------ MODULE MCPackageTransaction ------------------------
EXTENDS PackageTransaction, TLC

CONSTANTS a, c, v1, v2, p1, oheco

\* The client, and two versions of one package, of which the later one has
\* launcher options; all want the same command.
DirTwo == {<<a, v1>>, <<a, v2>>, <<oheco, v1>>}
ProvidesTwo == [d \in DirTwo |-> {c}]
LauncherTwo == {<<a, v2>>}
=============================================================================
