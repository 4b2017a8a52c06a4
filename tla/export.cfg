SPECIFICATION Spec
CONSTANTS
    dir = dir
    inner = inner
    top = top
    Process = {p1, p2}
    Project = {x, y}
    Walk <- WalkThree
    Parent <- ParentThree
    Root = Root
    Unit = {u1, u2}
    Nobody = Nobody
    MaxEdits = 2
    MaxBuilds = 2
    MaxFaults = 1
SYMMETRY Symmetry
INVARIANTS
    ConfigKept
    InstalledIsVerified
    UndoneIsClean
PROPERTIES
    UserEntriesKept
CHECK_DEADLOCK FALSE
