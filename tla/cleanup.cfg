SPECIFICATION CleanupSpec
CONSTANTS
    p1 = p1
    p2 = p2
    p3 = p3
    r1 = r1
    Process = {p1, p2, p3, r1}
    First = p1
    Foreign = {r1}
    Owner = Owner
INVARIANTS
    OnlyTheMovedAreMissed
PROPERTIES
    ForeignUntouched
    CleanupEnds
CHECK_DEADLOCK FALSE
