SPECIFICATION Spec
CONSTANTS
    Process = {p1, p2}
    Root = {"r1", "r2"}
    Word = {"w"}
    Service = {s1, s2}
    Absent = Absent
    Partial = Partial
    Nothing = Nothing
    Free = Free
    MaxEdits = 2
    MaxFaults = 1
SYMMETRY Symmetry
INVARIANTS
    RoundTrip
PROPERTIES
    OthersKept
    EachCallInTurn
CHECK_DEADLOCK FALSE
