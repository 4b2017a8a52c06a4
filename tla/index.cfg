SPECIFICATION Spec
CONSTANTS
    Process = {p1, p2}
    URL = {u1, u2}
    NoUrl = NoUrl
    User = User
    Unusable = Unusable
    MaxAt = 2
    MaxFaults = 1
SYMMETRY Symmetry
INVARIANTS
    OneRefresh
    RequestsFit
PROPERTIES
    NoRollback
CHECK_DEADLOCK FALSE
