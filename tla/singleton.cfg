SPECIFICATION Spec
CONSTANTS
    s1 = s1
    s2 = s2
    c1 = c1
    c2 = c2
    Starter = {s1, s2}
    Client = {c1, c2}
    None = None
    MaxFaults = 1
INVARIANTS
    SingleDaemon
    ServingIsPublished
    AnswersHold
PROPERTIES
    OrphanedStartEnds
CHECK_DEADLOCK FALSE
