SPECIFICATION Spec
CONSTANTS
    c1 = c1
    c2 = c2
    Client = {c1, c2}
    Restart = "on-failure"
    Enabled = TRUE
    Burst = 2
    Nobody = Nobody
    MaxCalls = 2
    MaxBoots = 2
    MaxFaults = 3
INVARIANTS
    LockCoversStrays
PROPERTIES
    SpawnIsAlone
    StopSticks
    StopIsComplete
SYMMETRY Symmetry
CHECK_DEADLOCK FALSE
