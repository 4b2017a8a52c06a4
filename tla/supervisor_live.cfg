SPECIFICATION FairSpec
CONSTANTS
    c1 = c1
    c2 = c2
    Client = {c1}
    Restart = "always"
    Enabled = TRUE
    Burst = 1
    Nobody = Nobody
    MaxCalls = 1
    MaxBoots = 1
    MaxFaults = 1
PROPERTIES
    RequestsReturn
    ShutdownEnds
    RetriesHappen
CHECK_DEADLOCK FALSE
