SPECIFICATION ProxySpec
CONSTANTS
    Proxy = {p1}
    Connect = {c1}
    Plain = {r1}
    None = None
INVARIANTS
    NoLeak
PROPERTIES
    CleanupEnds
    BrokenTunnelEnds
CHECK_DEADLOCK FALSE
