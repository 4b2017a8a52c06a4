SPECIFICATION Spec
CONSTANTS
    Name = {1, 2, 3}
    Version = {1, 2}
    Commanded = {2, 3}
    Catalog <- Catalogs
    Word <- MCWord
    Parsed <- MCParsed
    MaxTargets = 2
    MaxInstalled = 3
INVARIANTS
    Environment
    PlansAreExact
    CleanupIsExact
