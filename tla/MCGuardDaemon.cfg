SPECIFICATION FairSpec
CONSTANTS
    Adj = {p1}
    Policies <- MCPolicies
    MaxCrashes = 1
CHECK_DEADLOCK FALSE
INVARIANTS
    Durable
PROPERTIES
    DisableStops
    ReloadTaken
