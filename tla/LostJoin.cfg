SPECIFICATION FairSpec
CONSTANTS
    Node = {1, 2}
    None = None
    Bootstrap = 1
    ConfigShards <- SameShards
    DefaultShards = 3
    Command = {}
    MaxTerms = 1
    MaxStops = 0
    MaxFlaps = 0
    MaxLosses = 0
    MaxSnapshots = 0
    MaxTimeouts = 0
CHECK_DEADLOCK FALSE
PROPERTIES
    TotalMembersConverges
