SPECIFICATION Spec
CONSTANTS
    Node = {1, 2}
    None = None
    Bootstrap = 1
    ConfigShards <- SameShards
    DefaultShards = 3
    Command = {c1, c2}
    MaxTerms = 2
    MaxStops = 1
    MaxFlaps = 0
    MaxLosses = 0
    MaxSnapshots = 1
    MaxTimeouts = 0
SYMMETRY CommandSymmetry
ACTION_CONSTRAINT CommandsOnRunningCluster
CHECK_DEADLOCK FALSE
INVARIANTS
    AckedIsCommitted
    HandlersRunInLogOrder
