SPECIFICATION FairSpec
CONSTANTS
    Node = {1, 2}
    None = None
    Bootstrap = 1
    ConfigShards <- SameShards
    DefaultShards = 3
    Command = {}
    MaxTerms = 1
    MaxStops = 0
    MaxFlaps = 1
    MaxLosses = 1
    MaxSnapshots = 0
    MaxTimeouts = 1
CHECK_DEADLOCK FALSE
INVARIANTS
    AssignmentsPartition
PROPERTIES
    JoinIsAssigned
    LeaveIsUnassigned
