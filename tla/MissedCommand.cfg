SPECIFICATION Spec
CONSTANTS
    Node = {1, 2}
    None = None
    Bootstrap = 1
    ConfigShards <- SameShards
    DefaultShards = 3
    Command = {c1}
    MaxTerms = 2
    MaxStops = 1
    MaxFlaps = 0
    MaxLosses = 0
    MaxSnapshots = 0
    MaxTimeouts = 0
CHECK_DEADLOCK FALSE
ACTION_CONSTRAINT
    RegisterAtOnce
INVARIANTS
    HandlersSeeEveryCommand
