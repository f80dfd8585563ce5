SPECIFICATION LookupSpec
CONSTANTS
    Node = {1, 2}
    None = None
    Bootstrap = 2
    ConfigShards <- TwoTotals
    DefaultShards = 3
    Key = {4}
    Command = {}
    MaxTerms = 2
    MaxStops = 1
    MaxFlaps = 0
    MaxLosses = 0
    MaxSnapshots = 1
    MaxTimeouts = 0
CHECK_DEADLOCK FALSE
INVARIANTS
    TypeOK
    FsmFollowsLog
    AnswersFollowLog
    LeaderIsServer
PROPERTIES
    ImplementsDirectory
