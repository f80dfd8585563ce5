SPECIFICATION FairSpec
CONSTANTS
    Node = {1, 2}
    Peers <- AllOthers
    Discovery <- SomeDiscovery
    Message = {m}
    RetransmitLimit = 2
    HttpTries = 1
    MaxStarts = 3
    MaxCuts = 2
CHECK_DEADLOCK FALSE
INVARIANTS
    TypeOK
    DeliveriesAreBounded
PROPERTIES
    PeersReconverge
    DirectIsHandled
    LeaveIsSeen
