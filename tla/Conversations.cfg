SPECIFICATION Spec
CONSTANTS
    Process = {p1, p2}
    Message = {m1, m2}
    Session = {s1, s2}
    MetaKey = MetaKey
    CostKey = CostKey
    NoConv = NoConv
    Key <- MCKey
    Data <- MCData
    Absent = Absent
    Empty = Empty
    Torn = Torn
    PageSize = 1000
    MaxFaults = 1
SYMMETRY Symmetry
CHECK_DEADLOCK FALSE
INVARIANTS
    TypeOK
    MessagesAreWhole
    AckedMessagesSurvive
    GetSeesAcked
    GetTotalIsBacked
