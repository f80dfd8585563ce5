SPECIFICATION ServiceSpec
CONSTANTS
    Event = {e1, e2, e3}
    Request = {e1, e2, e3}
    Token = {"token"}
    TokenOf <- OneToken
    Capacity = 2
    NoEvent = NoEvent
CHECK_DEADLOCK FALSE
INVARIANTS
    ServiceTypeOK
    EventsConserved
    InOrderUntilClose
    CloseLeavesAtMostOne
PROPERTIES
    AcceptedIsPosted
    ImplementsOutbox
    RevokedStaysOut
