SPECIFICATION Spec
CONSTANTS
    Key = {k1}
    Value = {v1, v2}
    Getter = {g1, g2}
    Unset = Unset
    NoEntry = NoEntry
    NoNews = NoNews
    MaxChanges = 2
    MaxDrops = 1
CHECK_DEADLOCK FALSE
INVARIANTS
    TypeOK
    SyncedReplay
    SubscriptionsSurvive
    HandlersMatchCache
PROPERTIES
    SubscriptionsRecover
    CloseEndsLoop
