SPECIFICATION Spec
CONSTANTS
    Key = {k1}
    Value = {v1, v2}
    Getter = {g1}
    Unset = Unset
    NoEntry = NoEntry
    NoNews = NoNews
    MaxChanges = 1
    MaxDrops = 0
CHECK_DEADLOCK FALSE
PROPERTIES
    CacheConverges
