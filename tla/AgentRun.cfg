SPECIFICATION Spec
CONSTANTS
    Caller = {a1, a2}
    PipeSize = 1
    MaxLines = 2
    NoFile = NoFile
    Cut = Cut
CHECK_DEADLOCK FALSE
INVARIANTS
    TypeOK
    OutputIsComplete
    StaleIsNeverReported
    ConfigIsRemoved
PROPERTIES
    RunReturns
