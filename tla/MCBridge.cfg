CONSTANTS
    Call = {c1, c2}
    CanLoad = TRUE
    MaxFaults = 2
SPECIFICATION Spec
INVARIANTS
    HandlesOfThisConnection
    FreshHandshake
PROPERTIES
    CallsSettle
    Reconnects
CHECK_DEADLOCK FALSE
