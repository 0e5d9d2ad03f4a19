\* Two shells, a queue of two, three entries.
CONSTANTS
    Shell = {s1, s2}
    Nobody = Nobody
    Foreign = Foreign
    QueueCap = 2
    MaxEntries = 3
SPECIFICATION FairSpec
INVARIANTS
    TypeOK
    WholeLines
    FailedLoadWritesNothing
    Accounted
PROPERTIES
    ImplementsLog
    ShutdownReturns
    Settled
CHECK_DEADLOCK FALSE
