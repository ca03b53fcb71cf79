CONSTANTS
    Clients = {h1}
    Operators = {o1}
    Streams = {s1}
    PoolSize = 1
    NoExec = NoExec
SPECIFICATION Spec
INVARIANTS
    TypeOK
    DrainIsPrompt
    RuntimeClosedLast
PROPERTIES
    SnapshotsAdvance
    ShutdownEnds
    StreamsEnd
CHECK_DEADLOCK FALSE
