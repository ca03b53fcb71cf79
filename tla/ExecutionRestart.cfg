CONSTANTS
    e1 = e1
    e2 = e2
    key = key
    Execs <- MCExecs
    Keys = {key}
    NoKey = NoKey
    KeyOf <- MCOneKey
    Workers = {w1}
    Cancels = {k1}
    NoExec = NoExec
    MaxFaults = 1
    MaxRestarts = 1
SPECIFICATION SafeSpec
INVARIANTS
    ReportedIsDurable
    AcceptedIsDurable
    KeysPointToRecords
    StrandedOnlyWhenInterrupted
PROPERTIES
    SettledIsFinal
CHECK_DEADLOCK FALSE
