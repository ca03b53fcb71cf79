CONSTANTS
    e1 = e1
    e2 = e2
    key = key
    Execs <- MCExecs
    Keys = {key}
    NoKey = NoKey
    KeyOf <- MCSameKey
    Workers = {w1}
    Cancels = {k1}
    NoExec = NoExec
    MaxFaults = 0
    MaxRestarts = 0
SPECIFICATION Spec
PROPERTIES
    AcceptedEnds
CHECK_DEADLOCK FALSE
