CONSTANTS
    e1 = e1
    e2 = e2
    key = key
    Execs <- MCOneExec
    Keys = {key}
    NoKey = NoKey
    KeyOf <- MCOne
    Workers = {w1}
    Cancels = {k1}
    NoExec = NoExec
    MaxFaults = 0
    MaxRestarts = 0
SPECIFICATION Spec
PROPERTIES
    CancelTakesEffect
CHECK_DEADLOCK FALSE
