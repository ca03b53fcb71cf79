CONSTANTS
    e1 = e1
    e2 = e2
    key = key
    Execs <- MCExecs
    Keys = {key}
    NoKey = NoKey
    KeyOf <- MCSameKey
    Workers = {w1, w2}
    Cancels = {k1}
    NoExec = NoExec
    MaxFaults = 0
    MaxRestarts = 0
SYMMETRY MCSymmetry
SPECIFICATION SafeSpec
INVARIANTS
    TypeOK
    LeasesMatchRuns
    OneWorkerPerJob
    ExecutedAtMostOnce
    PayloadWaitsForRun
PROPERTIES
    ImplementsLifecycle
CHECK_DEADLOCK FALSE
