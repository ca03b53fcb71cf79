CONSTANTS
    a1 = a1
    a2 = a2
    b1 = b1
    b2 = b2
    c1 = c1
    ta = ta
    tb = tb
    tc = tc
    NoJob = NoJob
    TenantIDs <- MCTenantIDs
    Jobs <- MCJobs
    TenantOf <- MCTenantOf
    Consumers = {w1, w2}
SPECIFICATION Spec
INVARIANTS
    TypeOK
    RingOK
    NoLostWakeup
PROPERTIES
    UpcomingKeepTurn
    TenantFifo
    ImplementsJobQueue
CHECK_DEADLOCK FALSE
