CONSTANTS
    a1 = a1
    a2 = a2
    b1 = b1
    b2 = b2
    c1 = c1
    ta = ta
    tb = tb
    tc = tc
    NoJob = NoJob
    TenantIDs <- SmallTenantIDs
    Jobs <- SmallJobs
    TenantOf <- SmallTenantOf
    Consumers = {w1}
SPECIFICATION Spec
PROPERTIES
    EveryTenantServed
CHECK_DEADLOCK FALSE
