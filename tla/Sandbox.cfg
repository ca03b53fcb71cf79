CONSTANTS
    x1 = x1
    x2 = x2
    t1 = t1
    Execs <- MCExecs
    Probes = {p1}
    Tenants = {t1}
    TenantOf <- MCTenantOf
    Requests <- MCRequests
    MaxBudget <- MCMaxBudget
    MaxLength = 3000
    Lengths = {3, 6}
    Durations = {20}
    Rate = 1
    PerSecond = 2
    MaxTime = 2
SYMMETRY MCSymmetry
SPECIFICATION Spec
INVARIANTS
    TypeOK
    RateKept
    ResultWithinBudget
    ClassMatchesCause
    MeterIsExact
    DeliveriesAreHonest
CHECK_DEADLOCK FALSE
