CONSTANTS
    a1 = a1
    a2 = a2
    b1 = b1
    ta = ta
    tb = tb
    good = good
    bad = bad
    v1 = v1
    Modules <- MCModules
    TenantOf <- MCTenantOf
    DigestOf <- MCDigestOf
    VersionOf <- MCVersionOf
    GoodDigests = {good}
    Calls = {c1, c2}
    Runs = {r1, r2}
    NoModule = NoModule
    Lifetime = 1
    FailureLife = 0
    MaxFaults = 1
    MaxRestarts = 1
SYMMETRY MCSymmetry
SPECIFICATION Spec
INVARIANTS
    TypeOK
    RunsOwnCode
    AcknowledgedIsDurable
PROPERTIES
    WithdrawalIsFinal
    FailuresHeal
CHECK_DEADLOCK FALSE
