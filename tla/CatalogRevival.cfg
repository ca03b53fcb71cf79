CONSTANTS
    a1 = a1
    a2 = a2
    b1 = b1
    ta = ta
    tb = tb
    good = good
    bad = bad
    v1 = v1
    Modules <- MCOneModule
    TenantOf <- MCTenantOf
    DigestOf <- MCDigestOf
    VersionOf <- MCVersionOf
    GoodDigests = {good}
    Calls = {c1, c2, c3}
    Runs = {}
    NoModule = NoModule
    Lifetime = 1
    FailureLife = 0
    MaxFaults = 0
    MaxRestarts = 0
SPECIFICATION Spec
PROPERTIES
    WithdrawnStaysWithdrawn
CHECK_DEADLOCK FALSE
