CONSTANTS
    Tenants = {ta, tb}
    LeaseIDs = {l1, l2, l3}
    Limits <- MCLimits
    DefaultLimit <- MCDefault
    Pages = {1, 2, 3}
    NoTenant = NoTenant
    RunCPU = 2
    Window = 2
    SlotCap = 3
    CPUCap = 2
    PageCap = 2
SYMMETRY MCSymmetry
SPECIFICATION Spec
INVARIANTS
    TypeOK
    ActiveCountsLeases
    OvershootIsBounded
PROPERTIES
    GrantedWithinSlots
    UsageKeptInWindow
