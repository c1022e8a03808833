SPECIFICATION FairSpec
CONSTANTS
    t1 = t1
    b1 = b1
    b2 = b2
    h1 = h1
    k1 = k1
    s1 = s1
    NoBill = NoBill
    Bills = {b1, b2}
    Suffixes = {s1}
    SuffixOf <- OneSuffix
    FirstDue = 0
    Month = 2
    Grace = 0
    Tenants = {t1}
    TenantOf <- OneTenant
    Handlers = {h1}
    Pollers = {k1}
    MaxDay = 2
    MaxFaults = 1
INVARIANTS BillingInv
PROPERTIES NoFreeMonth OverdueIsSuspended
CHECK_DEADLOCK FALSE
