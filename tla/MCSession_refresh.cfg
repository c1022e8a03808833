SPECIFICATION FairSpec
CONSTANTS
    w1 = w1
    r1 = r1
    r2 = r2
    Nobody = Nobody
    Tabs = {w1}
    Tenants = {ta}
    Reqs = {r1, r2}
    TabOf <- OneTab
    Calls = {c1, c2}
    MaxTokens = 2
INVARIANTS SessionInv
PROPERTIES SpentOnce WedgedOnlyAtLogin RequestsSettle
CHECK_DEADLOCK FALSE
