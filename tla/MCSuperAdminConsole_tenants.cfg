SPECIFICATION Spec
CONSTANTS
    ta = ta
    tb = tb
    e1 = e1
    s1 = s1
    s2 = s2
    w1 = w1
    w2 = w2
    Nobody = Nobody
    Tenants = {ta, tb}
    Emails = {e1}
    Slots = {s1, s2}
    Windows = {w1, w2}
    MaxCalls = 2
    MaxOthers = 1
SYMMETRY Sym
CONSTRAINT Bounds
INVARIANTS ConsoleInv PageIsUpToDate
CHECK_DEADLOCK FALSE
