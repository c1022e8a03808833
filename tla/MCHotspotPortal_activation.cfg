SPECIFICATION FairSpec
CONSTANTS
    g1 = g1  c1 = c1  k1 = k1
    Guests = {g1}  Customers = {}  Packages = {k1}
    Typed = Typed  None = None
    MaxPayments = 1  MaxReloads = 0  MaxTabs = 1
PROPERTIES ActivationEnds
CHECK_DEADLOCK FALSE
