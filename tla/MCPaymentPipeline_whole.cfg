SPECIFICATION BoundedSpec
CONSTANTS
    p1 = p1
    p2 = p2
    h1 = h1
    k1 = k1
    w1 = w1
    s1 = s1
    c1 = c1
    c2 = c2
    NoPayment = NoPayment
    NoReceipt = NoReceipt
    NoCode = NoCode
    Payments = {p1, p2}
    Handlers = {h1}
    Pollers = {k1}
    Suffixes = {s1}
    SuffixOf <- OneSuffix
    MaxDeliveries = 1
    MaxFaults = 1
    Workers = {w1}
    Codes = {c1, c2}
    Guests = {}
    Metered = {}
    MaxTries = 1
    ArqMaxTries = 2
    MaxQueued = 1
    MaxCrashes = 1
PROPERTIES ImplementsLifecycle MeetsEnvironment PaidIsServed
CHECK_DEADLOCK FALSE
