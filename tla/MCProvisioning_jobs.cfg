SPECIFICATION BoundedSpec
CONSTANTS
    p1 = p1
    p2 = p2
    w1 = w1
    w2 = w2
    c1 = c1
    c2 = c2
    c3 = c3
    NoPayment = NoPayment
    NoCode = NoCode
    Payments = {p1, p2}
    Workers = {w1, w2}
    Codes = {c1, c2, c3}
    Guests = {p1}
    Metered = {p1}
    MaxTries = 2
    ArqMaxTries = 3
    MaxBurst = 2
    MaxQueued = 1
    MaxCrashes = 1
SYMMETRY Symmetric
INVARIANTS ProvisioningInv VoucherBacked SoleIssuer InvoiceLostOnlyByFailure
CHECK_DEADLOCK FALSE
