SPECIFICATION Spec
CONSTANTS
    p1 = p1
    p2 = p2
    h1 = h1
    h2 = h2
    k1 = k1
    s1 = s1
    s2 = s2
    NoPayment = NoPayment
    NoReceipt = NoReceipt
    Suffixes = {s1, s2}
    Payments = {p1, p2}
    Handlers = {h1, h2}
    Pollers = {k1}
    SuffixOf <- SharedSuffix
    MaxDeliveries = 2
    MaxFaults = 1
SYMMETRY Symmetric
INVARIANTS ConfirmedIsPaid ReceiptUnique QueuedIsConfirmed
PROPERTIES SettledForGood MpesaReceiptKept
CHECK_DEADLOCK FALSE
