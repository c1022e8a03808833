SPECIFICATION DeskSpec
CONSTANTS
    r1 = r1
    c1 = c1
    NoTxn = NoTxn
    NoReseller = NoReseller
    SaleRef = SaleRef
    Me = r1
    Customers = {ann}
    Newcomers = {ben}
    None = None
    Resellers = {r1}
    Txns = {t1, t2}
    TransIds = {c1}
    PaidTo <- MCPaidTo
    PaidAmount <- MCPaidAmount
    Prices = {1}
    MaxRows = 2
    MaxFaults = 1
    MaxSales = 2
    MaxOpens = 2
SYMMETRY Symm
INVARIANTS DeskInv LedgerChains NeverOverdrawn CreditedOnce LockedIsLive CodeIsOfItsCustomer SecondSaleOnlyAfterError
CHECK_DEADLOCK FALSE
