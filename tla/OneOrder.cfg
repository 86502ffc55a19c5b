\* One order from end to end: the retry limit of the code, two overlapping
\* retry loops, two prices, a wallet that may be missing, short or topped up.
CONSTANTS
    o1 = o1
    o2 = o2
    p1 = p1
    p2 = p2
    u1 = u1
    Orders = {o1}
    Products = {p1, p2}
    OnSale = {p1, p2}
    Users = {u1}
    Ticks = {1, 2}
    MaxRetries = 3
    StuckLimit = 10
    RowsMayFail = TRUE
    Totals = {1, 2}
    TopUps = {1}
    InitialBalance = 1
    MaxDeposit = 2
    Lines <- OneOrderLines
    Demand <- OneOrderDemand
    InitStock <- OneOrderStock
    Customer <- OneOrderCustomer
SPECIFICATION FairSpec
INVARIANTS
    TypeOK
    SagaInv
    OneVerdict
    ConfirmedIsPaidAndHeld
    CancelledIsUndone
    ChargedGoodsStayReserved
    WalletAccounted
    StockAccounted
PROPERTIES
    EverySagaEnds
    EndedSagaIsFinal
    ImplementsContract
CHECK_DEADLOCK FALSE
