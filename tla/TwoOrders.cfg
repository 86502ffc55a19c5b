\* More stuck sagas than findStuck returns: two orders, a limit of one. Both are
\* refused at last, the first with the units the second would have needed.
CONSTANTS
    o1 = o1
    o2 = o2
    p1 = p1
    p2 = p2
    u1 = u1
    Orders = {o1, o2}
    Products = {p1, p2}
    OnSale = {p1, p2}
    Users = {u1}
    Ticks = {1}
    MaxRetries = 1
    StuckLimit = 1
    RowsMayFail = FALSE
    Totals = {1}
    TopUps = {}
    InitialBalance = 1
    MaxDeposit = 1
    Lines <- RivalsLines
    Demand <- RivalsDemand
    InitStock <- RivalsStock
    Customer <- TwoOrdersCustomer
SPECIFICATION FairSpec
INVARIANT
    StockAccounted
PROPERTIES
    EverySagaEnds
CHECK_DEADLOCK FALSE
