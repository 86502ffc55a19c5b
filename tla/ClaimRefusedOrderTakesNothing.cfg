\* Integration test: a failed reservation rolls back every line.
CONSTANTS
    o1 = o1
    o2 = o2
    p1 = p1
    p2 = p2
    u1 = u1
    Orders = {o1, o2}
    Products = {p1, p2}
    OnSale = {p1, p2}
    Users = {u1}
    Ticks = {}
    MaxRetries = 0
    StuckLimit = 10
    RowsMayFail = TRUE
    Totals = {2}
    TopUps = {1}
    InitialBalance = 2
    MaxDeposit = 2
    Lines <- TwoOrdersLines
    Demand <- TwoOrdersDemand
    InitStock <- TwoOrdersStock
    Customer <- TwoOrdersCustomer
SPECIFICATION Spec
INVARIANT
    RefusedOrderTakesNothing
CHECK_DEADLOCK FALSE
