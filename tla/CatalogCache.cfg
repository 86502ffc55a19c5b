\* One product: an order and an HTTP client that name it on two lines, the
\* order's compensation, an admin and readers; Redis may fail, entries expire.
SPECIFICATION LiveSpec
CONSTANTS
    p1 = p1
    Products = {p1}
    Orders = {o1}
    Clients = {c1}
    Admins = {a1}
    Lines <- TwoLines
    MaxStock = 2
    RedisFails = TRUE
    NoCall = NoCall
INVARIANTS
    TypeOK
    UnitsAccounted
    StaleIsExplained
    CatalogInv
PROPERTIES
    EveryTransactionEnds
    ReservesAtomically
CHECK_DEADLOCK FALSE
