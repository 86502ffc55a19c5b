SPECIFICATION Spec
CONSTANTS
    Orders = {o1, o2}
    Workers = {w1, w2}
    MaxAttempts = 2
SYMMETRY MCSymmetry
INVARIANTS
    FulfilmentInv
    MailedAtMostOnce
    ReceiptIsWhole
CHECK_DEADLOCK FALSE
