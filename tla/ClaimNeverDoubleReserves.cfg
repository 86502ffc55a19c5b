SPECIFICATION Spec
CONSTANTS
    reserve = reserve
    pay = pay
    Commands = {reserve}
    OncePerOrder = {}
    Junk = Junk
    Consumers = {c1, c2}
    Nobody = Nobody
    MaxRetries = 3
    MaxLog = 2
    MaxMishaps = 1
INVARIANT NeverDoubleReserves
CHECK_DEADLOCK FALSE
