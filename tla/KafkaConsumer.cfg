\* Two instances of a service; a reservation, a payment and an unparseable
\* message, two of them published in any order or twice.
SPECIFICATION LiveSpec
CONSTANTS
    reserve = reserve
    pay = pay
    Commands = {reserve, pay}
    OncePerOrder = {pay}
    Junk = Junk
    Consumers = {c1, c2}
    Nobody = Nobody
    MaxRetries = 2
    MaxLog = 2
    MaxMishaps = 1
INVARIANTS
    ConsumerInv
    RepeatNeedsOverlap
    CommittedIsSettled
PROPERTIES
    EveryMessageSettles
CHECK_DEADLOCK FALSE
