\* Two processes on one outbox of three rows, batches of two.
CONSTANTS
    Rows = {r1, r2, r3}
    Instances = {i1, i2}
    MaxAttempts = 2
    BatchSize = 2
    MaxMishaps = 1
SPECIFICATION FairSpec
INVARIANTS
    OutboxInv
    PublishedWasSent
    NoDuplicateWithoutMishap
PROPERTIES
    EveryRowSettles
    BehavesAsTransport
CHECK_DEADLOCK FALSE
