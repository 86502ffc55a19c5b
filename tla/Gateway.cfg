\* Two requests at a time, of an administrator, a member or nobody, for routes
\* of every kind; the clocks keep the order 4.5 s < 5 s < 30 s.
SPECIFICATION Spec
CONSTANTS
    admin = admin
    member = member
    Requests = {r1, r2}
    Users = {admin, member}
    Admins = {admin}
    NoUser = NoUser
    Seconds = {1}
    NoToken = NoToken
    Sent <- MCSent
    BreakerTimeout = 1
    RequestTimeout = 2
    ResetTimeout = 2
INVARIANTS
    GatewayInv
    AnswersAreTrue
    ActsWithAuthority
SYMMETRY MCSymmetry
