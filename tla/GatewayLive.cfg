\* Two requests at a time for auth-service, with the fairness of the gateway.
SPECIFICATION LiveSpec
CONSTANTS
    admin = admin
    member = member
    Requests = {r1, r2}
    Users = {admin, member}
    Admins = {admin}
    NoUser = NoUser
    Seconds = {1}
    NoToken = NoToken
    Sent <- MCSentToAuth
    BreakerTimeout = 2
    RequestTimeout = 3
    ResetTimeout = 3
PROPERTIES
    EveryRequestIsAnswered
    BreakersRelent
