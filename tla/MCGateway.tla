----------------------------- MODULE MCGateway -----------------------------
\* Values of the constants of Gateway for TLC.
EXTENDS Gateway, TLC

CONSTANTS admin, member

MCSymmetry == Permutations(Requests)

MCRoute(service, name) == CHOOSE x \in AllRoutes : x.service = service /\ x.name = name

MCRequest(service, name, credential, target) ==
    [route |-> MCRoute(service, name), credential |-> credential, target |-> target]

MCToken(u) == [sub |-> u, iat |-> 1]

\* A route of every kind of guard and rule, asked for by those who may and by
\* those who may not.
MCSent ==
    {MCRequest("users", "updateUser", MCToken(member), member),
     MCRequest("users", "updateUser", MCToken(member), admin),
     MCRequest("users", "deleteUser", MCToken(admin), member),
     MCRequest("users", "deleteUser", MCToken(member), member),
     MCRequest("users", "deleteUser", NoToken, member),
     MCRequest("auth", "logout", MCToken(member), member),
     MCRequest("auth", "login", NoToken, member)}

\* The requests of them that auth-service serves.
MCSentToAuth == {q \in MCSent : q.route.service = "auth"}

=============================================================================
