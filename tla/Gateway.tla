------------------------------ MODULE Gateway ------------------------------
(***************************************************************************)
(* The gateway: JwtAuthGuard with the cache of JwtStrategy, RolesGuard,    *)
(* TimeoutInterceptor, the proxy controllers, and ProxyService with one    *)
(* circuit breaker for each service, together with the checks the services *)
(* make of the user that the gateway's headers name.                       *)
(*                                                                         *)
(* Three clocks matter: the breaker's timeout of a call (4.5 s), the       *)
(* interceptor's timeout of a request (5 s) and the time a breaker stays   *)
(* open (30 s).  They are counted down by Tick, which waits for a clock    *)
(* that has run out to be attended to.  A service is as slow as it likes,  *)
(* goes on with a call that the gateway has given up, and may lose the     *)
(* connection before or after it did the work.                             *)
(*                                                                         *)
(* Whether the failures in a breaker's rolling window exceed the threshold *)
(* is left open.  A user's roles do not change, and a credential without a *)
(* valid signature or an unexpired term counts as none.                    *)
(***************************************************************************)
EXTENDS Integers

CONSTANTS Requests,        \* requests in progress at a time
          Users,
          Admins,          \* users with Role.ADMIN
          NoUser,          \* no user, and in the cache no entry
          Seconds,         \* values of a token's iat
          NoToken,         \* no valid bearer token
          Sent,            \* the requests clients send
          BreakerTimeout,  \* opossum's timeout
          RequestTimeout,  \* REQUEST_TIMEOUT_MS
          ResetTimeout     \* opossum's resetTimeout

-----------------------------------------------------------------------------
(***************************************************************************)
(* Routes                                                                  *)
(***************************************************************************)

\* guard is what the gateway asks of the user (@Public, nothing, @Roles), rule
\* what the service asks of the user in the headers.
Routes(service, names, guard, rule) ==
    [service : {service}, name : names, guard : {guard}, rule : {rule}]

AuthRoutes ==
    Routes("auth", {"login", "register", "refresh"}, "public", "any")
    \cup Routes("auth", {"logout"}, "user", "any")

UserRoutes ==
    Routes("users", {"findAll", "deleteUser"}, "admin", "admin")
    \cup Routes("users", {"getMe"}, "user", "own")
    \cup Routes("users", {"getUser", "updateUser"}, "user", "self_or_admin")

ProductRoutes ==
    Routes("products", {"findAll", "findById"}, "user", "any")
    \cup Routes("products", {"create", "update", "remove"}, "admin", "admin")

OrderRoutes == Routes("orders", {"create", "findAll", "findById"}, "user", "any")

PaymentRoutes ==
    Routes("payments", {"getMyWallet"}, "user", "own")
    \cup Routes("payments", {"getWallet"}, "admin", "self_or_admin")
    \cup Routes("payments", {"topUp"}, "admin", "admin")

AllRoutes == AuthRoutes \cup UserRoutes \cup ProductRoutes \cup OrderRoutes \cup PaymentRoutes

Token == [sub : Users, iat : Seconds]

\* target: the user whose id is in the path.
Request == [route : AllRoutes, credential : Token \cup {NoToken}, target : Users]

Services == {q.route.service : q \in Sent}

ASSUME GatewayAssumption ==
    /\ Admins \subseteq Users
    /\ NoUser \notin Users
    /\ NoToken \notin Token
    /\ Sent \subseteq Request
    /\ Sent # {}
    /\ BreakerTimeout \in Nat \ {0}
    /\ RequestTimeout \in Nat
    /\ ResetTimeout \in Nat
    /\ BreakerTimeout < RequestTimeout
    /\ BreakerTimeout < ResetTimeout

-----------------------------------------------------------------------------
VARIABLES at,       \* at[r]: how far request r has come
          req,      \* req[r]: the route, credential and target of request r
          user,     \* user[r]: request.user
          answer,   \* answer[r]: what the client was answered
          left,     \* left[r]: what is left of the request's time
          timer,    \* timer[r]: what is left of its call's time
          reply,    \* reply[r]: what the service made of it
          cache,    \* cache[k]: the user cached in Redis under jwt:sub:iat
          breaker   \* breaker[s]: the circuit breaker of service s

\* History.
VARIABLE applied  \* requests whose operation the service carried out

clientVars == <<req, user>>
serviceVars == <<reply, applied>>
vars == <<at, clientVars, answer, left, timer, serviceVars, cache, breaker>>

Breaker == [state : {"closed", "open", "halfOpen"}, pendingClose : BOOLEAN, reset : 0..ResetTimeout]

Handling == {"calling", "body", "evicting"}

TypeOK ==
    /\ at \in [Requests -> Handling \cup {"idle", "lookup", "store", "admitted", "answered"}]
    /\ req \in [Requests -> Sent]
    /\ user \in [Requests -> Users \cup {NoUser}]
    /\ answer \in [Requests -> {"none", "ok", "denied", "failed", "unauthorized", "forbidden",
                                "unavailable", "unreachable", "timeout", "bad_gateway"}]
    /\ left \in [Requests -> 0..RequestTimeout]
    /\ timer \in [Requests -> 0..BreakerTimeout]
    /\ reply \in [Requests -> {"none", "waiting", "ok", "denied", "failed", "lost"}]
    /\ applied \in SUBSET Requests
    /\ cache \in [Token -> Users \cup {NoUser}]
    /\ breaker \in [Services -> Breaker]

Init ==
    /\ at = [r \in Requests |-> "idle"]
    /\ req = [r \in Requests |-> CHOOSE q \in Sent : TRUE]
    /\ user = [r \in Requests |-> NoUser]
    /\ answer = [r \in Requests |-> "none"]
    /\ left = [r \in Requests |-> 0]
    /\ timer = [r \in Requests |-> 0]
    /\ reply = [r \in Requests |-> "none"]
    /\ applied = {}
    /\ cache = [t \in Token |-> NoUser]
    /\ breaker = [s \in Services |-> [state |-> "closed", pendingClose |-> FALSE, reset |-> 0]]

ServiceOf(r) == req[r].route.service

Goes(r, place) == at' = [at EXCEPT ![r] = place]

\* The answer goes out and the clocks of the request stop.
Respond(r, a) ==
    /\ Goes(r, "answered")
    /\ answer' = [answer EXCEPT ![r] = a]
    /\ left' = [left EXCEPT ![r] = 0]
    /\ timer' = [timer EXCEPT ![r] = 0]

-----------------------------------------------------------------------------
(***************************************************************************)
(* The guards                                                              *)
(***************************************************************************)

\* JwtAuthGuard: a public route needs no token, any other a valid one.
JwtAuthGuard(r, q) ==
    \/ /\ q.route.guard = "public"
       /\ Goes(r, "admitted")
       /\ answer' = [answer EXCEPT ![r] = "none"]
       /\ UNCHANGED <<left, timer>>
    \/ /\ q.route.guard # "public"
       /\ q.credential = NoToken
       /\ Respond(r, "unauthorized")
    \/ /\ q.route.guard # "public"
       /\ q.credential # NoToken
       /\ Goes(r, "lookup")
       /\ answer' = [answer EXCEPT ![r] = "none"]
       /\ UNCHANGED <<left, timer>>

\* A client sends a request.  The service is done with the one before it.
Arrive(r, q) ==
    /\ at[r] \in {"idle", "answered"}
    /\ reply[r] # "waiting"
    /\ req' = [req EXCEPT ![r] = q]
    /\ user' = [user EXCEPT ![r] = NoUser]
    /\ reply' = [reply EXCEPT ![r] = "none"]
    /\ applied' = applied \ {r}
    /\ JwtAuthGuard(r, q)
    /\ UNCHANGED <<cache, breaker>>

\* Slip: the key names the second the token was issued and not its user.
KeyOfSecond(t) == [sub |-> CHOOSE u \in Users : TRUE, iat |-> t.iat]

\* jwt:sub:iat.
CacheKey(t) == t

\* JwtStrategy.validate finds the user in the cache.
FindCached(r) ==
    /\ at[r] = "lookup"
    /\ cache[CacheKey(req[r].credential)] # NoUser
    /\ user' = [user EXCEPT ![r] = cache[CacheKey(req[r].credential)]]
    /\ Goes(r, "admitted")
    /\ UNCHANGED <<req, answer, left, timer, serviceVars, cache, breaker>>

\* It does not, or the read fails: the user is the one the token names.
ReadToken(r) ==
    /\ at[r] = "lookup"
    /\ user' = [user EXCEPT ![r] = req[r].credential.sub]
    /\ Goes(r, "store")
    /\ UNCHANGED <<req, answer, left, timer, serviceVars, cache, breaker>>

\* The user is cached for as long as the token lives.
StoreUser(r) ==
    /\ at[r] = "store"
    /\ cache' = [cache EXCEPT ![CacheKey(req[r].credential)] = user[r]]
    /\ Goes(r, "admitted")
    /\ UNCHANGED <<clientVars, answer, left, timer, serviceVars, breaker>>

\* The token's last second, or the write fails.
SkipStore(r) ==
    /\ at[r] = "store"
    /\ Goes(r, "admitted")
    /\ UNCHANGED <<clientVars, answer, left, timer, serviceVars, cache, breaker>>

\* Redis drops an entry whose time is up.
Expire(k) ==
    /\ cache[k] # NoUser
    /\ cache' = [cache EXCEPT ![k] = NoUser]
    /\ UNCHANGED <<at, clientVars, answer, left, timer, serviceVars, breaker>>

HasRole(r) == req[r].route.guard = "admin" => user[r] \in Admins

\* RolesGuard turns the request away.
Forbid(r) ==
    /\ at[r] = "admitted"
    /\ ~HasRole(r)
    /\ Respond(r, "forbidden")
    /\ UNCHANGED <<clientVars, serviceVars, cache, breaker>>

-----------------------------------------------------------------------------
(***************************************************************************)
(* ProxyService and its breakers                                           *)
(***************************************************************************)

Rejects(b) == b.state # "closed" /\ ~b.pendingClose

Opened(b) ==
    IF b.state = "open" THEN b
    ELSE [state |-> "open", pendingClose |-> FALSE, reset |-> ResetTimeout]

\* A failed call opens a half-open breaker, and a closed one when too many
\* calls have failed of late.
AfterFailure(b) == IF b.state = "halfOpen" THEN {Opened(b)} ELSE {b, Opened(b)}

AfterSuccess(b) ==
    IF b.state = "halfOpen" THEN [state |-> "closed", pendingClose |-> FALSE, reset |-> 0] ELSE b

\* Slip: the fetch is under way before the breaker is asked.
RejectSent(r) ==
    /\ at[r] = "admitted"
    /\ HasRole(r)
    /\ Rejects(breaker[ServiceOf(r)])
    /\ reply' = [reply EXCEPT ![r] = "waiting"]
    /\ Respond(r, "unavailable")
    /\ UNCHANGED <<clientVars, applied, cache, breaker>>

\* breaker.fire rejects the call: EOPENBREAKER.
Reject(r) ==
    /\ at[r] = "admitted"
    /\ HasRole(r)
    /\ Rejects(breaker[ServiceOf(r)])
    /\ Respond(r, "unavailable")
    /\ UNCHANGED <<clientVars, serviceVars, cache, breaker>>

\* Slip: the request has no more time than the call.
FireInStep(r) ==
    /\ at[r] = "admitted"
    /\ HasRole(r)
    /\ ~Rejects(breaker[ServiceOf(r)])
    /\ Goes(r, "calling")
    /\ left' = [left EXCEPT ![r] = BreakerTimeout]
    /\ timer' = [timer EXCEPT ![r] = BreakerTimeout]
    /\ reply' = [reply EXCEPT ![r] = "waiting"]
    /\ breaker' = [breaker EXCEPT ![ServiceOf(r)].pendingClose = FALSE]
    /\ UNCHANGED <<clientVars, answer, applied, cache>>

\* breaker.fire sends the request to the service.  The interceptor's clock and
\* the breaker's start in the same turn of the event loop.
Fire(r) ==
    /\ at[r] = "admitted"
    /\ HasRole(r)
    /\ ~Rejects(breaker[ServiceOf(r)])
    /\ Goes(r, "calling")
    /\ left' = [left EXCEPT ![r] = RequestTimeout]
    /\ timer' = [timer EXCEPT ![r] = BreakerTimeout]
    /\ reply' = [reply EXCEPT ![r] = "waiting"]
    /\ breaker' = [breaker EXCEPT ![ServiceOf(r)].pendingClose = FALSE]
    /\ UNCHANGED <<clientVars, answer, applied, cache>>

\* The response's head is here: a success to the breaker, whatever its status.
CallSucceeds(r) ==
    /\ at[r] = "calling"
    /\ reply[r] \notin {"waiting", "lost"}
    /\ breaker' = [breaker EXCEPT ![ServiceOf(r)] = AfterSuccess(@)]
    /\ timer' = [timer EXCEPT ![r] = 0]
    /\ Goes(r, "body")
    /\ UNCHANGED <<clientVars, answer, left, serviceVars, cache>>

\* Slip: the breaker has no timeout.
CallFailsUntimed(r) ==
    /\ at[r] = "calling"
    /\ reply[r] = "lost"
    /\ \E b \in AfterFailure(breaker[ServiceOf(r)]) :
           breaker' = [breaker EXCEPT ![ServiceOf(r)] = b]
    /\ Respond(r, "unreachable")
    /\ UNCHANGED <<clientVars, serviceVars, cache>>

\* The connection failed or the breaker's clock ran out.  Nothing cancels the
\* fetch, and its late result is ignored.
CallFails(r) ==
    /\ at[r] = "calling"
    /\ reply[r] = "lost" \/ timer[r] = 0
    /\ \E b \in AfterFailure(breaker[ServiceOf(r)]) :
           breaker' = [breaker EXCEPT ![ServiceOf(r)] = b]
    /\ Respond(r, "unreachable")
    /\ UNCHANGED <<clientVars, serviceVars, cache>>

\* Evicting the user is the last thing logout does.
EvictsUser(r) == req[r].route.name = "logout" /\ reply[r] = "ok"

\* The body is read, and the service's answer is passed on.
PassOn(r) ==
    /\ at[r] = "body"
    /\ ~EvictsUser(r)
    /\ Respond(r, reply[r])
    /\ UNCHANGED <<clientVars, serviceVars, cache, breaker>>

\* The body is no JSON.
BadBody(r) ==
    /\ at[r] = "body"
    /\ Respond(r, "bad_gateway")
    /\ UNCHANGED <<clientVars, serviceVars, cache, breaker>>

LoggedOut(r) ==
    /\ at[r] = "body"
    /\ EvictsUser(r)
    /\ Goes(r, "evicting")
    /\ UNCHANGED <<clientVars, answer, left, timer, serviceVars, cache, breaker>>

\* cache.del, whose failure is ignored.
Evict(r) ==
    /\ at[r] = "evicting"
    /\ cache' \in {cache, [cache EXCEPT ![CacheKey(req[r].credential)] = NoUser]}
    /\ Respond(r, "ok")
    /\ UNCHANGED <<clientVars, serviceVars, breaker>>

\* Slip: only a call that is still open can be too late.
TimeOutCalls(r) ==
    /\ at[r] = "calling"
    /\ left[r] = 0
    /\ Respond(r, "timeout")
    /\ UNCHANGED <<clientVars, serviceVars, cache, breaker>>

\* TimeoutInterceptor.
TimeOut(r) ==
    /\ at[r] \in Handling
    /\ left[r] = 0
    /\ Respond(r, "timeout")
    /\ UNCHANGED <<clientVars, serviceVars, cache, breaker>>

\* An open breaker's time is up: the next call is let through.
HalfOpen(s) ==
    /\ breaker[s].state = "open"
    /\ breaker[s].reset = 0
    /\ breaker' = [breaker EXCEPT ![s] = [state |-> "halfOpen", pendingClose |-> TRUE, reset |-> 0]]
    /\ UNCHANGED <<at, clientVars, answer, left, timer, serviceVars, cache>>

\* Time passes, once every clock that has run out has been attended to.
Tick ==
    /\ \A r \in Requests : /\ at[r] \in Handling => left[r] > 0
                           /\ at[r] = "calling" => timer[r] > 0
    /\ \A s \in Services : breaker[s].state = "open" => breaker[s].reset > 0
    /\ left' = [r \in Requests |-> IF at[r] \in Handling THEN left[r] - 1 ELSE left[r]]
    /\ timer' = [r \in Requests |-> IF at[r] = "calling" THEN timer[r] - 1 ELSE timer[r]]
    /\ breaker' = [s \in Services |->
           IF breaker[s].state = "open" THEN [breaker[s] EXCEPT !.reset = @ - 1] ELSE breaker[s]]
    /\ UNCHANGED <<at, clientVars, answer, serviceVars, cache>>

-----------------------------------------------------------------------------
(***************************************************************************)
(* The services                                                            *)
(***************************************************************************)

\* What the service's rule says of user u.
Permits(q, u) ==
    \/ q.route.rule \in {"any", "own"}
    \/ u \in Admins
    \/ q.route.rule = "self_or_admin" /\ u = q.target

\* The operation is carried out and answered.
Serve(r) ==
    /\ reply[r] = "waiting"
    /\ Permits(req[r], user[r])
    /\ reply' = [reply EXCEPT ![r] = "ok"]
    /\ applied' = applied \cup {r}
    /\ UNCHANGED <<at, clientVars, answer, left, timer, cache, breaker>>

\* 403 from the service.
Deny(r) ==
    /\ reply[r] = "waiting"
    /\ ~Permits(req[r], user[r])
    /\ reply' = [reply EXCEPT ![r] = "denied"]
    /\ UNCHANGED <<at, clientVars, answer, left, timer, applied, cache, breaker>>

\* Any other error, or a connection lost, before or after the work is done.
Fail(r, outcome) ==
    /\ reply[r] = "waiting"
    /\ reply' = [reply EXCEPT ![r] = outcome]
    /\ \/ UNCHANGED applied
       \/ Permits(req[r], user[r]) /\ applied' = applied \cup {r}
    /\ UNCHANGED <<at, clientVars, answer, left, timer, cache, breaker>>

-----------------------------------------------------------------------------
Authenticate(r) == FindCached(r) \/ ReadToken(r) \/ StoreUser(r) \/ SkipStore(r)

Dispatch(r) == Forbid(r) \/ Reject(r) \/ Fire(r)

EndCall(r) == CallSucceeds(r) \/ CallFails(r)

Finish(r) == PassOn(r) \/ BadBody(r) \/ LoggedOut(r) \/ Evict(r)

ServiceStep(r) == Serve(r) \/ Deny(r) \/ (\E outcome \in {"failed", "lost"} : Fail(r, outcome))

Next ==
    \/ \E r \in Requests :
          \/ \E q \in Sent : Arrive(r, q)
          \/ Authenticate(r) \/ Dispatch(r) \/ EndCall(r) \/ Finish(r) \/ TimeOut(r)
          \/ ServiceStep(r)
    \/ \E k \in Token : Expire(k)
    \/ \E s \in Services : HalfOpen(s)
    \/ Tick

Spec == Init /\ [][Next]_vars

\* Redis answers or fails, timers fire, and a response that has come is taken
\* up.  Nothing is asked of the services, of response bodies or of the clients.
LiveSpec ==
    /\ Spec
    /\ WF_vars(Tick)
    /\ WF_vars(\E s \in Services : HalfOpen(s))
    /\ \A r \in Requests : WF_vars(Authenticate(r) \/ Dispatch(r) \/ EndCall(r) \/ TimeOut(r))

-----------------------------------------------------------------------------
(***************************************************************************)
(* Properties                                                              *)
(***************************************************************************)

Calls(s) == {r \in Requests : at[r] = "calling" /\ ServiceOf(r) = s}

\* Every call that began before a breaker opened ends before it half-opens, and
\* the clock of a call runs out before its request's.
ClockInv ==
    /\ \A s \in Services : breaker[s].state = "open" =>
           \A r \in Calls(s) : timer[r] < breaker[s].reset
    /\ \A r \in Requests : at[r] = "calling" => timer[r] < left[r]

\* A half-open breaker is waiting for a call to let through, and then nobody
\* calls the service, or has let through exactly one, whose end will close it
\* or open it again.  It never turns everybody away with no call to wait for.
ProbeInv ==
    \A s \in Services :
        /\ breaker[s].state = "halfOpen" =>
              IF breaker[s].pendingClose THEN Calls(s) = {} ELSE \E r \in Requests : Calls(s) = {r}
        /\ breaker[s].pendingClose => breaker[s].state = "halfOpen"

\* The user a request runs as, and the cached users, are the tokens' own.
UserInv ==
    /\ \A t \in Token : cache[t] \in {NoUser, t.sub}
    /\ \A r \in Requests :
          /\ at[r] = "lookup" => user[r] = NoUser
          /\ at[r] \in {"lookup", "store"} => req[r].route.guard # "public"
          /\ at[r] \in {"lookup", "store", "evicting"} => req[r].credential # NoToken
          /\ at[r] \in Handling \cup {"store", "admitted"} \/ reply[r] # "none" =>
                \/ req[r].route.guard = "public"
                \/ req[r].credential # NoToken /\ user[r] = req[r].credential.sub
          /\ reply[r] # "none" => HasRole(r)

\* What the service has made of a request, at each place in the gateway.
ReplyInv ==
    \A r \in Requests :
        /\ at[r] \in {"idle", "lookup", "store", "admitted"} => reply[r] = "none"
        /\ at[r] = "calling" => reply[r] # "none"
        /\ at[r] = "body" => reply[r] \in {"ok", "denied", "failed"}
        /\ at[r] = "evicting" => reply[r] = "ok"
        /\ reply[r] \in {"none", "waiting", "denied"} => r \notin applied
        /\ reply[r] = "ok" => r \in applied
        /\ r \in applied => Permits(req[r], user[r])
        /\ reply[r] = "denied" => ~Permits(req[r], user[r])

\* How the answer follows from what the service made of the request.
AnswerInv ==
    \A r \in Requests : at[r] = "answered" =>
        /\ answer[r] \in {"unauthorized", "forbidden", "unavailable"} => reply[r] = "none"
        /\ answer[r] \in {"ok", "denied"} => reply[r] = answer[r]
        /\ answer[r] = "bad_gateway" => reply[r] \in {"ok", "denied", "failed"}

\* The breakers and the clocks: no breaker is stuck half open, at most one call
\* probes a service, and no call outlives the breaker state it was made in.
GatewayInv == TypeOK /\ ClockInv /\ ProbeInv /\ UserInv /\ ReplyInv /\ AnswerInv

\* What the answer tells the client about the operation is true, although the
\* service may be slower than both clocks.  401, 403 of the gateway and
\* "temporarily unavailable": it was never sent.  Success: it was carried out.
\* The service's 403: it was not.  502: the service had answered.
AnswersAreTrue ==
    \A r \in Requests : at[r] = "answered" =>
        /\ answer[r] \in {"unauthorized", "forbidden", "unavailable"} =>
              reply[r] = "none" /\ r \notin applied
        /\ answer[r] = "ok" => r \in applied
        /\ answer[r] = "denied" => r \notin applied
        /\ answer[r] = "bad_gateway" => reply[r] \in {"ok", "denied", "failed"}

\* An operation is carried out only for a token whose own user may have it done,
\* by way of a cache or not; and a service's rule turns nobody away whom the
\* gateway let through an admin's route.
ActsWithAuthority ==
    \A r \in Requests :
        /\ r \in applied =>
              \/ req[r].route.guard = "public"
              \/ req[r].credential # NoToken /\ Permits(req[r], req[r].credential.sub)
        /\ reply[r] = "denied" => req[r].route.guard = "user"

\* Every request is answered, whatever the services do.
EveryRequestIsAnswered ==
    \A r \in Requests : at[r] \notin {"idle", "answered"} ~> at[r] = "answered"

\* No breaker turns calls away for good.
BreakersRelent == \A s \in Services : Rejects(breaker[s]) ~> ~Rejects(breaker[s])

-----------------------------------------------------------------------------
(***************************************************************************)
(* What the repository says of the gateway and its code does not do.  A    *)
(* run is expected to find the claim violated.                             *)
(***************************************************************************)

\* README.md:504: TimeoutInterceptor "returns 408 if downstream doesn't respond
\* within REQUEST_TIMEOUT_MS".  Then a request to a service that hangs for good
\* ends in 408.  The breaker's clock ends the call first, with 503.
HungServiceIsTimedOut ==
    \A r \in Requests : <>[](reply[r] = "waiting") => <>[](answer[r] = "timeout")

=============================================================================
