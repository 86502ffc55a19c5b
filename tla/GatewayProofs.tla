---------------------------- MODULE GatewayProofs ----------------------------
(***************************************************************************)
(* Proofs about the gateway, for any number of requests, users and routes  *)
(* in use, and any clocks in the order the configuration gives them.       *)
(***************************************************************************)
EXTENDS Gateway, TLAPS

USE DEF Handling, Goes, Respond, clientVars, serviceVars

\* The routes' guards and rules, and the services in use.
LEMMA RequestFacts ==
    ASSUME NEW q \in Sent
    PROVE  /\ q.route.guard \in {"public", "user", "admin"}
           /\ q.route.guard = "public" => q.route.rule = "any"
           /\ q.route.name = "logout" => q.route.guard # "public"
           /\ q.route.service \in Services
           /\ q.credential \in Token \cup {NoToken}
           /\ q.target \in Users
<1>1. q \in Request
    BY GatewayAssumption
<1>2. q.route \in AllRoutes
    BY <1>1 DEF Request
<1>3. /\ q.route.guard \in {"public", "user", "admin"}
      /\ q.route.guard = "public" => q.route.rule = "any"
      /\ q.route.name = "logout" => q.route.guard # "public"
    BY <1>2 DEF AllRoutes, AuthRoutes, UserRoutes, ProductRoutes, OrderRoutes, PaymentRoutes, Routes
<1> QED BY <1>1, <1>3 DEF Request, Services

\* The requests in a state are among those sent.
LEMMA StateFacts ==
    ASSUME TypeOK
    PROVE  \A x \in Requests :
               /\ req[x] \in Sent
               /\ ServiceOf(x) \in Services
               /\ breaker[ServiceOf(x)] \in Breaker
               /\ req[x].credential # NoToken =>
                      req[x].credential \in Token /\ req[x].credential.sub \in Users
               /\ req[x].route.name = "logout" => req[x].route.guard # "public"
BY RequestFacts DEF TypeOK, ServiceOf, Token

\* A step that begins and ends no call keeps what is known of breakers and clocks.
LEMMA CallsUntouched ==
    ASSUME ClockInv, ProbeInv, UNCHANGED breaker,
           \A x \in Requests : at'[x] = "calling" <=> at[x] = "calling",
           \A x \in Requests : at[x] = "calling" =>
               timer'[x] = timer[x] /\ left'[x] = left[x] /\ req'[x] = req[x]
    PROVE  ClockInv' /\ ProbeInv'
<1>1. \A s : Calls(s)' = Calls(s)
    BY DEF Calls, ServiceOf
<1>2. \A s, x : x \in Calls(s) => x \in Requests /\ at[x] = "calling"
    BY DEF Calls
<1>3. ClockInv'
    BY <1>1, <1>2 DEF ClockInv
<1>4. ProbeInv'
    BY <1>1 DEF ProbeInv
<1> QED BY <1>3, <1>4

\* The initial state satisfies the inductive invariant.
LEMMA GatewayInitially == Init => GatewayInv
<1> SUFFICES ASSUME Init PROVE GatewayInv
    OBVIOUS
<1> USE GatewayAssumption DEF Init
<1>1. TypeOK
  <2>1. (CHOOSE q \in Sent : TRUE) \in Sent
    OBVIOUS
  <2> QED BY <2>1 DEF TypeOK, Breaker
<1>2. ClockInv /\ ProbeInv
    BY DEF ClockInv, ProbeInv, Calls
<1>3. UserInv
    BY DEF UserInv
<1>4. ReplyInv /\ AnswerInv
    BY DEF ReplyInv, AnswerInv
<1> QED BY <1>1, <1>2, <1>3, <1>4 DEF GatewayInv

\* The call of a request that ends was one of its service's calls.
LEMMA CallEnds ==
    ASSUME TypeOK, NEW r \in Requests, at[r] = "calling", at'[r] # "calling",
           UNCHANGED req, \A x \in Requests : x # r => at'[x] = at[x]
    PROVE  /\ ServiceOf(r) \in Services
           /\ breaker[ServiceOf(r)] \in Breaker
           /\ r \in Calls(ServiceOf(r))
           /\ \A x \in Services :
                  Calls(x)' = IF x = ServiceOf(r) THEN Calls(ServiceOf(r)) \ {r} ELSE Calls(x)
<1>1. ServiceOf(r) \in Services /\ breaker[ServiceOf(r)] \in Breaker
    BY StateFacts
<1> QED BY <1>1 DEF Calls, ServiceOf

\* A new request, past JwtAuthGuard or answered 401.
LEMMA ArriveKeeps ==
    ASSUME GatewayInv, NEW r \in Requests, NEW q \in Sent, Arrive(r, q)
    PROVE  GatewayInv'
<1> USE GatewayAssumption DEF GatewayInv, Arrive, JwtAuthGuard
<1>1. TypeOK'
  <2>1. /\ req' \in [Requests -> Sent] /\ user' \in [Requests -> Users \cup {NoUser}]
        /\ reply' \in [Requests -> {"none", "waiting", "ok", "denied", "failed", "lost"}]
        /\ applied' \in SUBSET Requests
    BY DEF TypeOK
  <2>2. /\ at' \in [Requests -> Handling \cup {"idle", "lookup", "store", "admitted", "answered"}]
        /\ left' \in [Requests -> 0..RequestTimeout] /\ timer' \in [Requests -> 0..BreakerTimeout]
    BY DEF TypeOK
  <2>3. answer' = [answer EXCEPT ![r] = "none"] \/ answer' = [answer EXCEPT ![r] = "unauthorized"]
    OBVIOUS
  <2> QED BY <2>1, <2>2, <2>3 DEF TypeOK
<1>2. ClockInv' /\ ProbeInv'
    BY CallsUntouched DEF TypeOK
<1>3. UserInv'
    BY StateFacts DEF TypeOK, UserInv, ReplyInv, HasRole
<1>4. ReplyInv'
    BY StateFacts DEF TypeOK, ReplyInv
<1>5. AnswerInv'
    BY StateFacts DEF TypeOK, AnswerInv, ReplyInv
<1> QED BY <1>1, <1>2, <1>3, <1>4, <1>5

\* The cached user is the token's own.
LEMMA FindCachedKeeps ==
    ASSUME GatewayInv, NEW r \in Requests, FindCached(r)
    PROVE  GatewayInv'
<1> USE GatewayAssumption DEF GatewayInv, FindCached, CacheKey
<1>0. /\ req[r].credential \in Token
      /\ cache[req[r].credential] # NoUser => cache[req[r].credential] = req[r].credential.sub
      /\ req[r].credential.sub \in Users
    BY StateFacts DEF UserInv
<1>1. TypeOK'
    BY <1>0, StateFacts DEF TypeOK
<1>2. ClockInv' /\ ProbeInv'
    BY <1>0, CallsUntouched DEF TypeOK
<1>3. UserInv'
    BY <1>0, StateFacts DEF TypeOK, UserInv, ReplyInv, HasRole
<1>4. ReplyInv'
    BY <1>0, StateFacts DEF TypeOK, ReplyInv
<1>5. AnswerInv'
    BY <1>0, StateFacts DEF TypeOK, AnswerInv, ReplyInv
<1> QED BY <1>1, <1>2, <1>3, <1>4, <1>5

\* The user is read from the token.
LEMMA ReadTokenKeeps ==
    ASSUME GatewayInv, NEW r \in Requests, ReadToken(r)
    PROVE  GatewayInv'
<1> USE GatewayAssumption DEF GatewayInv, ReadToken
<1>0. /\ req[r].credential \in Token
      /\ cache[req[r].credential] # NoUser => cache[req[r].credential] = req[r].credential.sub
      /\ req[r].credential.sub \in Users
    BY StateFacts DEF UserInv
<1>1. TypeOK'
    BY <1>0, StateFacts DEF TypeOK
<1>2. ClockInv' /\ ProbeInv'
    BY <1>0, CallsUntouched DEF TypeOK
<1>3. UserInv'
    BY <1>0, StateFacts DEF TypeOK, UserInv, ReplyInv, HasRole
<1>4. ReplyInv'
    BY <1>0, StateFacts DEF TypeOK, ReplyInv
<1>5. AnswerInv'
    BY <1>0, StateFacts DEF TypeOK, AnswerInv, ReplyInv
<1> QED BY <1>1, <1>2, <1>3, <1>4, <1>5

\* What is cached under a token's key is its user.
LEMMA StoreUserKeeps ==
    ASSUME GatewayInv, NEW r \in Requests, StoreUser(r)
    PROVE  GatewayInv'
<1> USE GatewayAssumption DEF GatewayInv, StoreUser, CacheKey
<1>0. user[r] = req[r].credential.sub /\ req[r].credential \in Token
    BY StateFacts DEF UserInv
<1>1. TypeOK'
    BY <1>0, StateFacts DEF TypeOK
<1>2. ClockInv' /\ ProbeInv'
    BY <1>0, CallsUntouched DEF TypeOK
<1>3. UserInv'
    BY <1>0, StateFacts DEF TypeOK, UserInv, ReplyInv, HasRole
<1>4. ReplyInv'
    BY <1>0, StateFacts DEF TypeOK, ReplyInv
<1>5. AnswerInv'
    BY <1>0, StateFacts DEF TypeOK, AnswerInv, ReplyInv
<1> QED BY <1>1, <1>2, <1>3, <1>4, <1>5

\* Nothing is cached.
LEMMA SkipStoreKeeps ==
    ASSUME GatewayInv, NEW r \in Requests, SkipStore(r)
    PROVE  GatewayInv'
<1> USE GatewayAssumption DEF GatewayInv, SkipStore
<1>1. TypeOK'
    BY StateFacts DEF TypeOK
<1>2. ClockInv' /\ ProbeInv'
    BY CallsUntouched DEF TypeOK
<1>3. UserInv'
    BY StateFacts DEF TypeOK, UserInv, ReplyInv, HasRole
<1>4. ReplyInv'
    BY StateFacts DEF TypeOK, ReplyInv
<1>5. AnswerInv'
    BY StateFacts DEF TypeOK, AnswerInv, ReplyInv
<1> QED BY <1>1, <1>2, <1>3, <1>4, <1>5

\* An entry less.
LEMMA ExpireKeeps ==
    ASSUME GatewayInv, NEW k \in Token, Expire(k)
    PROVE  GatewayInv'
<1> USE GatewayAssumption DEF GatewayInv, Expire
<1>1. TypeOK'
    BY StateFacts DEF TypeOK
<1>2. ClockInv' /\ ProbeInv'
    BY CallsUntouched DEF TypeOK
<1>3. UserInv'
    BY StateFacts DEF TypeOK, UserInv, ReplyInv, HasRole
<1>4. ReplyInv'
    BY StateFacts DEF TypeOK, ReplyInv
<1>5. AnswerInv'
    BY StateFacts DEF TypeOK, AnswerInv, ReplyInv
<1> QED BY <1>1, <1>2, <1>3, <1>4, <1>5

\* A request that RolesGuard turns away was not sent.
LEMMA ForbidKeeps ==
    ASSUME GatewayInv, NEW r \in Requests, Forbid(r)
    PROVE  GatewayInv'
<1> USE GatewayAssumption DEF GatewayInv, Forbid
<1>1. TypeOK'
    BY StateFacts DEF TypeOK
<1>2. ClockInv' /\ ProbeInv'
    BY CallsUntouched DEF TypeOK
<1>3. UserInv'
    BY StateFacts DEF TypeOK, UserInv, ReplyInv, HasRole
<1>4. ReplyInv'
    BY StateFacts DEF TypeOK, ReplyInv
<1>5. AnswerInv'
    BY StateFacts DEF TypeOK, AnswerInv, ReplyInv
<1> QED BY <1>1, <1>2, <1>3, <1>4, <1>5

\* Nor was one that the breaker turns away.
LEMMA RejectKeeps ==
    ASSUME GatewayInv, NEW r \in Requests, Reject(r)
    PROVE  GatewayInv'
<1> USE GatewayAssumption DEF GatewayInv, Reject
<1>1. TypeOK'
    BY StateFacts DEF TypeOK
<1>2. ClockInv' /\ ProbeInv'
    BY CallsUntouched DEF TypeOK
<1>3. UserInv'
    BY StateFacts DEF TypeOK, UserInv, ReplyInv, HasRole
<1>4. ReplyInv'
    BY StateFacts DEF TypeOK, ReplyInv
<1>5. AnswerInv'
    BY StateFacts DEF TypeOK, AnswerInv, ReplyInv
<1> QED BY <1>1, <1>2, <1>3, <1>4, <1>5

\* The service's answer is passed on.
LEMMA PassOnKeeps ==
    ASSUME GatewayInv, NEW r \in Requests, PassOn(r)
    PROVE  GatewayInv'
<1> USE GatewayAssumption DEF GatewayInv, PassOn
<1>1. TypeOK'
    BY StateFacts DEF TypeOK, ReplyInv
<1>2. ClockInv' /\ ProbeInv'
    BY CallsUntouched DEF TypeOK
<1>3. UserInv'
    BY StateFacts DEF TypeOK, UserInv, ReplyInv, HasRole
<1>4. ReplyInv'
    BY StateFacts DEF TypeOK, ReplyInv
<1>5. AnswerInv'
    BY StateFacts DEF TypeOK, AnswerInv, ReplyInv
<1> QED BY <1>1, <1>2, <1>3, <1>4, <1>5

\* A body that is no JSON.
LEMMA BadBodyKeeps ==
    ASSUME GatewayInv, NEW r \in Requests, BadBody(r)
    PROVE  GatewayInv'
<1> USE GatewayAssumption DEF GatewayInv, BadBody
<1>1. TypeOK'
    BY StateFacts DEF TypeOK
<1>2. ClockInv' /\ ProbeInv'
    BY CallsUntouched DEF TypeOK
<1>3. UserInv'
    BY StateFacts DEF TypeOK, UserInv, ReplyInv, HasRole
<1>4. ReplyInv'
    BY StateFacts DEF TypeOK, ReplyInv
<1>5. AnswerInv'
    BY StateFacts DEF TypeOK, AnswerInv, ReplyInv
<1> QED BY <1>1, <1>2, <1>3, <1>4, <1>5

\* Logout goes on to evict the user: its route asks for a token.
LEMMA LoggedOutKeeps ==
    ASSUME GatewayInv, NEW r \in Requests, LoggedOut(r)
    PROVE  GatewayInv'
<1> USE GatewayAssumption DEF GatewayInv, LoggedOut, EvictsUser
<1>1. TypeOK'
    BY StateFacts DEF TypeOK
<1>2. ClockInv' /\ ProbeInv'
    BY CallsUntouched DEF TypeOK
<1>3. UserInv'
    BY StateFacts DEF TypeOK, UserInv, ReplyInv, HasRole
<1>4. ReplyInv'
    BY StateFacts DEF TypeOK, ReplyInv
<1>5. AnswerInv'
    BY StateFacts DEF TypeOK, AnswerInv, ReplyInv
<1> QED BY <1>1, <1>2, <1>3, <1>4, <1>5

\* The user is evicted or not.
LEMMA EvictKeeps ==
    ASSUME GatewayInv, NEW r \in Requests, Evict(r)
    PROVE  GatewayInv'
<1> USE GatewayAssumption DEF GatewayInv, Evict, CacheKey
<1>1. TypeOK'
    BY StateFacts DEF TypeOK
<1>2. ClockInv' /\ ProbeInv'
    BY CallsUntouched DEF TypeOK
<1>3. UserInv'
    BY StateFacts DEF TypeOK, UserInv, ReplyInv, HasRole
<1>4. ReplyInv'
    BY StateFacts DEF TypeOK, ReplyInv
<1>5. AnswerInv'
    BY StateFacts DEF TypeOK, AnswerInv, ReplyInv
<1> QED BY <1>1, <1>2, <1>3, <1>4, <1>5

\* A request whose time is up has no call open.
LEMMA TimeOutKeeps ==
    ASSUME GatewayInv, NEW r \in Requests, TimeOut(r)
    PROVE  GatewayInv'
<1> USE GatewayAssumption DEF GatewayInv, TimeOut
<1>0. at[r] # "calling"
    BY DEF ClockInv, TypeOK
<1>1. TypeOK'
    BY <1>0, StateFacts DEF TypeOK
<1>2. ClockInv' /\ ProbeInv'
    BY <1>0, CallsUntouched DEF TypeOK
<1>3. UserInv'
    BY <1>0, StateFacts DEF TypeOK, UserInv, ReplyInv, HasRole
<1>4. ReplyInv'
    BY <1>0, StateFacts DEF TypeOK, ReplyInv
<1>5. AnswerInv'
    BY <1>0, StateFacts DEF TypeOK, AnswerInv, ReplyInv
<1> QED BY <1>1, <1>2, <1>3, <1>4, <1>5

\* The service does what the user in the headers may do.
LEMMA ServeKeeps ==
    ASSUME GatewayInv, NEW r \in Requests, Serve(r)
    PROVE  GatewayInv'
<1> USE GatewayAssumption DEF GatewayInv, Serve
<1>1. TypeOK'
    BY StateFacts DEF TypeOK
<1>2. ClockInv' /\ ProbeInv'
    BY CallsUntouched DEF TypeOK
<1>3. UserInv'
    BY StateFacts DEF TypeOK, UserInv, ReplyInv, HasRole
<1>4. ReplyInv'
    BY StateFacts DEF TypeOK, ReplyInv
<1>5. AnswerInv'
    BY StateFacts DEF TypeOK, AnswerInv, ReplyInv
<1> QED BY <1>1, <1>2, <1>3, <1>4, <1>5

\* The service turns the user in the headers away.
LEMMA DenyKeeps ==
    ASSUME GatewayInv, NEW r \in Requests, Deny(r)
    PROVE  GatewayInv'
<1> USE GatewayAssumption DEF GatewayInv, Deny
<1>1. TypeOK'
    BY StateFacts DEF TypeOK
<1>2. ClockInv' /\ ProbeInv'
    BY CallsUntouched DEF TypeOK
<1>3. UserInv'
    BY StateFacts DEF TypeOK, UserInv, ReplyInv, HasRole
<1>4. ReplyInv'
    BY StateFacts DEF TypeOK, ReplyInv
<1>5. AnswerInv'
    BY StateFacts DEF TypeOK, AnswerInv, ReplyInv
<1> QED BY <1>1, <1>2, <1>3, <1>4, <1>5

\* The service fails, before or after the work.
LEMMA FailKeeps ==
    ASSUME GatewayInv, NEW r \in Requests, NEW outcome \in {"failed", "lost"}, Fail(r, outcome)
    PROVE  GatewayInv'
<1> USE GatewayAssumption DEF GatewayInv, Fail
<1>1. TypeOK'
    BY StateFacts DEF TypeOK
<1>2. ClockInv' /\ ProbeInv'
    BY CallsUntouched DEF TypeOK
<1>3. UserInv'
    BY StateFacts DEF TypeOK, UserInv, ReplyInv, HasRole
<1>4. ReplyInv'
    BY StateFacts DEF TypeOK, ReplyInv
<1>5. AnswerInv'
    BY StateFacts DEF TypeOK, AnswerInv, ReplyInv
<1> QED BY <1>1, <1>2, <1>3, <1>4, <1>5

\* A call begins: the first of a half-open breaker, or one of a closed one.
LEMMA FireKeeps ==
    ASSUME GatewayInv, NEW r \in Requests, Fire(r)
    PROVE  GatewayInv'
<1> USE GatewayAssumption DEF GatewayInv, Fire
<1>1. TypeOK'
  <2>1. breaker' \in [Services -> Breaker]
    BY StateFacts DEF TypeOK, Breaker
  <2>2. left' \in [Requests -> 0..RequestTimeout] /\ timer' \in [Requests -> 0..BreakerTimeout]
    BY DEF TypeOK
  <2> QED BY <2>1, <2>2 DEF TypeOK
<1>2. ClockInv' /\ ProbeInv'
  <2> DEFINE s == ServiceOf(r)
  <2>1. s \in Services /\ breaker[s] \in Breaker /\ r \notin Calls(s)
    BY StateFacts DEF Calls
  <2>2. \A x \in Services : Calls(x)' = IF x = s THEN Calls(s) \cup {r} ELSE Calls(x)
    BY DEF Calls, ServiceOf, TypeOK
  <2>3. breaker[s].state = "closed" \/ (breaker[s].state = "halfOpen" /\ Calls(s) = {})
    <3>1. breaker[s].state = "closed" \/ breaker[s].pendingClose
      BY DEF Rejects
    <3>2. breaker[s].pendingClose => breaker[s].state = "halfOpen" /\ Calls(s) = {}
      BY <2>1 DEF ProbeInv
    <3> QED BY <3>1, <3>2
  <2>4. \A x \in Services : /\ x # s => breaker'[x] = breaker[x]
                            /\ breaker'[s].state = breaker[s].state
                            /\ breaker'[s].pendingClose = FALSE
    BY <2>1 DEF TypeOK, Breaker
  <2>5. \A x \in Requests : x # r => timer'[x] = timer[x] /\ left'[x] = left[x] /\ at'[x] = at[x]
    BY DEF TypeOK
  <2>6. timer'[r] = BreakerTimeout /\ left'[r] = RequestTimeout
    BY DEF TypeOK
  <2>7. ClockInv'
    <3>1. \A x \in Services : breaker'[x].state = "open" => x # s /\ breaker[x].state = "open"
      BY <2>3, <2>4
    <3>2. \A x \in Services : x # s => r \notin Calls(x)
      BY DEF Calls
    <3>3. \A x \in Services : breaker'[x].state = "open" =>
              \A y \in Calls(x)' : timer'[y] < breaker'[x].reset
      BY <2>2, <2>4, <2>5, <3>1, <3>2 DEF ClockInv, Calls
    <3>4. \A x \in Requests : at'[x] = "calling" => timer'[x] < left'[x]
      BY <2>5, <2>6 DEF ClockInv
    <3> QED BY <3>3, <3>4 DEF ClockInv
  <2>8. ProbeInv'
    <3>1. breaker[s].state = "closed" \/ \A x \in Services : x = s => Calls(x)' = {r}
      BY <2>2, <2>3
    <3> QED BY <2>1, <2>2, <2>3, <2>4, <3>1 DEF ProbeInv
  <2> QED BY <2>7, <2>8
<1>3. UserInv'
    BY StateFacts DEF TypeOK, UserInv, ReplyInv, HasRole
<1>4. ReplyInv'
    BY StateFacts DEF TypeOK, ReplyInv
<1>5. AnswerInv'
    BY StateFacts DEF TypeOK, AnswerInv, ReplyInv
<1> QED BY <1>1, <1>2, <1>3, <1>4, <1>5

\* A call ends well; if its breaker is half open, it was the probe.
LEMMA CallSucceedsKeeps ==
    ASSUME GatewayInv, NEW r \in Requests, CallSucceeds(r)
    PROVE  GatewayInv'
<1> USE GatewayAssumption DEF GatewayInv, CallSucceeds
<1>1. TypeOK'
    BY StateFacts DEF TypeOK, Breaker, AfterSuccess
<1>2. ClockInv' /\ ProbeInv'
  <2> DEFINE s == ServiceOf(r)
  <2>1. /\ s \in Services /\ breaker[s] \in Breaker /\ r \in Calls(s)
        /\ \A x \in Services : Calls(x)' = IF x = s THEN Calls(s) \ {r} ELSE Calls(x)
    BY CallEnds DEF TypeOK
  <2>2. \A x \in Services : x # s => breaker'[x] = breaker[x]
    BY DEF TypeOK
  <2>3. /\ breaker[s].state = "halfOpen" => breaker'[s].state = "closed" /\ ~breaker'[s].pendingClose
        /\ breaker[s].state # "halfOpen" => breaker'[s] = breaker[s]
    BY <2>1 DEF TypeOK, AfterSuccess
  <2>4. \A x \in Requests : x # r => timer'[x] = timer[x] /\ left'[x] = left[x] /\ at'[x] = at[x]
    BY DEF TypeOK
  <2>5. \A x \in Services : Calls(x)' \subseteq Calls(x) \ {r}
    BY <2>1 DEF Calls
  <2>6. ClockInv'
    <3>1. \A x \in Services : breaker'[x].state = "open" =>
              /\ breaker'[x] = breaker[x]
              /\ \A y \in Calls(x)' : timer'[y] < breaker'[x].reset
      BY <2>2, <2>3, <2>4, <2>5 DEF ClockInv, Calls
    <3>2. \A x \in Requests : at'[x] = "calling" => timer'[x] < left'[x]
      BY <2>4 DEF ClockInv, TypeOK
    <3> QED BY <3>1, <3>2 DEF ClockInv
  <2>7. ProbeInv'
    BY <2>1, <2>2, <2>3 DEF ProbeInv
  <2> QED BY <2>6, <2>7
<1>3. UserInv'
    BY StateFacts DEF TypeOK, UserInv, ReplyInv, HasRole
<1>4. ReplyInv'
    BY StateFacts DEF TypeOK, ReplyInv
<1>5. AnswerInv'
    BY StateFacts DEF TypeOK, AnswerInv, ReplyInv
<1> QED BY <1>1, <1>2, <1>3, <1>4, <1>5

\* A call ends badly; a breaker that opens stays so for longer than any call.
LEMMA CallFailsKeeps ==
    ASSUME GatewayInv, NEW r \in Requests, CallFails(r)
    PROVE  GatewayInv'
<1> USE GatewayAssumption DEF GatewayInv, CallFails
<1>1. TypeOK'
  <2>1. PICK b \in AfterFailure(breaker[ServiceOf(r)]) :
            breaker' = [breaker EXCEPT ![ServiceOf(r)] = b]
    OBVIOUS
  <2>2. b \in Breaker
    <3>1. ASSUME NEW b0 \in Breaker PROVE AfterFailure(b0) \subseteq Breaker
      <4>1. Opened(b0) \in Breaker
        BY DEF Opened, Breaker
      <4> QED BY <4>1 DEF AfterFailure
    <3> QED BY <3>1, StateFacts
  <2>3. breaker' \in [Services -> Breaker]
    BY <2>1, <2>2 DEF TypeOK
  <2>4. left' \in [Requests -> 0..RequestTimeout] /\ timer' \in [Requests -> 0..BreakerTimeout]
    BY DEF TypeOK
  <2> QED BY <2>3, <2>4 DEF TypeOK
<1>2. ClockInv' /\ ProbeInv'
  <2> DEFINE s == ServiceOf(r)
  <2>1. /\ s \in Services /\ breaker[s] \in Breaker /\ r \in Calls(s)
        /\ \A x \in Services : Calls(x)' = IF x = s THEN Calls(s) \ {r} ELSE Calls(x)
    BY CallEnds DEF TypeOK
  <2>2. \A x \in Services : x # s => breaker'[x] = breaker[x]
    BY DEF TypeOK
  <2>3. \/ breaker'[s] = breaker[s] /\ breaker[s].state # "halfOpen"
        \/ /\ breaker[s].state # "open"
           /\ breaker'[s] = [state |-> "open", pendingClose |-> FALSE, reset |-> ResetTimeout]
    BY <2>1 DEF TypeOK, AfterFailure, Opened
  <2>4. \A x \in Requests : x # r => timer'[x] = timer[x] /\ left'[x] = left[x] /\ at'[x] = at[x]
    BY DEF TypeOK
  <2>5. \A x \in Services : Calls(x)' \subseteq Calls(x) \ {r}
    BY <2>1 DEF Calls
  <2>6. \A x \in Requests : timer'[x] < ResetTimeout
    BY DEF TypeOK
  <2>7. ClockInv'
    <3>1. \A x \in Services : breaker'[x].state = "open" =>
              \A y \in Calls(x)' : timer'[y] < breaker'[x].reset
      BY <2>2, <2>3, <2>4, <2>5, <2>6 DEF ClockInv, Calls
    <3>2. \A x \in Requests : at'[x] = "calling" => timer'[x] < left'[x]
      BY <2>4 DEF ClockInv, TypeOK
    <3> QED BY <3>1, <3>2 DEF ClockInv
  <2>8. ProbeInv'
    BY <2>1, <2>2, <2>3 DEF ProbeInv
  <2> QED BY <2>7, <2>8
<1>3. UserInv'
    BY StateFacts DEF TypeOK, UserInv, ReplyInv, HasRole
<1>4. ReplyInv'
    BY StateFacts DEF TypeOK, ReplyInv
<1>5. AnswerInv'
    BY StateFacts DEF TypeOK, AnswerInv, ReplyInv
<1> QED BY <1>1, <1>2, <1>3, <1>4, <1>5

\* When a breaker half-opens, the calls made before it opened have ended.
LEMMA HalfOpenKeeps ==
    ASSUME GatewayInv, NEW s \in Services, HalfOpen(s)
    PROVE  GatewayInv'
<1> USE GatewayAssumption DEF GatewayInv, HalfOpen
<1>1. TypeOK'
    BY StateFacts DEF TypeOK, Breaker
<1>2. ClockInv' /\ ProbeInv'
  <2>1. \A x \in Services : Calls(x)' = Calls(x)
    BY DEF Calls, ServiceOf
  <2>2. Calls(s) = {}
    BY DEF ClockInv, Calls, TypeOK
  <2>3. \A x \in Services : x # s => breaker'[x] = breaker[x]
    BY DEF TypeOK
  <2>4. breaker'[s].state = "halfOpen" /\ breaker'[s].pendingClose
    BY DEF TypeOK
  <2>5. ClockInv'
    BY <2>1, <2>3, <2>4 DEF ClockInv
  <2>6. ProbeInv'
    BY <2>1, <2>2, <2>3, <2>4 DEF ProbeInv
  <2> QED BY <2>5, <2>6
<1>3. UserInv'
    BY StateFacts DEF TypeOK, UserInv, ReplyInv, HasRole
<1>4. ReplyInv'
    BY StateFacts DEF TypeOK, ReplyInv
<1>5. AnswerInv'
    BY StateFacts DEF TypeOK, AnswerInv, ReplyInv
<1> QED BY <1>1, <1>2, <1>3, <1>4, <1>5

\* All clocks advance together.
LEMMA TickKeeps ==
    ASSUME GatewayInv, Tick
    PROVE  GatewayInv'
<1> USE GatewayAssumption DEF GatewayInv, Tick
<1>1. TypeOK'
  <2>1. ASSUME NEW x \in Services PROVE breaker'[x] \in Breaker
    BY DEF TypeOK, Breaker
  <2>2. breaker' \in [Services -> Breaker]
    BY <2>1
  <2>3. left' \in [Requests -> 0..RequestTimeout] /\ timer' \in [Requests -> 0..BreakerTimeout]
    BY DEF TypeOK
  <2> QED BY <2>2, <2>3 DEF TypeOK
<1>2. ClockInv' /\ ProbeInv'
  <2>1. \A x \in Services : Calls(x)' = Calls(x)
    BY DEF Calls, ServiceOf
  <2>2. \A x \in Services : /\ breaker'[x].state = breaker[x].state
                            /\ breaker'[x].pendingClose = breaker[x].pendingClose
                            /\ breaker[x].state = "open" => breaker'[x].reset = breaker[x].reset - 1
    BY DEF TypeOK, Breaker
  <2>3. \A x \in Requests : at[x] = "calling" =>
            timer'[x] = timer[x] - 1 /\ left'[x] = left[x] - 1
    BY DEF TypeOK
  <2>4. \A x \in Services : breaker'[x].state = "open" =>
            \A y \in Calls(x)' : timer'[y] < breaker'[x].reset
    BY <2>1, <2>2, <2>3 DEF ClockInv, Calls, TypeOK, Breaker
  <2>5. \A x \in Requests : at'[x] = "calling" => timer'[x] < left'[x]
    BY <2>3 DEF ClockInv, TypeOK
  <2>6. ProbeInv'
    BY <2>1, <2>2 DEF ProbeInv
  <2> QED BY <2>4, <2>5, <2>6 DEF ClockInv
<1>3. UserInv'
    BY StateFacts DEF TypeOK, UserInv, ReplyInv, HasRole
<1>4. ReplyInv'
    BY StateFacts DEF TypeOK, ReplyInv
<1>5. AnswerInv'
    BY StateFacts DEF TypeOK, AnswerInv, ReplyInv
<1> QED BY <1>1, <1>2, <1>3, <1>4, <1>5

\* Every step of the gateway, its services and its clocks keeps the invariant.
LEMMA GatewayStep == GatewayInv /\ [Next]_vars => GatewayInv'
<1> SUFFICES ASSUME GatewayInv, [Next]_vars PROVE GatewayInv'
    OBVIOUS
<1>1. ASSUME NEW r \in Requests, NEW q \in Sent, Arrive(r, q) PROVE GatewayInv'
    BY <1>1, ArriveKeeps
<1>2. ASSUME NEW r \in Requests, Authenticate(r) PROVE GatewayInv'
    BY <1>2, FindCachedKeeps, ReadTokenKeeps, StoreUserKeeps, SkipStoreKeeps DEF Authenticate
<1>3. ASSUME NEW r \in Requests, Dispatch(r) PROVE GatewayInv'
    BY <1>3, ForbidKeeps, RejectKeeps, FireKeeps DEF Dispatch
<1>4. ASSUME NEW r \in Requests, EndCall(r) PROVE GatewayInv'
    BY <1>4, CallSucceedsKeeps, CallFailsKeeps DEF EndCall
<1>5. ASSUME NEW r \in Requests, Finish(r) PROVE GatewayInv'
    BY <1>5, PassOnKeeps, BadBodyKeeps, LoggedOutKeeps, EvictKeeps DEF Finish
<1>6. ASSUME NEW r \in Requests, TimeOut(r) PROVE GatewayInv'
    BY <1>6, TimeOutKeeps
<1>7. ASSUME NEW r \in Requests, ServiceStep(r) PROVE GatewayInv'
    BY <1>7, ServeKeeps, DenyKeeps, FailKeeps DEF ServiceStep
<1>8. ASSUME NEW k \in Token, Expire(k) PROVE GatewayInv'
    BY <1>8, ExpireKeeps
<1>9. ASSUME NEW s \in Services, HalfOpen(s) PROVE GatewayInv'
    BY <1>9, HalfOpenKeeps
<1>10. CASE Tick
    BY <1>10, TickKeeps
<1>11. CASE UNCHANGED vars
  <2>1. TypeOK' /\ ClockInv' /\ ProbeInv'
    BY <1>11, CallsUntouched DEF vars, GatewayInv, TypeOK
  <2>2. UserInv'
    BY <1>11 DEF vars, GatewayInv, UserInv, HasRole
  <2>3. ReplyInv' /\ AnswerInv'
    BY <1>11 DEF vars, GatewayInv, ReplyInv, AnswerInv
  <2> QED BY <2>1, <2>2, <2>3 DEF GatewayInv
<1> QED BY <1>1, <1>2, <1>3, <1>4, <1>5, <1>6, <1>7, <1>8, <1>9, <1>10, <1>11 DEF Next

\* The inductive invariant holds of the gateway: no breaker is ever half open
\* with no call to decide it, at most one call probes a service, and no call
\* made before a breaker opened is left when it half-opens.
THEOREM GatewayCorrect == Spec => []GatewayInv
<1>1. Init => GatewayInv
    BY GatewayInitially
<1>2. GatewayInv /\ [Next]_vars => GatewayInv'
    BY GatewayStep
<1> QED BY <1>1, <1>2, PTL DEF Spec

\* The answer a client gets from the gateway tells the truth about what the
\* service did, however late the service is.
THEOREM AnswersTellTheTruth == Spec => []AnswersAreTrue
<1>1. GatewayInv => AnswersAreTrue
    BY DEF GatewayInv, AnswersAreTrue, AnswerInv, ReplyInv
<1> QED BY <1>1, GatewayCorrect, PTL

\* Whatever the cache holds, an operation is carried out only for a token whose
\* user may have it done, and no admin's route is refused by the service.
THEOREM AuthorityIsTheTokens == Spec => []ActsWithAuthority
<1>1. ASSUME GatewayInv, NEW r \in Requests
      PROVE  /\ r \in applied =>
                   \/ req[r].route.guard = "public"
                   \/ req[r].credential # NoToken /\ Permits(req[r], req[r].credential.sub)
             /\ reply[r] = "denied" => req[r].route.guard = "user"
  <2> USE <1>1 DEF GatewayInv
  <2>1. reply[r] # "none" =>
            \/ req[r].route.guard = "public"
            \/ req[r].credential # NoToken /\ user[r] = req[r].credential.sub
    BY DEF UserInv
  <2>2. r \in applied => reply[r] # "none" /\ Permits(req[r], user[r])
    BY DEF ReplyInv
  <2>3. req[r] \in Sent
    BY StateFacts
  <2>4. reply[r] = "denied" => ~Permits(req[r], user[r]) /\ HasRole(r)
    BY DEF ReplyInv, UserInv
  <2>5. reply[r] = "denied" => req[r].route.guard = "user"
    BY <2>3, <2>4, RequestFacts DEF Permits, HasRole
  <2> QED BY <2>1, <2>2, <2>5
<1>2. GatewayInv => ActsWithAuthority
    BY <1>1 DEF ActsWithAuthority
<1> QED BY <1>2, GatewayCorrect, PTL

=============================================================================
