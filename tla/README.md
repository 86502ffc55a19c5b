# A verification of shop-microservices

The shop is eight NestJS services behind a gateway. A client's order is handled by
three of them, which share no database: order-service orchestrates product-service
and payment-service with commands and replies on Kafka, every message goes through
a transactional outbox, and a timer resends the commands of sagas that got stuck.
Almost everything that is hard about the program is there, so the project starts
there: TLA+ modules of the order saga and of the outbox, then of the product catalogue,
of what follows an order, of the Kafka consumers, of accounts and profiles and of the
gateway, model-checked with TLC on small instances and proved with TLAPS for all
instances.

Line numbers refer to the repository's files; `PROJECT.json` maps every definition
to the lines it models.

## 1. Inventory

| Component | State | Operations | Hard parts | What makes it correct |
|---|---|---|---|---|
| order-service | `orders`, `saga_state`, `outbox` | `CreateOrderUseCase.execute`; `onStockReserved`, `onStockReservationFailed`, `onPaymentProcessed`, `onPaymentFailed`, `onStockReleased`; `retryStuckSagas` every 10 s | late, repeated and reordered replies; ticks that overlap and work on a snapshot; retries that run out while an answer is on its way | one verdict per order, which agrees with what the other services did; an ended saga stays ended; every saga ends |
| product-service, saga side | `products.stock`, `idempotency_keys`, `outbox` | `handleReserveStock`, `handleReleaseStock` | repeated commands; an error caught inside the transaction | stock is taken and returned once; a duplicate gets the first answer |
| product-service, catalogue | `products`, Redis | `create`, `update`, `remove`, `findById`, `POST /products/reserve` | read-then-save of whole rows, cache fills that race evictions, rows locked in any order | no lost update of stock, no stale cache entry without a known cause, no transaction left waiting for a row |
| payment-service | `payments`, `user_wallets`, `idempotency_keys`, `outbox` | `handleProcessPayment`, `handleUserRegistered`, `POST /wallets/:id/top-up` | repeated commands; an error caught inside the transaction; a top-up before registration | an order is charged at most once; the wallet accounts for every charge |
| outbox (`packages/outbox`, order-service's copy) | the outbox tables, `isProcessing` | `processPending` every second | publication inside a transaction that may roll back; several processes; a limited number of attempts | what is marked was sent; duplicates have a cause; rows do not wait for ever |
| Kafka client (`packages/kafka`) | subscriptions, offsets | `publish`, `dispatch`, `sendToDlq` | three attempts, then a dead-letter topic whose failure is swallowed; a handler that outlives its session; groups that begin at the end of a topic | what is committed was settled; a repeated command takes effect once; no message holds up the others for ever |
| auth-service | `users`, `auth_outbox` | `register`, `login`, `refresh`, `logout` | check-then-update of the refresh token without a lock | a rotated token is exchanged once, a revoked one not at all, unless requests race |
| user-service | `profiles` | `createProfile` (from `USER_REGISTERED`), `update`, `remove` | repeated events, read-then-save | one profile per user, a removed one stays removed |
| pdf-service | receipt files | `generateOrderPdf` | a partly written file passes the exists test | `PDF_GENERATED` names a whole receipt |
| notification-service | `notification_log` | `notifyOrderConfirmed`, `notifyOrderCancelled`, `notifyPdfReady` | the log row is written before the mail is sent | at most one mail per order and event |
| gateway | circuit breakers, token cache | proxying, JWT validation, roles, timeouts | a call that times out and still succeeds; three clocks; a half-open breaker; a cache that fails | every request is answered, and truthfully; recovery after an outage; nobody acts as another user |

How they interact: HTTP from the gateway to the services (request headers carry the
identity); Kafka topics between the services (`KAFKA_TOPICS`), one partition each
(`docker-compose.yml`); no shared database. `USER_REGISTERED` goes from auth-service
to user-service and payment-service, `ORDER_CONFIRMED` and `ORDER_CANCELLED` from
order-service to pdf-service and notification-service, `PDF_GENERATED` from
pdf-service to notification-service.

## 2. Modules

```
Transport                 messages, outboxes, topics
  OrderService            order-service
  ProductService          product-service as a saga participant
  PaymentService          payment-service
    OrderSaga             the three composed; properties, inductive invariant, refinement
      OrderSagaClaims     what the docs and tests say and the code does not do
        MCOrderSaga       instances for TLC
      OrderSagaProofs     TLAPS
OrderContract             what the shop promises about an order (abstract)
StockContract             what product-service promises about a reservation (abstract)
SumTheorems               lemmas on sums over finite sets, for the accounting theorems
Outbox                    the outbox processor row by row
  MCOutbox, OutboxProofs
ProductCatalog            product-service statement by statement: row locks, admin edits, cache
  MCProductCatalog, ProductCatalogProofs
Fulfilment                pdf-service and notification-service
  MCFulfilment, FulfilmentProofs
KafkaConsumer             a consumer group, dispatch, the command handlers at the idempotency row
  MCKafkaConsumer, KafkaConsumerProofs
Accounts                  auth-service and user-service
  MCAccounts, AccountsProofs
Gateway                   guards, token cache, breakers, timeouts, routes
  MCGateway, GatewayProofs
```

**Transport.** `outbox[s]` is the set of PENDING rows of service `s`, `log` the set of
all messages ever published. A handler is enabled by any message in `log`, at any
time and any number of times: this covers redelivery after a rebalance, reordering,
delay, and (a handler need never run) loss. A row is published and removed
(`PublishRow`), published and kept because the marking transaction rolled back
(`PublishRolledBack`), or given up after `OUTBOX_MAX_RETRIES` attempts
(`PermanentlyFail`). A message is its topic, its order and its total; commandIds are
functions of topic and saga (`saga.id`, `saga.id-pay`, `saga.id-release`) and need no
field.

**OrderService.** `orders[o]` and `sagas[o]` are the rows, `due[o]` says that
`nextRetryAt` has passed, `stuck[t]` is what loop `t` of `retryStuckSagas` has left of
its snapshot. A reply handler is one transaction under the saga's row lock and so one
action; a reply the saga does not wait for changes nothing and needs no action. The
retry timer is not atomic: `FindStuck` takes the unlocked snapshot, then `SkipSaga`,
`GiveUp` or `ResendCommand` handles one saga in a transaction that re-reads the status
(but not `nextRetryAt`). `Ticks` is the set of loops that may run at once, since
`@Interval` does not wait for the last tick.

**ProductService.** An order is a list of lines; only running totals matter, so
`Demand[o][n][p]` is what the first `n` lines take of product `p`. `RefuseStock` keeps
the lines before the failing one, because `handleReserveStock` catches the error
inside the transaction and commits. The total is any member of `Totals`: the price is
read when the stock is reserved, and may have been changed before.

**PaymentService.** `ChargePayment` and `DeclinePayment` are the two ends of
`handleProcessPayment`; a declined payment leaves its row PENDING, as the code does.
`deposited` is a history variable.

**OrderSaga** composes the three with the outbox and states the properties.
**OrderContract** is the abstract specification: per order the goods (shelf, held,
refused, returned), the money (unpaid, paid, declined), the agreed price, the charge
and the verdict. `Contract` maps the tables to it: goods from product-service's
idempotency rows, money from payment-service's, the verdict from `saga_state` and
`orders`.

**Outbox** refines one step of `Transport` into a tick of `processPending`: a batch
locked with SKIP LOCKED, one publication after the other, outcomes that count only
when the transaction commits, and a rollback at any point. A publication that the
client sees fail may have reached the broker. `sends` and `mishaps` are history.

**ProductCatalog** takes `ProductsService` apart where ProductService has one step. `row[p]`
is the committed row, `writer[p]` the transaction that holds its lock and `dirty[p]` the
stock it has written. A reservation or compensation is a loop of `TakeLine` or `ReturnLine`
and a commit; the saga's path evicts before the loop (`BeginReserve`, `BeginRelease`), the
HTTP path after the commit (`EvictAfterCommit`). `update` and `remove` are four steps: read,
compare, save, evict; TypeORM's `save()` reads the row again and writes the columns in which
the copy differs, so the model remembers both the copy and the row found. `fetch[p]` is the
one reader that `dedup` lets through, which stores later what it read earlier (`dedup` is per
process, so this is one instance of the service). A reservation does not wait for the locked row of
a removed product, which its SELECT does not find. `base`,
`overwritten` and `tainted` are history; `Units(c, n, p)` is the quantity of a product in a
call's first lines, `LinesTaken(c)` how many lines its commits have taken. Sequences of the
idempotency table are left to ProductService: an order here is reserved and released once, or
aborted and repeated.

**StockContract** has the shelf, the outcome of each call and the admins' requests; `Reserve`,
`Refuse`, `Fail`, `Release` and `Administer` are one step each, the way ProductService models
the saga's two handlers. `Stock` maps the catalogue to it: the shelf is the committed table, and
a call's outcome is open until the commit of its transaction. So `ReservesAtomically` justifies
ProductService's one step per handler: the lines a transaction goes through one by one, while
others commit, edit and remove products, come to the same as the test of all running totals
at the moment of the commit.

**Fulfilment** starts with the verdict order-service published (once, by `OneVerdict`). A
worker of pdf-service goes through exists test, opening, finish event and publication, and
may fail or crash in between; files stay, because `PDF_OUTPUT_DIR` is a volume. A worker
that opens a file another one is writing empties it (`"overtaken"`). notification-service
inserts the log row and then sends the mail. Two workers of a service overlap while a
consumer group is rebalanced.

**KafkaConsumer** is one partition of a command topic, the group that consumes it and the
service's instances. `owner` is whom the coordinator has given the partition, `assigned` who
believes to have it: a session may end while a handler is running, and the old owner hears of
it only between messages (`NoticeRebalance`). `FirstOffset` is `fromBeginning: false`: as long
as the group has committed nothing, it begins at the end. `dispatch` is `Fetch`, then
`DropJunk` for a message that cannot be parsed, or the handler, then `HandlerFails` with the
next attempt or `SendToDlq`, whose own failure only drops the message. The handler is taken
apart where `OrderSaga` has one step: `ReplyAgain` or `FindMisses` at the idempotency row,
`DoWork`, which waits for the row locks of another transaction, and `SaveAndCommit`, where
`repo.save` overwrites a row that has come into being. A payment cannot repeat its work,
since `payments.orderId` is unique (`OncePerOrder`). `fate`, `applied`, `replies`,
`overlapped` and `mishaps` are history.

**Accounts** has the requests for tokens in progress (`Register`, `Login` or `Refresh`
reads or writes the user's row, `IssueTokens` later stores a hash, `Answer` may be lost), the
handlers of `USER_REGISTERED` (`CheckProfile`, `SaveProfile`) and the edits of profiles
(`Update` or `Remove` reads, `FindForSave` and `SaveEdit` are the two statements of
`save()`, which writes the columns in which the copy differs from the row found then).
Token `n` of a user is the n-th pair signed for it. `tokens`, `rival`, `closed`, `asked` and
`overlapped` are history: which token each pair was exchanged for, which exchanges raced, who
logged out undisturbed, what the edits asked for.

**Gateway** follows a request through `JwtAuthGuard` (with the cache of `JwtStrategy`, read
and written in two steps, either of which may fail), `RolesGuard`, the breaker and the
response's body, while three clocks run: the breaker's 4.5 s for a call, the interceptor's
5 s for a request, and the 30 s a breaker stays open. `Tick` lowers all of them and waits
until a clock that has run out is attended to. A service is as slow as it likes, goes on with
a call the gateway has given up, and may lose the connection before or after the work. What
opossum does is modelled from its use: a breaker that is not closed turns calls away unless it
is about to let one through; a failure opens a half-open breaker, and a closed one when its
rolling window says so, which is left open; a success closes a half-open one. A route is its
guard at the gateway and the rule of the service behind it, so that both checks of the same
request can be compared. A handler that goes on after its request timed out can only delete a
cache entry, as `Expire` does at any time.

## 3. Properties and runs

| Run | Instance | Shows |
|---|---|---|
| `one_order` | one order of three lines (one product twice), the code's three retries, two overlapping ticks, two prices, a wallet that is missing, short or topped up, rows that may fail | `SagaInv`, `OneVerdict`, `ConfirmedIsPaidAndHeld`, `CancelledIsUndone`, `ChargedGoodsStayReserved`, `WalletAccounted`, `StockAccounted`, `EverySagaEnds`, `EndedSagaIsFinal`, `ImplementsContract` |
| `two_orders` | two orders that name a product in short supply and one that is sold out, so that the first takes what the second needs; `findStuck` returns one saga | `StockAccounted`: every missing unit is reserved or in the committed prefix of a refused order; `EverySagaEnds` for the saga that is passed over |
| `outbox_rows` | three rows, two processes, batches of two, two attempts | `OutboxInv`, `PublishedWasSent`, `NoDuplicateWithoutMishap`, `EveryRowSettles`, `BehavesAsTransport` |
| `catalog_cache` | one product, a saga order with its compensation and an HTTP client with two lines of it each, an admin, a reader, entries that expire, Redis may fail | `TypeOK` (stock never below zero), `UnitsAccounted`, `StaleIsExplained`, `CatalogInv`, `EveryTransactionEnds`, `ReservesAtomically` |
| `fulfilment` | two orders, two workers of each service, two attempts, crashes anywhere | `FulfilmentInv` (from which `MailsTellOneStory` is proved), `MailedAtMostOnce`, `ReceiptIsWhole` |
| `consumer` | two instances, a reservation, a payment and junk, two messages in any order or one twice, two attempts, one crash or lost session | `ConsumerInv`, `RepeatNeedsOverlap`, `CommittedIsSettled`, `EveryMessageSettles` |
| `accounts` | one user, two requests for tokens, two handlers and two edits at once, three pairs of tokens; symmetric in each | `AccountsInv`, `ReplayNeedsRace`, `LogoutHolds`, `EditsHold` |
| `gateway` | two requests at a time, by an administrator, a member or nobody, for a route of every kind of guard and rule, two services; symmetric in the requests | `GatewayInv`, `AnswersAreTrue`, `ActsWithAuthority` |
| `gateway_live` | two requests at a time for one service, which may hang | `EveryRequestIsAnswered`, `BreakersRelent` |
| `claim_refused_order_takes_nothing`, `claim_never_double_reserves`, `claim_hung_service_is_timed_out` | two orders for the last unit of a product; as `consumer`; as `gateway_live` with one request | the disagreements below |

Why the bounds are enough. The saga keeps no state that relates two orders except
stock and wallets, so one order with everything that can happen to it, and two orders
that compete for stock, are the distinct cases; the theorems remove the bound for all
but the liveness properties. A charge is one step on one wallet, so a second order
changes a wallet as a top-up does, and `WalletAccounted` is checked with one. Two ticks are enough for every overlap
of two loops on a saga, and `MaxRetries = 3` is the code's value. `StockAccounted` needs an
order that is reserved and returned (`one_order`), and two that are refused, the second for what
the first has taken (`two_orders`, with one retry and one tick). `MaxDeposit` bounds top-ups, `MaxMishaps` bounds the rollbacks
counted for a row, `MaxStock` the stock an admin enters. In `ProductCatalog` a race needs one
call on each side and a reader, and a call that has two lines of the product holds its lock
from line to line and may fail with something to undo (two products locked in opposite order are a matter of the database, which
aborts one of the two transactions; `Abort` may happen at any time here); in `Fulfilment` two workers overlap in every way two handlers can,
and the second attempt is the one that can differ from the first. In `KafkaConsumer` one
mishap makes the second owner, and the second attempt is the last one as the third is in the
code; `MaxLog` and `MaxMishaps` are the bounds, and the theorems remove them from the safety
properties. In `Accounts` users share nothing, so one is enough; two requests race and the
third pair is the one signed after the race (`MaxTokens`). In `Gateway` only the order of the
three clocks matters, and two requests are a probe and another call, or a reader and a writer of one cache
entry; the routes in `MCSent` cover every pair of guard and rule that decides differently.
Deadlock is checked for the gateway only, which can always take another request; the other
systems may run out of orders, messages or rows and have nothing left to do.

Fairness. `RetryFairness` is about order-service alone: the clock advances, `@Interval`
keeps starting ticks, a running loop goes on (WF), and a saga that is met again and
again is not found locked, or its transaction failing, every time (SF). Nothing is
assumed of Kafka, the outboxes or the other services, so `EverySagaEnds` holds even
when every message is lost: the retry count is never reset and runs out. For the
outbox: the clock and the ticks go on, and crashes and database failures stop at last
(`<>[][~Rollback]`); otherwise a batch of two may be rolled back between its rows for
ever. For the catalogue: a transaction goes on, and PostgreSQL's lock queues do not pass over one
that waits (SF); no transaction need fail, and admins, readers, evictions and new calls may stop. So
`EveryTransactionEnds` is about the locks the others leave behind: a refusal, a rollback or a
lost connection must free the row. It is checked for one row; a cycle of transactions that lock
several rows in different orders, which the code does not exclude, is broken by PostgreSQL. For a consumer group: an instance goes on with
the message in hand, hears of a rebalance, and some instance joins a group without an owner;
offsets may never be committed and handlers may always fail. Crashes are bounded, since a
process that keeps crashing handles nothing. For the gateway: timers fire, Redis answers or
fails (the guards run before the interceptor, so its clock does not cover them), and what has
arrived is taken up; nothing is assumed of services, bodies or clients, so
`EveryRequestIsAnswered` holds when a service hangs.

A saga that runs out of retries is failed and its order stays as it is, pending or confirmed, with
whatever stock or money it holds (README.md:202 only names `confirmed` and `cancelled`).
`ChargedGoodsStayReserved` says what is safe all the same: goods that were paid for are not
released.

### Disagreements found

Three of them are runs, in which TLC shows how the code departs from what the repository says:

* `RefusedOrderTakesNothing`. The integration test (products.integration-spec.ts:182,
  :196) requires a reservation to roll back when one line fails. It does for
  `reserveStock` on its own; the saga's handler catches the error inside the
  transaction and commits the lines before it. `StockAccounted` states what remains
  true.
* `NeverDoubleReserves`. The comment at products-saga.controller.ts:46 says that the check of
  the commandId makes redelivery safe. An instance that lost its session and the new owner
  of the partition both miss the row; the second waits for the first one's row locks, reserves
  again, and `repo.save` overwrites the row where an insert would have failed.
  `RepeatNeedsOverlap` says that nothing else repeats a command, and that a payment is never
  repeated. `OrderSaga`, where a handler is one step, is about executions without this overlap.
* `HungServiceIsTimedOut`. README.md:504 says that `TimeoutInterceptor` "returns 408 if
  downstream doesn't respond within `REQUEST_TIMEOUT_MS`" (also README.md:45 and
  timeout.interceptor.ts:8). The breaker's 4.5 s come before the interceptor's 5 s, and a request
  to a service that hangs ends in 503 "unreachable"; a 408 is left for a response whose body
  does not end. After that 503 the operation may have been carried out, and `POST /orders` has
  no idempotency key, so that a client who tries again may order twice. `AnswersAreTrue` says
  which answers a client can rely on, `EveryRequestIsAnswered` that a hanging service keeps
  nobody waiting.

Others follow from the models and have no run of their own:

* README.md:444 says confirmed means "stock reserved + payment processed"; `onStockReserved`
  confirms the order before it asks for the payment. The event `ORDER_CONFIRMED`, on the
  other hand, is sent after the payment (`ConfirmedIsPaidAndHeld`).
* The comments at products.service.ts:143 and :161 say that evicting before the writes leaves
  no window for a reader to store the old stock. It leaves the one between the eviction and
  the commit, one of the causes `StaleIsExplained` names, and the old stock is shown until the
  entry expires.
* A test (products.integration-spec.ts:115) says an update leaves other fields unchanged; an
  update that races a reservation writes the old stock back, or brings a removed product back.
  `UnitsAccounted` says that nothing else loses units; `EditsHold` says the same of profiles.
* The mail says the receipt is ready (notification.service.ts:35), but the exists test of
  `generateOrderPdf` (pdf.service.ts:21) accepts the part of a file that a failed attempt
  left. `ReceiptIsWhole` says when it is whole.
* The gateway lets only administrators ask for a wallet by its id, where payment-service would
  also let its owner; a profile that was removed does not stop its user from logging in, since
  auth-service has its own `isActive`; an access token stays valid after a logout, which deletes
  only its cache entry.

## 4. Proofs

`OrderSagaProofs` proves, for all sets of orders, products, users and ticks and all
values of the other constants that satisfy the named assumptions (`TotalsAssumption`,
`RowsAssumption`, `OrderAssumption`, `ProductAssumption`, `PaymentAssumption`):

* `SagaInvariant`: `Spec => [](TypeOK /\ SagaInv)`;
* `OneVerdictTheorem`, `ConfirmedTheorem`, `CancelledTheorem`, `ChargedTheorem`: the safety
  properties follow from `SagaInv`;
* `EndedTheorem`: the action property `EndedSagaIsFinal`;
* `SagaTypes`: no stock or balance below zero, no retry beyond the limit;
* `WalletTheorem` and `StockTheorem`: `WalletAccounted` and `StockAccounted`, the sums of
  charges and of reserved lines over any number of orders;
* `SagaImplementsContract`: the composed system implements `OrderContract`.

The safety properties are not inductive: they relate tables of different services,
and what connects the services is messages that may have been written long ago.
`SagaInv` says what is true meanwhile. Its core is `MessagesAreTrue`: every message in
an outbox or on a topic agrees with the tables of the service that wrote it
(`STOCK_RESERVED` with the idempotency row, `PROCESS_PAYMENT` with the price at
reservation, `RELEASE_STOCK` with a declined payment, `ORDER_CONFIRMED` with a
completed saga). It stays true because what messages speak of never changes back
(lemma `Stability`): idempotency rows are written once, ended sagas and cancelled
orders stay so. `OrderFollowsSaga` relates the two tables of order-service,
`SagaFollowsReplies` relates them to the other services' tables, `ParticipantsInOrder`
says that the participants act in the saga's order. A handler takes a message, learns
from `MessagesAreTrue` what holds at its sender, and writes a message that is true in
turn.

The accounting theorems have inductive invariants of their own, `LedgerInv` and `ShelfInv`. They
need no assumption that there are finitely many orders: the orders charged to a user, and those
that hold or were refused a product, are finite in every reachable state, because each handler
adds at most one, and this is part of the invariants. A charge adds one order to the sum of
its user's charges, a reservation one to the orders that hold, a release takes one away.

`SumTheorems` has what these proofs need of `SumFunctionOnSet`: how the sum changes when an
element is added, removed or given another value. The library's induction theorems cannot be
instantiated here; the lemmas use instead that a nonempty collection of finite sets has a least
member (`LeastSubset`, from `WFMin` of `WellFoundedInduction`), so that a least set without a sum
would have to be that of a smaller set with one more element.

`OutboxProofs` proves `OutboxInvariant` for any rows, processes, batch size and number of
attempts, and from it `PublishedWasSent`, `NoDuplicateWithoutMishap` and
`BehavesAsTransport`. The invariant adds to the properties that a locked row is PENDING
and has one holder (`LocksHold`), that it has attempts left, and that every send is
recorded, in the table or in an open transaction, or explained by a mishap
(`SendsExplained`).

`ProductCatalogProofs` proves `CatalogInvariant` for any products, calls, lines and admins, and
`StaleIsExplained` from it. A stale entry is explained by a pending eviction, so the
invariant must know which rows a commit can change: those whose lock the call holds, which
are products of its lines (`LocksAreHeld`); and that a product that is being created is not
cached yet (`KnownRows`, which needs `KnownEdits` and `KnownLines`: nobody edits, sells or
returns what was not created).

`TransactionsAddUp` is about the transactions in progress: the stock a reservation sees, plus
the units of the lines it has been through, is the committed stock, however much others have
committed meanwhile; a compensation the other way round. It holds because a row that a
transaction has written is locked (`LinesAreLocked`), and gives `UnitsTheorem`: a commit takes
from the table what it adds to the sum over the calls, and `TakenIsKnown` says that a product
that is being created is in nobody's sum. `CallsAssumption`, that finitely many calls are made,
is used for that sum only.

`CatalogImplementsStock` is the refinement of `StockContract`. With `LinesStayOnSale`, that no
product is removed while a transaction holds units of it, `TransactionsAddUp` shows that what
a transaction checked line by line holds for the running totals when it commits
(`ProgressIsCovered`), and that a line it refuses could not be served then either
(`RefusalIsJustified`). The commits are the contract's steps, the admins' requests are its
`Administer`, a rollback of a client is `Fail`, and all else is invisible to it. The running
totals of the lines are a demand in the sense of `ProductAssumption` (`DemandOfLines`).

`FulfilmentProofs` proves `FulfilmentInvariant` for any orders, workers and attempts, and from it
`MailedAtMostOnce`, `MailsTellOneStory` and `ReceiptIsWhole`. The invariant adds that a mail in
a worker's hands is logged, not yet sent and in no other hands (`MailsAreLogged`), that
workers and events follow the verdict (`VerdictRules`), and that a partial file has a
writer or a reason (`FilesAreThere`).

`KafkaConsumerProofs` proves `ConsumerCorrect` for any commands, instances and number of
attempts, and from it `RepeatNeedsOverlap` and `CommittedIsSettled`. `OffsetInv` and `TaskInv`
say that a message in hand follows everything its instance is done with, which is why a commit
covers only settled messages although two instances advance at once. `LockInv` and `RowInv`
say what the locks and the idempotency row guarantee a transaction that missed the row: with
no rival, that nothing was done; for a payment, that nobody else has done it.

`AccountsProofs` proves `AccountsCorrect` for any users and requests, and from it
`ReplayNeedsRace`, `LogoutHolds` and `EditsHold`. The stored hash is always of a token that was
not exchanged yet (`StoredInv`); a request that passed the check and finds its token
exchanged by now is one of two that raced (`IssuingInv`).

`GatewayProofs` proves `GatewayCorrect` for any users, tokens, requests and routes and any
clocks with timeout < request timeout and timeout < reset timeout, and from it
`AnswersAreTrue` and `ActsWithAuthority`. `ClockInv` says that a call ends before the breaker
that opened meanwhile half-opens, so that the only call a half-open breaker hears of is its
probe (`ProbeInv`); `UserInv` that the cache is transparent; `ReplyInv` and `AnswerInv` follow a
request's outcome from the service to the client.

Only model-checked are the liveness properties, since fairness is out of the prover's reach:
`EverySagaEnds`, `EveryRowSettles`, `EveryTransactionEnds`, `EveryMessageSettles`, `EveryRequestIsAnswered`
and `BreakersRelent`. Every other property of a passing run is a theorem.

## 5. Not modelled, and the plan

Left out for good: formatting, DTO validation, logging, tracing, Swagger, migrations,
load tests, test reports, Nginx, and the modules that only wire providers together. Read-only
endpoints change no state. `InternalGuard` compares a header with a constant secret. In the
saga modules the handlers' transactions are one step each; this rests on row locks (taken
apart in `ProductCatalog`) and on Kafka handing a group's partition to one consumer (taken
apart in `KafkaConsumer`).

Of opossum only the state machine is modelled, not the statistics that decide when a closed
breaker opens: every decision is possible. Of Redis, PostgreSQL, TypeORM and Kafka only what
the code's use of them shows.

What could follow: a saga whose handlers are `KafkaConsumer`'s transactions, to see which of
`OrderSaga`'s properties survive an overlap; that `KafkaConsumer`'s deliveries are steps
`Transport` allows.
