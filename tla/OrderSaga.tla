------------------------------ MODULE OrderSaga ------------------------------
(***************************************************************************)
(* The order saga: order-service orchestrates product-service and          *)
(* payment-service through commands and replies on Kafka.  The three       *)
(* services share nothing but the topics; a step of the system is a        *)
(* transaction of one of them or a step of an outbox processor.            *)
(***************************************************************************)
EXTENDS OrderService, ProductService, PaymentService, FiniteSetsExt

vars == <<transportVars, orderVars, productVars, paymentVars>>

TypeOK ==
    /\ TransportTypeOK
    /\ OrderTypeOK
    /\ ProductTypeOK
    /\ PaymentTypeOK

Init ==
    /\ TransportInit
    /\ OrderInit
    /\ ProductInit
    /\ PaymentInit

OrderStep == OrderNext /\ UNCHANGED <<productVars, paymentVars>>

ProductStep == ProductNext /\ UNCHANGED <<orderVars, paymentVars>>

PaymentStep == PaymentNext /\ UNCHANGED <<orderVars, productVars>>

OutboxStep == ProcessPending /\ UNCHANGED <<orderVars, productVars, paymentVars>>

Next ==
    \/ OrderStep
    \/ ProductStep
    \/ PaymentStep
    \/ OutboxStep

Spec == Init /\ [][Next]_vars

-----------------------------------------------------------------------------
(***************************************************************************)
(* Fairness.  Nothing is assumed of Kafka, of the outbox processors or of  *)
(* the other services: any message may be lost.  Only order-service itself *)
(* keeps running: the clock advances, @Interval keeps starting ticks, a    *)
(* tick that runs works through its snapshot, and a saga that is met again *)
(* and again is not found locked, or its transaction failing, every time.  *)
(***************************************************************************)

Alone(A) == A /\ UNCHANGED <<productVars, paymentVars>>

RetryFairness ==
    /\ \A o \in Orders : WF_vars(Alone(TimePasses(o)))
    /\ \A t \in Ticks :
          /\ WF_vars(Alone(FindStuck(t)))
          /\ WF_vars(Alone(\E o \in Orders : RetryStep(t, o)))
    /\ \A o \in Orders :
          SF_vars(Alone(\E t \in Ticks : GiveUp(t, o) \/ ResendCommand(t, o)))

FairSpec == Spec /\ RetryFairness

-----------------------------------------------------------------------------
(***************************************************************************)
(* Properties                                                              *)
(***************************************************************************)

\* Some message of this topic was written for order o.
Announced(topic, o) == \E m \in Sent : m.topic = topic /\ m.order = o

Reserved(o) == reserveReply[o].topic = "STOCK_RESERVED"
Charged(o) == payments[o].status = "completed"

\* pdf-service and notification-service are never told both that an order is
\* confirmed and that it is cancelled, whichever replies are redelivered and
\* however the retry ticks overlap.
OneVerdict ==
    \A o \in Orders : ~(Announced("ORDER_CONFIRMED", o) /\ Announced("ORDER_CANCELLED", o))

\* The ORDER_CONFIRMED event of an order carries the total its stock was
\* reserved at and its customer was charged, and the stock is still reserved.
ConfirmedIsPaidAndHeld ==
    \A m \in Sent : m.topic = "ORDER_CONFIRMED" =>
        /\ Charged(m.order)
        /\ payments[m.order].amount = m.total
        /\ reserveReply[m.order] = [topic |-> "STOCK_RESERVED", total |-> m.total]
        /\ releaseReply[m.order] = "none"

\* A cancelled order was not charged, and holds no complete reservation: it
\* was refused, or what it had was released.
CancelledIsUndone ==
    \A o \in Orders : Announced("ORDER_CANCELLED", o) =>
        /\ ~Charged(o)
        /\ Reserved(o) => releaseReply[o] = "STOCK_RELEASED"

\* A charge stands for goods that are reserved, at the price they were
\* reserved at, and such goods are never released, not even when the saga has
\* given up waiting and the reply to the charge arrives too late.
ChargedGoodsStayReserved ==
    \A o \in Orders : Charged(o) =>
        /\ Reserved(o) /\ reserveReply[o].total = payments[o].amount
        /\ releaseReply[o] = "none"
        /\ ~Announced("RELEASE_STOCK", o)

Holding == {o \in Orders : Reserved(o) /\ releaseReply[o] = "none"}
Refused == {o \in Orders : reserveReply[o].topic = "STOCK_RESERVATION_FAILED"}

\* Units of product p in the reservations, and in the first f[o] lines of the
\* refused orders.
Held(p) == SumFunctionOnSet([o \in Orders |-> Demand[o][Lines[o]][p]], Holding)
Kept(f, p) == SumFunctionOnSet([o \in Refused |-> Demand[o][f[o]][p]], Refused)

\* How many lines each refused order may have got through.
Prefixes ==
    {f \in [Refused -> UNION {0..(Lines[o] - 1) : o \in Orders}] : \A o \in Refused : f[o] < Lines[o]}

\* The idempotency tables keep redelivered and retried commands from taking
\* stock twice or returning it twice: each missing unit is in a reservation
\* that was not released, or in the leading lines of a refused order.
StockAccounted ==
    \E f \in Prefixes : \A p \in Products : stock[p] + Held(p) + Kept(f, p) = InitStock[p]

ChargedTo(u) == {o \in Orders : Customer[o] = u /\ Charged(o)}

\* A wallet holds what was put into it less the completed payments of its
\* user, and nothing was put into a wallet that does not exist: no order is
\* charged twice, no charge is lost, and no wallet is opened twice.
WalletAccounted ==
    \A u \in Users :
        /\ ~wallets[u].exists => deposited[u] = 0
        /\ wallets[u].balance + SumFunctionOnSet([o \in Orders |-> payments[o].amount], ChargedTo(u))
              = deposited[u]

\* A saga that ended stays as it is: a late reply or an overlapping tick
\* changes neither its row nor the order's, and order-service writes no
\* further message about the order.
EndedSagaIsFinal ==
    [][\A o \in Orders : sagas[o].status \in {"completed", "failed"} =>
          /\ UNCHANGED <<sagas[o], orders[o]>>
          /\ \A m \in outbox'["order"] \ outbox["order"] : m.order # o]_vars

\* Every saga ends, even if every message is lost: the retry budget is never
\* reset, and the retry timer spends it.
EverySagaEnds ==
    \A o \in Orders : sagas[o].status = "running" ~> sagas[o].status \in {"completed", "failed"}

-----------------------------------------------------------------------------
(***************************************************************************)
(* The inductive invariant: what the tables of the three services and the  *)
(* messages between them say about each other.                             *)
(***************************************************************************)

\* The two tables of order-service agree.
OrderFollowsSaga ==
    \A o \in Orders :
        /\ sagas[o].status = "none" <=> orders[o].status = "none"
        /\ sagas[o].status = "none" => sagas[o].step = "reserve_stock"
        /\ sagas[o].status = "running" =>
              \/ sagas[o].step = "reserve_stock" /\ orders[o].status = "pending"
              \/ sagas[o].step \in {"process_payment", "release_stock"} /\ orders[o].status = "confirmed"
        /\ sagas[o].status = "completed" => orders[o].status = "confirmed"
        /\ orders[o].status = "cancelled" => sagas[o].status = "failed"

\* A message agrees with the tables of the service that wrote it and of the
\* services that one had waited for.
MessageIsTrue(m) ==
    /\ m.topic = "RESERVE_STOCK" => orders[m.order].status # "none"
    /\ m.topic \in {"STOCK_RESERVED", "PROCESS_PAYMENT"} =>
          reserveReply[m.order] = [topic |-> "STOCK_RESERVED", total |-> m.total]
    /\ m.topic = "STOCK_RESERVATION_FAILED" => reserveReply[m.order].topic = m.topic
    /\ m.topic \in {"PAYMENT_PROCESSED", "PAYMENT_FAILED"} => payReply[m.order] = m.topic
    /\ m.topic = "RELEASE_STOCK" => payReply[m.order] = "PAYMENT_FAILED"
    /\ m.topic = "STOCK_RELEASED" => releaseReply[m.order] = m.topic
    /\ m.topic = "ORDER_CONFIRMED" =>
          sagas[m.order].status = "completed" /\ m.total = orders[m.order].total
    /\ m.topic = "ORDER_CANCELLED" => orders[m.order].status = "cancelled"

\* Nobody says what is not so, and no message becomes untrue while it waits.
MessagesAreTrue == \A m \in Sent : MessageIsTrue(m)

\* What order-service has recorded happened in the other services.
SagaFollowsReplies ==
    \A o \in Orders :
        /\ orders[o].status = "confirmed" =>
              reserveReply[o] = [topic |-> "STOCK_RESERVED", total |-> orders[o].total]
        /\ CanHandle(o, "release_stock") => payReply[o] = "PAYMENT_FAILED"
        /\ sagas[o].status = "completed" => payReply[o] = "PAYMENT_PROCESSED"
        /\ orders[o].status = "cancelled" =>
              \/ reserveReply[o].topic = "STOCK_RESERVATION_FAILED"
              \/ releaseReply[o] = "STOCK_RELEASED"

\* The participants act in the saga's order and their idempotency rows agree
\* with their tables.
ParticipantsInOrder ==
    \A o \in Orders :
        /\ reserveReply[o].topic # "STOCK_RESERVED" => reserveReply[o].total = 0
        /\ payReply[o] = "none" <=> payments[o].status = "none"
        /\ payReply[o] = "PAYMENT_PROCESSED" <=> payments[o].status = "completed"
        /\ payReply[o] # "none" => Reserved(o) /\ reserveReply[o].total = payments[o].amount
        /\ releaseReply[o] # "none" => payReply[o] = "PAYMENT_FAILED"

\* Tables and messages of the three services never contradict each other: the
\* inductive invariant behind the theorems of OrderSagaProofs.
SagaInv ==
    /\ OrderFollowsSaga
    /\ MessagesAreTrue
    /\ SagaFollowsReplies
    /\ ParticipantsInOrder

-----------------------------------------------------------------------------
(***************************************************************************)
(* The saga implements the order contract.                                 *)
(***************************************************************************)

Goods(o) ==
    CASE releaseReply[o] # "none" -> "returned"
      [] releaseReply[o] = "none" /\ reserveReply[o].topic = "none" -> "shelf"
      [] releaseReply[o] = "none" /\ reserveReply[o].topic = "STOCK_RESERVED" -> "held"
      [] OTHER -> "refused"

Money(o) ==
    CASE payReply[o] = "none" -> "unpaid"
      [] payReply[o] = "PAYMENT_PROCESSED" -> "paid"
      [] payReply[o] = "PAYMENT_FAILED" -> "declined"

Verdict(o) ==
    CASE sagas[o].status = "completed" -> "confirmed"
      [] sagas[o].status # "completed" /\ orders[o].status = "cancelled" -> "cancelled"
      [] OTHER -> "open"

Contract == INSTANCE OrderContract WITH
    goods <- [o \in Orders |-> Goods(o)],
    money <- [o \in Orders |-> Money(o)],
    price <- [o \in Orders |-> reserveReply[o].total],
    paid <- [o \in Orders |-> IF Charged(o) THEN payments[o].amount ELSE 0],
    verdict <- [o \in Orders |-> Verdict(o)]

\* Seen from outside, the transactions of the three services are the steps of
\* the order contract: goods held, a charge or a refusal, a return, a verdict.
ImplementsContract == Contract!Spec

=============================================================================
