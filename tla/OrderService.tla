---------------------------- MODULE OrderService ----------------------------
(***************************************************************************)
(* order-service: the orders and saga_state tables, the create-order use   *)
(* case, the saga orchestrator's reply handlers and its retry timer.       *)
(*                                                                         *)
(* Every handler is one database transaction that holds the saga's row     *)
(* lock, so it is one action.  A reply the saga is not waiting for changes *)
(* nothing (loadSagaForStep) and needs none.  retryStuckSagas is not       *)
(* atomic: it takes an unlocked snapshot of the stuck sagas and then runs  *)
(* one transaction per saga of the snapshot, and since @Interval starts a  *)
(* tick whether or not the previous one has finished, several such loops   *)
(* run at once.  Ticks is the set of loops, stuck[t] what loop t has left. *)
(***************************************************************************)
EXTENDS Transport, FiniteSets

CONSTANTS Ticks,       \* concurrent executions of retryStuckSagas
          MaxRetries,  \* Saga.MAX_RETRIES
          StuckLimit   \* rows findStuck returns at most

ASSUME OrderAssumption == MaxRetries \in Nat /\ StuckLimit \in Nat \ {0}

VARIABLES orders,  \* orders[o]: status and total of the order's row
          sagas,   \* sagas[o]: the saga_state row of order o
          due,     \* due[o]: nextRetryAt has passed
          stuck    \* stuck[t]: the sagas loop t has still to look at

orderVars == <<orders, sagas, due, stuck>>

Steps == {"reserve_stock", "process_payment", "release_stock", "completed", "failed"}

OrderRow == [status : {"none", "pending", "confirmed", "cancelled"},
             total : Totals \cup {0}]

SagaRow == [step : Steps,
            status : {"none", "running", "completed", "failed"},
            retryCount : 0..MaxRetries]

OrderTypeOK ==
    /\ orders \in [Orders -> OrderRow]
    /\ sagas \in [Orders -> SagaRow]
    /\ due \in [Orders -> BOOLEAN]
    /\ stuck \in [Ticks -> SUBSET Orders]

\* "none": the order has not been placed yet.
OrderInit ==
    /\ orders = [o \in Orders |-> [status |-> "none", total |-> 0]]
    /\ sagas = [o \in Orders |-> [step |-> "reserve_stock", status |-> "none", retryCount |-> 0]]
    /\ due = [o \in Orders |-> FALSE]
    /\ stuck = [t \in Ticks |-> {}]

-----------------------------------------------------------------------------
(***************************************************************************)
(* The saga entity: each method gives the next row, and the new deadline.  *)
(***************************************************************************)

CanHandle(o, step) == sagas[o].status = "running" /\ sagas[o].step = step

\* Saga.advance from RESERVE_STOCK: the retry count is carried over.
AdvanceToPayment(o) ==
    /\ sagas' = [sagas EXCEPT ![o].step = "process_payment"]
    /\ due' = [due EXCEPT ![o] = FALSE]

\* Slip: ADVANCE_MAP sends PROCESS_PAYMENT to the next member of SagaStep.
CompleteByEnumOrder(o) ==
    /\ sagas' = [sagas EXCEPT ![o].step = "release_stock"]
    /\ due' = [due EXCEPT ![o] = FALSE]

\* Saga.advance from PROCESS_PAYMENT: nextRetryAt becomes null.
Complete(o) ==
    /\ sagas' = [sagas EXCEPT ![o].step = "completed", ![o].status = "completed"]
    /\ due' = [due EXCEPT ![o] = FALSE]

StartCompensation(o) ==
    /\ sagas' = [sagas EXCEPT ![o].step = "release_stock"]
    /\ due' = [due EXCEPT ![o] = FALSE]

Fail(o) ==
    /\ sagas' = [sagas EXCEPT ![o].step = "failed", ![o].status = "failed"]
    /\ due' = [due EXCEPT ![o] = FALSE]

\* Slip: the retry count is not saved.
ScheduleRetryUncounted(o) ==
    /\ due' = [due EXCEPT ![o] = FALSE]
    /\ UNCHANGED sagas

ScheduleRetry(o) ==
    /\ sagas' = [sagas EXCEPT ![o].retryCount = @ + 1]
    /\ due' = [due EXCEPT ![o] = FALSE]

\* Slip: off by one.
HasPassedMaxRetries(o) == sagas[o].retryCount > MaxRetries

HasExceededMaxRetries(o) == sagas[o].retryCount >= MaxRetries

\* The command the saga's current step waits on; the same commandId each time.
Command(o) ==
    CASE sagas[o].step = "reserve_stock"   -> Msg("RESERVE_STOCK", o, 0)
      [] sagas[o].step = "process_payment" -> Msg("PROCESS_PAYMENT", o, orders[o].total)
      [] sagas[o].step = "release_stock"   -> Msg("RELEASE_STOCK", o, 0)

-----------------------------------------------------------------------------

\* POST /orders: the order, its saga and the first command in one transaction.
CreateOrder(o) ==
    /\ orders[o].status = "none"
    /\ orders' = [orders EXCEPT ![o].status = "pending"]
    /\ sagas' = [sagas EXCEPT ![o].status = "running"]
    /\ Write("order", Msg("RESERVE_STOCK", o, 0))
    /\ UNCHANGED <<due, stuck, log>>

\* The order is confirmed here, before the payment.  Order.confirm throws on
\* an order that is not pending and rolls the transaction back.
OnStockReserved(o) ==
    /\ CanHandle(o, "reserve_stock")
    /\ orders[o].status = "pending"
    /\ \E m \in Delivered("STOCK_RESERVED", o) :
          /\ orders' = [orders EXCEPT ![o].status = "confirmed", ![o].total = m.total]
          /\ Write("order", Msg("PROCESS_PAYMENT", o, m.total))
    /\ AdvanceToPayment(o)
    /\ UNCHANGED <<stuck, log>>

\* Order.compensate throws on a cancelled order; no code sets COMPLETED.
PerformCancellation(o) ==
    /\ orders[o].status # "cancelled"
    /\ orders' = [orders EXCEPT ![o].status = "cancelled"]
    /\ Fail(o)
    /\ Write("order", Msg("ORDER_CANCELLED", o, 0))
    /\ UNCHANGED <<stuck, log>>

OnStockReservationFailed(o) ==
    /\ CanHandle(o, "reserve_stock")
    /\ Delivered("STOCK_RESERVATION_FAILED", o) # {}
    /\ PerformCancellation(o)

OnPaymentProcessed(o) ==
    /\ CanHandle(o, "process_payment")
    /\ Delivered("PAYMENT_PROCESSED", o) # {}
    /\ Complete(o)
    /\ Write("order", Msg("ORDER_CONFIRMED", o, orders[o].total))
    /\ UNCHANGED <<orders, stuck, log>>

\* Slip: a failed payment cancels the order without releasing its stock.
OnPaymentFailedCancels(o) ==
    /\ CanHandle(o, "process_payment")
    /\ Delivered("PAYMENT_FAILED", o) # {}
    /\ PerformCancellation(o)

\* The order keeps the status confirmed until the stock is back.
OnPaymentFailed(o) ==
    /\ CanHandle(o, "process_payment")
    /\ Delivered("PAYMENT_FAILED", o) # {}
    /\ StartCompensation(o)
    /\ Write("order", Msg("RELEASE_STOCK", o, 0))
    /\ UNCHANGED <<orders, stuck, log>>

OnStockReleased(o) ==
    /\ CanHandle(o, "release_stock")
    /\ Delivered("STOCK_RELEASED", o) # {}
    /\ PerformCancellation(o)

-----------------------------------------------------------------------------
(***************************************************************************)
(* retryStuckSagas                                                         *)
(***************************************************************************)

\* The clock passes nextRetryAt of a running saga.
TimePasses(o) ==
    /\ sagas[o].status = "running"
    /\ ~due[o]
    /\ due' = [due EXCEPT ![o] = TRUE]
    /\ UNCHANGED <<orders, sagas, stuck, transportVars>>

StuckSagas == {o \in Orders : sagas[o].status = "running" /\ due[o]}

\* A tick starts: any StuckLimit of the stuck sagas, unordered and unlocked.
FindStuck(t) ==
    /\ stuck[t] = {}
    /\ \E S \in SUBSET StuckSagas \ {{}} :
          /\ Cardinality(S) <= StuckLimit
          /\ S = StuckSagas \/ Cardinality(S) = StuckLimit
          /\ stuck' = [stuck EXCEPT ![t] = S]
    /\ UNCHANGED <<orders, sagas, due, transportVars>>

NextStuck(t, o) ==
    /\ o \in stuck[t]
    /\ stuck' = [stuck EXCEPT ![t] = @ \ {o}]

\* The row is locked by a handler, is not RUNNING any more, or the
\* transaction failed: the loop goes on to the next saga.
SkipSaga(t, o) ==
    /\ NextStuck(t, o)
    /\ UNCHANGED <<orders, sagas, due, transportVars>>

\* Slip: the saga of the snapshot is failed without reading it again.
GiveUpStale(t, o) ==
    /\ NextStuck(t, o)
    /\ HasExceededMaxRetries(o)
    /\ Fail(o)
    /\ UNCHANGED <<orders, transportVars>>

\* Slip: a saga without retries left is logged and not saved.
GiveUpUnsaved(t, o) ==
    /\ NextStuck(t, o)
    /\ sagas[o].status = "running"
    /\ HasExceededMaxRetries(o)
    /\ UNCHANGED <<orders, sagas, due, transportVars>>

\* Slip: giving up releases the stock, though the payment may be on its way.
GiveUpReleasing(t, o) ==
    /\ NextStuck(t, o)
    /\ sagas[o].status = "running"
    /\ HasExceededMaxRetries(o)
    /\ Fail(o)
    /\ Write("order", Msg("RELEASE_STOCK", o, 0))
    /\ UNCHANGED <<orders, log>>

\* The row is re-read under a lock, its status checked again, its nextRetryAt
\* not.  Only the saga is failed: the order keeps its status, no event is
\* sent and no reserved stock is released.
GiveUp(t, o) ==
    /\ NextStuck(t, o)
    /\ sagas[o].status = "running"
    /\ HasExceededMaxRetries(o)
    /\ Fail(o)
    /\ UNCHANGED <<orders, transportVars>>

ResendCommand(t, o) ==
    /\ NextStuck(t, o)
    /\ sagas[o].status = "running"
    /\ ~HasExceededMaxRetries(o)
    /\ ScheduleRetry(o)
    /\ Write("order", Command(o))
    /\ UNCHANGED <<orders, log>>

-----------------------------------------------------------------------------

ReplyStep(o) ==
    \/ OnStockReserved(o)
    \/ OnStockReservationFailed(o)
    \/ OnPaymentProcessed(o)
    \/ OnPaymentFailed(o)
    \/ OnStockReleased(o)

RetryStep(t, o) ==
    \/ SkipSaga(t, o)
    \/ GiveUp(t, o)
    \/ ResendCommand(t, o)

OrderNext ==
    \/ \E o \in Orders : CreateOrder(o) \/ ReplyStep(o) \/ TimePasses(o)
    \/ \E t \in Ticks : FindStuck(t) \/ \E o \in Orders : RetryStep(t, o)

=============================================================================
