--------------------------- MODULE OrderSagaProofs ---------------------------
(***************************************************************************)
(* Proofs about the order saga, for every set of orders, products, users   *)
(* and concurrent ticks, every retry limit and every demand.               *)
(***************************************************************************)
EXTENDS OrderSaga, SumTheorems

(***************************************************************************)
(* The transport.                                                          *)
(***************************************************************************)

\* The amount in a message is a number.
LEMMA TotalType == \A total \in Totals \cup {0} : total \in Nat
BY TotalsAssumption

\* Msg builds a message from a topic, an order and an amount.
LEMMA MsgType ==
    ASSUME NEW topic \in Topics, NEW o \in Orders, NEW total \in Totals \cup {0}
    PROVE  Msg(topic, o, total) \in Message
BY DEF Msg, Message

\* Writing a message to an outbox keeps the transport well typed and adds that
\* message, and nothing else, to the messages sent.
LEMMA WriteFacts ==
    ASSUME TransportTypeOK, NEW s \in Services, NEW m \in Message,
           Write(s, m), UNCHANGED log
    PROVE  TransportTypeOK' /\ Sent' = Sent \cup {m}
BY DEF TransportTypeOK, Write, Sent

\* The outbox processor sends no message that was not written before.
LEMMA ProcessPendingFacts ==
    ASSUME TransportTypeOK, ProcessPending
    PROVE  TransportTypeOK' /\ Sent' \subseteq Sent
<1>1. PICK s \in Services : \E m \in outbox[s] :
         PublishRow(s, m) \/ PublishRolledBack(s, m) \/ PermanentlyFail(s, m)
  BY DEF ProcessPending
<1>2. PICK m \in outbox[s] :
         PublishRow(s, m) \/ PublishRolledBack(s, m) \/ PermanentlyFail(s, m)
  BY <1>1
<1>3. m \in Message
  BY DEF TransportTypeOK
<1>4. CASE PublishRow(s, m)
  BY <1>3, <1>4 DEF TransportTypeOK, PublishRow, Sent
<1>5. CASE PublishRolledBack(s, m)
  BY <1>3, <1>5 DEF TransportTypeOK, PublishRolledBack, Sent
<1>6. CASE PermanentlyFail(s, m)
  BY <1>3, <1>6 DEF TransportTypeOK, PermanentlyFail, Sent
<1> QED
  BY <1>2, <1>4, <1>5, <1>6

-----------------------------------------------------------------------------
(***************************************************************************)
(* Type correctness.                                                       *)
(***************************************************************************)

\* A running saga waits on one of the three commands.
LEMMA CommandType ==
    ASSUME TypeOK, OrderFollowsSaga, NEW o \in Orders, sagas[o].status = "running"
    PROVE  /\ Command(o) \in Message
           /\ \/ CanHandle(o, "reserve_stock") /\ Command(o) = Msg("RESERVE_STOCK", o, 0)
              \/ CanHandle(o, "process_payment") /\ Command(o) = Msg("PROCESS_PAYMENT", o, orders[o].total)
              \/ CanHandle(o, "release_stock") /\ Command(o) = Msg("RELEASE_STOCK", o, 0)
<1> orders[o].total \in Totals \cup {0}
  BY DEF TypeOK, OrderTypeOK, OrderRow
<1>1. CASE sagas[o].step = "reserve_stock"
  BY <1>1, MsgType DEF Command, CanHandle, Topics
<1>2. CASE sagas[o].step = "process_payment"
  BY <1>2, MsgType DEF Command, CanHandle, Topics
<1>3. CASE sagas[o].step = "release_stock"
  BY <1>3, MsgType DEF Command, CanHandle, Topics
<1> QED
  BY <1>1, <1>2, <1>3 DEF OrderFollowsSaga

\* The saga entity's methods keep the type of its table.
LEMMA SagaType ==
    ASSUME OrderTypeOK, NEW o \in Orders,
           \/ AdvanceToPayment(o)
           \/ Complete(o)
           \/ StartCompensation(o)
           \/ Fail(o)
           \/ ScheduleRetry(o) /\ ~HasExceededMaxRetries(o)
    PROVE  sagas' \in [Orders -> SagaRow] /\ due' \in [Orders -> BOOLEAN]
<1>1. CASE AdvanceToPayment(o)
  BY <1>1 DEF OrderTypeOK, SagaRow, Steps, AdvanceToPayment
<1>2. CASE Complete(o)
  BY <1>2, ZenonT(30) DEF OrderTypeOK, SagaRow, Steps, Complete
<1>3. CASE StartCompensation(o)
  BY <1>3 DEF OrderTypeOK, SagaRow, Steps, StartCompensation
<1>4. CASE Fail(o)
  BY <1>4, ZenonT(30) DEF OrderTypeOK, SagaRow, Steps, Fail
<1>5. CASE ScheduleRetry(o) /\ ~HasExceededMaxRetries(o)
  BY <1>5, OrderAssumption DEF OrderTypeOK, SagaRow, ScheduleRetry, HasExceededMaxRetries
<1> QED
  BY <1>1, <1>2, <1>3, <1>4, <1>5

\* order-service's handlers and timer keep the types.
LEMMA OrderType ==
    ASSUME TypeOK, OrderFollowsSaga, OrderStep
    PROVE  TypeOK'
<1>1. UNCHANGED <<productVars, paymentVars>> /\ OrderNext
  BY DEF OrderStep
<1>2. ProductTypeOK' /\ PaymentTypeOK'
  BY <1>1 DEF TypeOK, ProductTypeOK, PaymentTypeOK, productVars, paymentVars
<1>3. SUFFICES TransportTypeOK' /\ OrderTypeOK'
  BY <1>2 DEF OrderTypeOK, TypeOK
<1> USE DEF TypeOK
<1>4. ASSUME NEW o \in Orders, CreateOrder(o)
      PROVE  TransportTypeOK' /\ OrderTypeOK'
  <2>1. Msg("RESERVE_STOCK", o, 0) \in Message
    BY MsgType DEF Topics
  <2>2. TransportTypeOK'
    BY <1>4, <2>1, WriteFacts DEF CreateOrder, Services
  <2>3. OrderTypeOK'
    BY <1>4, SMTT(30) DEF OrderTypeOK, OrderRow, SagaRow, CreateOrder
  <2> QED
    BY <2>2, <2>3
<1>5. ASSUME NEW o \in Orders, OnStockReserved(o)
      PROVE  TransportTypeOK' /\ OrderTypeOK'
  <2>1. PICK m \in Delivered("STOCK_RESERVED", o) :
           /\ orders' = [orders EXCEPT ![o].status = "confirmed", ![o].total = m.total]
           /\ Write("order", Msg("PROCESS_PAYMENT", o, m.total))
    BY <1>5 DEF OnStockReserved
  <2>2. m.total \in Totals \cup {0}
    BY <2>1 DEF Delivered, TransportTypeOK, Message
  <2>3. Msg("PROCESS_PAYMENT", o, m.total) \in Message
    BY <2>2, MsgType DEF Topics
  <2>4. TransportTypeOK'
    BY <1>5, <2>1, <2>3, WriteFacts DEF OnStockReserved, Services
  <2>5. OrderTypeOK'
    <3>1. orders' \in [Orders -> OrderRow]
      BY <2>1, <2>2 DEF OrderTypeOK, OrderRow
    <3> QED
      BY <1>5, <3>1, SagaType DEF OrderTypeOK, OnStockReserved
  <2> QED
    BY <2>4, <2>5
<1>6. ASSUME NEW o \in Orders, PerformCancellation(o)
      PROVE  TransportTypeOK' /\ OrderTypeOK'
  <2>1. Msg("ORDER_CANCELLED", o, 0) \in Message
    BY MsgType DEF Topics
  <2>2. TransportTypeOK'
    BY <1>6, <2>1, WriteFacts DEF PerformCancellation, Services
  <2>3. OrderTypeOK'
    BY <1>6, SagaType DEF OrderTypeOK, OrderRow, PerformCancellation
  <2> QED
    BY <2>2, <2>3
<1>7. ASSUME NEW o \in Orders, OnPaymentProcessed(o)
      PROVE  TransportTypeOK' /\ OrderTypeOK'
  <2>1. Msg("ORDER_CONFIRMED", o, orders[o].total) \in Message
    BY MsgType DEF OrderTypeOK, OrderRow, Topics
  <2>2. TransportTypeOK'
    BY <1>7, <2>1, WriteFacts DEF OnPaymentProcessed, Services
  <2>3. OrderTypeOK'
    BY <1>7, SagaType DEF OrderTypeOK, OnPaymentProcessed
  <2> QED
    BY <2>2, <2>3
<1>8. ASSUME NEW o \in Orders, OnPaymentFailed(o)
      PROVE  TransportTypeOK' /\ OrderTypeOK'
  <2>1. Msg("RELEASE_STOCK", o, 0) \in Message
    BY MsgType DEF Topics
  <2>2. TransportTypeOK'
    BY <1>8, <2>1, WriteFacts DEF OnPaymentFailed, Services
  <2>3. OrderTypeOK'
    BY <1>8, SagaType DEF OrderTypeOK, OnPaymentFailed
  <2> QED
    BY <2>2, <2>3
<1>9. ASSUME NEW o \in Orders, TimePasses(o)
      PROVE  TransportTypeOK' /\ OrderTypeOK'
  BY <1>9 DEF OrderTypeOK, TimePasses, transportVars, TransportTypeOK
<1>10. ASSUME NEW t \in Ticks, FindStuck(t)
       PROVE  TransportTypeOK' /\ OrderTypeOK'
  BY <1>10 DEF OrderTypeOK, FindStuck, StuckSagas, transportVars, TransportTypeOK
<1>11. ASSUME NEW t \in Ticks, NEW o \in Orders, RetryStep(t, o)
       PROVE  TransportTypeOK' /\ OrderTypeOK'
  <2>1. CASE SkipSaga(t, o)
    BY <2>1 DEF OrderTypeOK, SkipSaga, NextStuck, transportVars, TransportTypeOK
  <2>2. CASE GiveUp(t, o)
    BY <2>2, SagaType DEF OrderTypeOK, GiveUp, NextStuck, transportVars, TransportTypeOK
  <2>3. CASE ResendCommand(t, o)
    <3>1. Command(o) \in Message
      BY <2>3, CommandType DEF ResendCommand
    <3>2. TransportTypeOK'
      BY <2>3, <3>1, WriteFacts DEF ResendCommand, Services
    <3>3. OrderTypeOK'
      BY <2>3, SagaType DEF OrderTypeOK, ResendCommand, NextStuck
    <3> QED
      BY <3>2, <3>3
  <2> QED
    BY <1>11, <2>1, <2>2, <2>3 DEF RetryStep
<1> QED
  BY <1>1, <1>4, <1>5, <1>6, <1>7, <1>8, <1>9, <1>10, <1>11
     DEF OrderNext, ReplyStep, OnStockReservationFailed, OnStockReleased

\* The running totals of an order are numbers.
LEMMA DemandType ==
    ASSUME NEW o \in Orders, NEW n \in 0..Lines[o], NEW p \in Products
    PROVE  Demand[o][n][p] \in Nat
<1>1. Demand[o] \in [0..Lines[o] -> [Products -> Nat]]
  BY ProductAssumption
<1> QED
  BY <1>1

\* The last line of an order is one of its lines.
LEMMA LinesType ==
    ASSUME NEW o \in Orders
    PROVE  /\ Lines[o] \in 0..Lines[o]
           /\ \A n \in 0..(Lines[o] - 1) : n \in 0..Lines[o]
<1>1. Lines[o] \in Nat \ {0}
  BY ProductAssumption
<1> QED
  BY <1>1

\* product-service's handlers keep the types; stock never goes below zero.
LEMMA ProductType ==
    ASSUME TypeOK, ProductStep
    PROVE  TypeOK'
<1>1. PICK o \in Orders :
         \/ ReserveStockAgain(o) \/ ReserveStock(o) \/ RefuseStock(o)
         \/ ReleaseStockAgain(o) \/ ReleaseStock(o)
  BY DEF ProductStep, ProductNext
<1>2. OrderTypeOK' /\ PaymentTypeOK'
  BY DEF ProductStep, TypeOK, OrderTypeOK, PaymentTypeOK, orderVars, paymentVars
<1>3. SUFFICES TransportTypeOK' /\ ProductTypeOK'
  BY <1>2 DEF TypeOK
<1>4. TransportTypeOK /\ ProductTypeOK
  BY DEF TypeOK
<1>5. ASSUME NEW n \in 0..Lines[o], Covered(o, n), Take(o, n)
      PROVE  stock' \in [Products -> Nat]
  <2>1. ASSUME NEW p \in Products
        PROVE  stock[p] - Demand[o][n][p] \in Nat
    <3>1. Demand[o][n][p] \in Nat /\ stock[p] \in Nat
      BY <1>4, DemandType DEF ProductTypeOK
    <3>2. Demand[o][n][p] > 0 => Demand[o][n][p] <= stock[p]
      BY <1>5 DEF Covered
    <3> QED
      BY <3>1, <3>2
  <2> QED
    BY <1>5, <2>1 DEF Take
<1>6. CASE ReserveStockAgain(o)
  <2>1. Msg(reserveReply[o].topic, o, reserveReply[o].total) \in Message
    BY <1>4, <1>6, MsgType DEF ReserveStockAgain, ProductTypeOK, Topics
  <2>2. TransportTypeOK'
    BY <1>4, <1>6, <2>1, WriteFacts DEF ReserveStockAgain, Services
  <2> QED
    BY <1>4, <1>6, <2>2 DEF ReserveStockAgain, ProductTypeOK, productVars
<1>7. CASE ReserveStock(o)
  <2>1. PICK total \in Totals :
           /\ reserveReply' = [reserveReply EXCEPT ![o] = [topic |-> "STOCK_RESERVED", total |-> total]]
           /\ Write("product", Msg("STOCK_RESERVED", o, total))
    BY <1>7 DEF ReserveStock
  <2>2. Msg("STOCK_RESERVED", o, total) \in Message
    BY MsgType DEF Topics
  <2>3. TransportTypeOK'
    BY <1>4, <1>7, <2>1, <2>2, WriteFacts DEF ReserveStock, Services
  <2>4. stock' \in [Products -> Nat]
    BY <1>5, <1>7, LinesType DEF ReserveStock
  <2> QED
    BY <1>4, <1>7, <2>1, <2>3, <2>4 DEF ReserveStock, ProductTypeOK
<1>8. CASE RefuseStock(o)
  <2>1. Msg("STOCK_RESERVATION_FAILED", o, 0) \in Message
    BY MsgType DEF Topics
  <2>2. TransportTypeOK'
    BY <1>4, <1>8, <2>1, WriteFacts DEF RefuseStock, Services
  <2>3. stock' \in [Products -> Nat]
    BY <1>5, <1>8, LinesType DEF RefuseStock
  <2> QED
    BY <1>4, <1>8, <2>2, <2>3 DEF RefuseStock, ProductTypeOK
<1>9. CASE ReleaseStockAgain(o)
  <2>1. Msg(releaseReply[o], o, 0) \in Message
    BY <1>4, <1>9, MsgType DEF ReleaseStockAgain, ProductTypeOK, Topics
  <2>2. TransportTypeOK'
    BY <1>4, <1>9, <2>1, WriteFacts DEF ReleaseStockAgain, Services
  <2> QED
    BY <1>4, <1>9, <2>2 DEF ReleaseStockAgain, ProductTypeOK, productVars
<1>10. CASE ReleaseStock(o)
  <2>1. Msg("STOCK_RELEASED", o, 0) \in Message
    BY MsgType DEF Topics
  <2>2. TransportTypeOK'
    BY <1>4, <1>10, <2>1, WriteFacts DEF ReleaseStock, Services
  <2>3. stock' \in [Products -> Nat]
    <3>1. ASSUME NEW p \in Products
          PROVE  stock[p] + Demand[o][Lines[o]][p] \in Nat
      <4>1. Demand[o][Lines[o]][p] \in Nat /\ stock[p] \in Nat
        BY <1>4, DemandType, LinesType DEF ProductTypeOK
      <4> QED
        BY <4>1
    <3> QED
      BY <1>10, <3>1 DEF ReleaseStock
  <2> QED
    BY <1>4, <1>10, <2>2, <2>3 DEF ReleaseStock, ProductTypeOK
<1> QED
  BY <1>1, <1>6, <1>7, <1>8, <1>9, <1>10

\* payment-service's handlers keep the types; no balance goes below zero.
LEMMA PaymentType ==
    ASSUME TypeOK, PaymentStep
    PROVE  TypeOK'
<1>1. OrderTypeOK' /\ ProductTypeOK'
  BY DEF PaymentStep, TypeOK, OrderTypeOK, ProductTypeOK, orderVars, productVars
<1>2. SUFFICES TransportTypeOK' /\ PaymentTypeOK'
  BY <1>1 DEF TypeOK
<1>3. TransportTypeOK /\ PaymentTypeOK
  BY DEF TypeOK
<1>4. ASSUME NEW o \in Orders, ProcessPaymentAgain(o)
      PROVE  TransportTypeOK' /\ PaymentTypeOK'
  <2>1. Msg(payReply[o], o, 0) \in Message
    BY <1>3, <1>4, MsgType DEF ProcessPaymentAgain, PaymentTypeOK, Topics
  <2>2. TransportTypeOK'
    BY <1>3, <1>4, <2>1, WriteFacts DEF ProcessPaymentAgain, Services
  <2> QED
    BY <1>3, <1>4, <2>2 DEF ProcessPaymentAgain, PaymentTypeOK, paymentVars
<1>5. ASSUME NEW o \in Orders, ChargePayment(o)
      PROVE  TransportTypeOK' /\ PaymentTypeOK'
  <2>1. PICK m \in Delivered("PROCESS_PAYMENT", o) :
           /\ CanPay(o, m.total)
           /\ wallets' = [wallets EXCEPT ![Customer[o]].balance = @ - m.total]
           /\ payments' = [payments EXCEPT ![o] = [status |-> "completed", amount |-> m.total]]
    BY <1>5 DEF ChargePayment
  <2>2. m.total \in Totals \cup {0}
    BY <1>3 DEF Delivered, TransportTypeOK, Message
  <2>3. Msg("PAYMENT_PROCESSED", o, 0) \in Message
    BY MsgType DEF Topics
  <2>4. TransportTypeOK'
    BY <1>3, <1>5, <2>3, WriteFacts DEF ChargePayment, Services
  <2>5. wallets' \in [Users -> [exists : BOOLEAN, balance : Nat]]
    <3>1. m.total \in Nat
      BY <2>2, TotalType
    <3>2. Customer[o] \in Users
      BY PaymentAssumption
    <3>3. wallets[Customer[o]].balance - m.total \in Nat
      <4>1. wallets[Customer[o]].balance \in Nat
        BY <1>3, <3>2 DEF PaymentTypeOK
      <4>2. wallets[Customer[o]].balance >= m.total
        BY <2>1 DEF CanPay
      <4> QED
        BY <3>1, <4>1, <4>2
    <3> QED
      BY <1>3, <2>1, <3>2, <3>3 DEF PaymentTypeOK
  <2> QED
    BY <1>3, <1>5, <2>1, <2>2, <2>4, <2>5 DEF ChargePayment, PaymentTypeOK
<1>6. ASSUME NEW o \in Orders, DeclinePayment(o)
      PROVE  TransportTypeOK' /\ PaymentTypeOK'
  <2>1. PICK m \in Delivered("PROCESS_PAYMENT", o) :
           payments' = [payments EXCEPT ![o] = [status |-> "pending", amount |-> m.total]]
    BY <1>6 DEF DeclinePayment
  <2>2. m.total \in Totals \cup {0}
    BY <1>3 DEF Delivered, TransportTypeOK, Message
  <2>3. Msg("PAYMENT_FAILED", o, 0) \in Message
    BY MsgType DEF Topics
  <2>4. TransportTypeOK'
    BY <1>3, <1>6, <2>3, WriteFacts DEF DeclinePayment, Services
  <2> QED
    BY <1>3, <1>6, <2>1, <2>2, <2>4 DEF DeclinePayment, PaymentTypeOK
<1>7. ASSUME NEW u \in Users, OpenWallet(u)
      PROVE  TransportTypeOK' /\ PaymentTypeOK'
  BY <1>3, <1>7, PaymentAssumption DEF OpenWallet, PaymentTypeOK, transportVars, TransportTypeOK
<1>8. ASSUME NEW u \in Users, NEW amount \in TopUps, TopUp(u, amount)
      PROVE  TransportTypeOK' /\ PaymentTypeOK'
  BY <1>3, <1>8, PaymentAssumption DEF TopUp, PaymentTypeOK, transportVars, TransportTypeOK
<1> QED
  BY <1>4, <1>5, <1>6, <1>7, <1>8 DEF PaymentStep, PaymentNext

\* The initial state is well typed.
LEMMA TypeInit == Init => TypeOK
<1> SUFFICES ASSUME Init PROVE TypeOK
  OBVIOUS
<1>1. TransportTypeOK
  BY DEF Init, TransportInit, TransportTypeOK
<1>2. OrderTypeOK
  BY OrderAssumption DEF Init, OrderInit, OrderTypeOK, OrderRow, SagaRow, Steps
<1>3. ProductTypeOK
  BY ProductAssumption DEF Init, ProductInit, ProductTypeOK, NoReply
<1>4. PaymentTypeOK
  BY DEF Init, PaymentInit, PaymentTypeOK
<1> QED
  BY <1>1, <1>2, <1>3, <1>4 DEF TypeOK

\* Every step of the system keeps the types.
LEMMA TypeStep == TypeOK /\ OrderFollowsSaga /\ [Next]_vars => TypeOK'
<1> SUFFICES ASSUME TypeOK, OrderFollowsSaga, [Next]_vars PROVE TypeOK'
  OBVIOUS
<1>1. CASE OrderStep
  BY <1>1, OrderType
<1>2. CASE ProductStep
  BY <1>2, ProductType
<1>3. CASE PaymentStep
  BY <1>3, PaymentType
<1>4. CASE OutboxStep
  <2>1. TransportTypeOK'
    BY <1>4, ProcessPendingFacts DEF OutboxStep, TypeOK
  <2>2. OrderTypeOK'
    BY <1>4 DEF OutboxStep, TypeOK, OrderTypeOK, orderVars
  <2>3. ProductTypeOK'
    BY <1>4 DEF OutboxStep, TypeOK, ProductTypeOK, productVars
  <2>4. PaymentTypeOK'
    BY <1>4 DEF OutboxStep, TypeOK, PaymentTypeOK, paymentVars
  <2> QED
    BY <2>1, <2>2, <2>3, <2>4 DEF TypeOK
<1>5. CASE UNCHANGED vars
  BY <1>5 DEF vars, TypeOK, transportVars, orderVars, productVars, paymentVars,
              TransportTypeOK, OrderTypeOK, ProductTypeOK, PaymentTypeOK
<1> QED
  BY <1>1, <1>2, <1>3, <1>4, <1>5 DEF Next

-----------------------------------------------------------------------------
(***************************************************************************)
(* The inductive invariant.                                                *)
(***************************************************************************)

\* A step of order-service is one of its handlers' transactions, a step of the
\* retry timer, or none.
LEMMA OrderCases ==
    ASSUME OrderStep
    PROVE  \/ \E o \in Orders : \/ CreateOrder(o) \/ OnStockReserved(o)
                               \/ OnStockReservationFailed(o) \/ OnPaymentProcessed(o)
                               \/ OnPaymentFailed(o) \/ OnStockReleased(o)
           \/ \E o \in Orders, t \in Ticks : GiveUp(t, o) \/ ResendCommand(t, o)
           \/ UNCHANGED <<orders, sagas, transportVars>>
BY DEF OrderStep, OrderNext, ReplyStep, RetryStep, TimePasses, FindStuck, SkipSaga

\* order-service's two tables stay in agreement.
LEMMA OrderFollowsSagaStep ==
    ASSUME TypeOK, OrderFollowsSaga, [Next]_vars
    PROVE  OrderFollowsSaga'
<1>1. CASE UNCHANGED <<orders, sagas>>
  BY <1>1 DEF OrderFollowsSaga
<1>2. CASE OrderStep
  <2> USE DEF OrderFollowsSaga, TypeOK, OrderTypeOK, OrderRow, SagaRow
  <2>1. ASSUME NEW o \in Orders, CreateOrder(o)
        PROVE  OrderFollowsSaga'
    BY <2>1 DEF CreateOrder
  <2>2. ASSUME NEW o \in Orders, OnStockReserved(o)
        PROVE  OrderFollowsSaga'
    BY <2>2 DEF OnStockReserved, CanHandle, AdvanceToPayment
  <2>3. ASSUME NEW o \in Orders, PerformCancellation(o)
        PROVE  OrderFollowsSaga'
    BY <2>3 DEF PerformCancellation, Fail
  <2>4. ASSUME NEW o \in Orders, OnPaymentProcessed(o)
        PROVE  OrderFollowsSaga'
    BY <2>4 DEF OnPaymentProcessed, CanHandle, Complete
  <2>5. ASSUME NEW o \in Orders, OnPaymentFailed(o)
        PROVE  OrderFollowsSaga'
    BY <2>5 DEF OnPaymentFailed, CanHandle, StartCompensation
  <2>6. ASSUME NEW o \in Orders, NEW t \in Ticks, GiveUp(t, o)
        PROVE  OrderFollowsSaga'
    BY <2>6 DEF GiveUp, Fail
  <2>7. ASSUME NEW o \in Orders, NEW t \in Ticks, ResendCommand(t, o)
        PROVE  OrderFollowsSaga'
    BY <2>7 DEF ResendCommand, ScheduleRetry
  <2> QED
    BY <1>1, <1>2, <2>1, <2>2, <2>3, <2>4, <2>5, <2>6, <2>7, OrderCases
       DEF OnStockReservationFailed, OnStockReleased
<1> QED
  BY <1>1, <1>2 DEF Next, ProductStep, PaymentStep, OutboxStep, orderVars, vars

\* What no step undoes: a placed order stays placed, an ended saga and its
\* order stay as they are, a stored reply is never replaced.
LEMMA Stability ==
    ASSUME TypeOK, OrderFollowsSaga, [Next]_vars, NEW x \in Orders
    PROVE  /\ orders[x].status # "none" => orders'[x].status # "none"
           /\ sagas[x].status \in {"completed", "failed"} =>
                 sagas'[x] = sagas[x] /\ orders'[x] = orders[x]
           /\ reserveReply[x].topic # "none" => reserveReply'[x] = reserveReply[x]
           /\ releaseReply[x] # "none" => releaseReply'[x] = releaseReply[x]
           /\ payReply[x] # "none" => payReply'[x] = payReply[x]
<1> USE DEF TypeOK
<1>1. CASE OrderStep
  <2>1. UNCHANGED <<productVars, paymentVars>>
    BY <1>1 DEF OrderStep
  <2>2. CASE UNCHANGED <<orders, sagas>>
    BY <2>1, <2>2 DEF productVars, paymentVars
  <2> USE DEF OrderTypeOK, OrderRow, SagaRow
  <2>3. ASSUME NEW o \in Orders, CreateOrder(o)
        PROVE  /\ orders[x].status # "none" => orders'[x].status # "none"
               /\ sagas[x].status \in {"completed", "failed"} =>
                     sagas'[x] = sagas[x] /\ orders'[x] = orders[x]
    BY <2>3 DEF CreateOrder, OrderFollowsSaga
  <2>4. ASSUME NEW o \in Orders, sagas[o].status = "running",
               AdvanceToPayment(o) \/ Complete(o) \/ StartCompensation(o) \/ Fail(o) \/ ScheduleRetry(o)
        PROVE  sagas[x].status \in {"completed", "failed"} => sagas'[x] = sagas[x] /\ x # o
    BY <2>4 DEF AdvanceToPayment, Complete, StartCompensation, Fail, ScheduleRetry
  <2>5. ASSUME NEW o \in Orders,
               \/ OnStockReserved(o) \/ OnStockReservationFailed(o) \/ OnPaymentProcessed(o)
               \/ OnPaymentFailed(o) \/ OnStockReleased(o)
        PROVE  /\ orders[x].status # "none" => orders'[x].status # "none"
               /\ sagas[x].status \in {"completed", "failed"} =>
                     sagas'[x] = sagas[x] /\ orders'[x] = orders[x]
    <3>1. orders[x].status # "none" => orders'[x].status # "none"
      BY <2>5 DEF OnStockReserved, OnStockReservationFailed, OnPaymentProcessed,
                  OnPaymentFailed, OnStockReleased, PerformCancellation
    <3>2. x # o => orders'[x] = orders[x]
      BY <2>5 DEF OnStockReserved, OnStockReservationFailed, OnPaymentProcessed,
                  OnPaymentFailed, OnStockReleased, PerformCancellation
    <3>3. sagas[o].status = "running"
      BY <2>5 DEF OnStockReserved, OnStockReservationFailed, OnPaymentProcessed,
                  OnPaymentFailed, OnStockReleased, CanHandle
    <3>4. AdvanceToPayment(o) \/ Complete(o) \/ StartCompensation(o) \/ Fail(o)
      BY <2>5 DEF OnStockReserved, OnStockReservationFailed, OnPaymentProcessed,
                  OnPaymentFailed, OnStockReleased, PerformCancellation
    <3> QED
      BY <2>4, <3>1, <3>2, <3>3, <3>4
  <2>6. ASSUME NEW o \in Orders, NEW t \in Ticks, GiveUp(t, o) \/ ResendCommand(t, o)
        PROVE  /\ orders[x].status # "none" => orders'[x].status # "none"
               /\ sagas[x].status \in {"completed", "failed"} =>
                     sagas'[x] = sagas[x] /\ orders'[x] = orders[x]
    BY <2>4, <2>6 DEF GiveUp, ResendCommand
  <2> QED
    BY <1>1, <2>1, <2>2, <2>3, <2>5, <2>6, OrderCases DEF productVars, paymentVars
<1>2. CASE ProductStep
  <2>1. UNCHANGED <<orderVars, paymentVars>>
    BY <1>2 DEF ProductStep
  <2>2. /\ reserveReply[x].topic # "none" => reserveReply'[x] = reserveReply[x]
        /\ releaseReply[x] # "none" => releaseReply'[x] = releaseReply[x]
    BY <1>2 DEF ProductStep, ProductNext, ReserveStockAgain, ReserveStock, RefuseStock,
                ReleaseStockAgain, ReleaseStock, productVars, ProductTypeOK
  <2> QED
    BY <2>1, <2>2 DEF orderVars, paymentVars
<1>3. CASE PaymentStep
  <2>1. UNCHANGED <<orderVars, productVars>>
    BY <1>3 DEF PaymentStep
  <2>2. payReply[x] # "none" => payReply'[x] = payReply[x]
    BY <1>3 DEF PaymentStep, PaymentNext, ProcessPaymentAgain, ChargePayment, DeclinePayment,
                OpenWallet, TopUp, paymentVars, PaymentTypeOK
  <2> QED
    BY <2>1, <2>2 DEF orderVars, productVars
<1>4. CASE OutboxStep \/ UNCHANGED vars
  BY <1>4 DEF OutboxStep, vars, orderVars, productVars, paymentVars
<1> QED
  BY <1>1, <1>2, <1>3, <1>4 DEF Next

\* What a handler may conclude from the message it is handed.
LEMMA DeliveredIsTrue ==
    ASSUME SagaInv, NEW o
    PROVE  /\ \A m \in Delivered("STOCK_RESERVED", o) \cup Delivered("PROCESS_PAYMENT", o) :
                 reserveReply[o] = [topic |-> "STOCK_RESERVED", total |-> m.total]
           /\ Delivered("STOCK_RESERVATION_FAILED", o) # {} =>
                 reserveReply[o].topic = "STOCK_RESERVATION_FAILED"
           /\ Delivered("PAYMENT_PROCESSED", o) # {} => payReply[o] = "PAYMENT_PROCESSED"
           /\ Delivered("PAYMENT_FAILED", o) # {} => payReply[o] = "PAYMENT_FAILED"
           /\ Delivered("RELEASE_STOCK", o) # {} => payReply[o] = "PAYMENT_FAILED"
           /\ Delivered("STOCK_RELEASED", o) # {} => releaseReply[o] = "STOCK_RELEASED"
<1>1. ASSUME NEW topic, NEW m \in Delivered(topic, o)
      PROVE  MessageIsTrue(m) /\ m.topic = topic /\ m.order = o
  BY DEF SagaInv, MessagesAreTrue, Sent, Delivered
<1>2. ASSUME NEW m \in Delivered("STOCK_RESERVED", o) \cup Delivered("PROCESS_PAYMENT", o)
      PROVE  reserveReply[o] = [topic |-> "STOCK_RESERVED", total |-> m.total]
  <2>1. MessageIsTrue(m) /\ m.topic \in {"STOCK_RESERVED", "PROCESS_PAYMENT"} /\ m.order = o
    BY <1>1, <1>2
  <2> QED
    BY <2>1 DEF MessageIsTrue
<1>3. ASSUME NEW topic, NEW m \in Delivered(topic, o)
      PROVE  /\ topic = "STOCK_RESERVATION_FAILED" => reserveReply[o].topic = topic
             /\ topic \in {"PAYMENT_PROCESSED", "PAYMENT_FAILED"} => payReply[o] = topic
             /\ topic = "RELEASE_STOCK" => payReply[o] = "PAYMENT_FAILED"
             /\ topic = "STOCK_RELEASED" => releaseReply[o] = topic
  <2>1. MessageIsTrue(m) /\ m.topic = topic /\ m.order = o
    BY <1>1
  <2> QED
    BY <2>1 DEF MessageIsTrue
<1> QED
  BY <1>2, <1>3

\* The messages order-service writes are true.
LEMMA OrderMessages ==
    ASSUME TypeOK, SagaInv, OrderStep, NEW m, m \in Sent', m \notin Sent
    PROVE  MessageIsTrue(m)'
<1> USE DEF TypeOK
<1>1. UNCHANGED <<productVars, paymentVars>>
  BY DEF OrderStep
<1>2. CASE UNCHANGED <<orders, sagas, transportVars>>
  BY <1>2 DEF Sent, transportVars
<1>3. ASSUME NEW o \in Orders, CreateOrder(o)
      PROVE  MessageIsTrue(m)'
  <2>1. m = Msg("RESERVE_STOCK", o, 0)
    BY <1>3, MsgType, WriteFacts DEF CreateOrder, Topics, Services
  <2> QED
    BY <1>3, <2>1 DEF MessageIsTrue, Msg, CreateOrder, OrderTypeOK, OrderRow
<1>4. ASSUME NEW o \in Orders, OnStockReserved(o)
      PROVE  MessageIsTrue(m)'
  <2>1. PICK r \in Delivered("STOCK_RESERVED", o) : Write("order", Msg("PROCESS_PAYMENT", o, r.total))
    BY <1>4 DEF OnStockReserved
  <2>2. r.total \in Totals \cup {0}
    BY DEF Delivered, TransportTypeOK, Message
  <2>3. m = Msg("PROCESS_PAYMENT", o, r.total)
    BY <1>4, <2>1, <2>2, MsgType, WriteFacts DEF OnStockReserved, Topics, Services
  <2>4. reserveReply[o] = [topic |-> "STOCK_RESERVED", total |-> r.total]
    BY DeliveredIsTrue
  <2> QED
    BY <1>1, <2>3, <2>4 DEF MessageIsTrue, Msg, productVars
<1>5. ASSUME NEW o \in Orders, PerformCancellation(o)
      PROVE  MessageIsTrue(m)'
  <2>1. m = Msg("ORDER_CANCELLED", o, 0)
    BY <1>5, MsgType, WriteFacts DEF PerformCancellation, Topics, Services
  <2> QED
    BY <1>5, <2>1 DEF MessageIsTrue, Msg, PerformCancellation, OrderTypeOK, OrderRow
<1>6. ASSUME NEW o \in Orders, OnPaymentProcessed(o)
      PROVE  MessageIsTrue(m)'
  <2>1. orders[o].total \in Totals \cup {0}
    BY DEF OrderTypeOK, OrderRow
  <2>2. m = Msg("ORDER_CONFIRMED", o, orders[o].total)
    BY <1>6, <2>1, MsgType, WriteFacts DEF OnPaymentProcessed, Topics, Services
  <2>3. sagas'[o].status = "completed" /\ orders' = orders
    BY <1>6 DEF OnPaymentProcessed, Complete, OrderTypeOK, SagaRow
  <2> QED
    BY <2>2, <2>3 DEF MessageIsTrue, Msg
<1>7. ASSUME NEW o \in Orders, OnPaymentFailed(o)
      PROVE  MessageIsTrue(m)'
  <2>1. payReply[o] = "PAYMENT_FAILED"
    BY <1>7, DeliveredIsTrue DEF OnPaymentFailed
  <2>2. m = Msg("RELEASE_STOCK", o, 0)
    BY <1>7, MsgType, WriteFacts DEF OnPaymentFailed, Topics, Services
  <2> QED
    BY <1>1, <2>1, <2>2 DEF MessageIsTrue, Msg, paymentVars
<1>8. ASSUME NEW o \in Orders, NEW t \in Ticks, GiveUp(t, o)
      PROVE  MessageIsTrue(m)'
  BY <1>8 DEF GiveUp, Sent, transportVars
<1>9. ASSUME NEW o \in Orders, NEW t \in Ticks, ResendCommand(t, o)
      PROVE  MessageIsTrue(m)'
  <2>1. m = Command(o)
    BY <1>9, CommandType, WriteFacts DEF ResendCommand, Services, SagaInv
  <2>2. orders' = orders
    BY <1>9 DEF ResendCommand
  <2>3. CASE CanHandle(o, "reserve_stock") /\ m = Msg("RESERVE_STOCK", o, 0)
    BY <2>2, <2>3 DEF MessageIsTrue, Msg, CanHandle, SagaInv, OrderFollowsSaga
  <2>4. CASE CanHandle(o, "process_payment") /\ m = Msg("PROCESS_PAYMENT", o, orders[o].total)
    <3>1. orders[o].status = "confirmed"
      BY <2>4 DEF CanHandle, SagaInv, OrderFollowsSaga
    <3>2. reserveReply[o] = [topic |-> "STOCK_RESERVED", total |-> orders[o].total]
      BY <3>1 DEF SagaInv, SagaFollowsReplies
    <3> QED
      BY <1>1, <2>4, <3>2 DEF MessageIsTrue, Msg, productVars
  <2>5. CASE CanHandle(o, "release_stock") /\ m = Msg("RELEASE_STOCK", o, 0)
    <3>1. payReply[o] = "PAYMENT_FAILED"
      BY <2>5 DEF SagaInv, SagaFollowsReplies
    <3> QED
      BY <1>1, <2>5, <3>1 DEF MessageIsTrue, Msg, paymentVars
  <2> QED
    BY <1>9, <2>1, <2>3, <2>4, <2>5, CommandType DEF ResendCommand, SagaInv
<1> QED
  BY <1>2, <1>3, <1>4, <1>5, <1>6, <1>7, <1>8, <1>9, OrderCases
     DEF OnStockReservationFailed, OnStockReleased

\* The replies of product-service are true.
LEMMA ProductMessages ==
    ASSUME TypeOK, SagaInv, ProductStep, NEW m, m \in Sent', m \notin Sent
    PROVE  MessageIsTrue(m)'
<1>1. PICK o \in Orders :
         \/ ReserveStockAgain(o) \/ ReserveStock(o) \/ RefuseStock(o)
         \/ ReleaseStockAgain(o) \/ ReleaseStock(o)
  BY DEF ProductStep, ProductNext
<1>2. TransportTypeOK /\ ProductTypeOK
  BY DEF TypeOK
<1>3. CASE ReserveStockAgain(o)
  <2>1. m = Msg(reserveReply[o].topic, o, reserveReply[o].total)
    BY <1>2, <1>3, MsgType, WriteFacts DEF ReserveStockAgain, ProductTypeOK, Topics, Services
  <2>2. reserveReply[o].topic \in {"STOCK_RESERVED", "STOCK_RESERVATION_FAILED"}
    BY <1>2, <1>3 DEF ReserveStockAgain, ProductTypeOK
  <2>3. reserveReply[o] = [topic |-> reserveReply[o].topic, total |-> reserveReply[o].total]
    BY <1>2 DEF ProductTypeOK
  <2> QED
    BY <1>3, <2>1, <2>2, <2>3 DEF MessageIsTrue, Msg, ReserveStockAgain, productVars
<1>4. CASE ReserveStock(o)
  <2>1. PICK total \in Totals :
           /\ reserveReply' = [reserveReply EXCEPT ![o] = [topic |-> "STOCK_RESERVED", total |-> total]]
           /\ Write("product", Msg("STOCK_RESERVED", o, total))
    BY <1>4 DEF ReserveStock
  <2>2. m = Msg("STOCK_RESERVED", o, total)
    BY <1>2, <1>4, <2>1, MsgType, WriteFacts DEF ReserveStock, Topics, Services
  <2> QED
    BY <1>2, <2>1, <2>2 DEF MessageIsTrue, Msg, ProductTypeOK
<1>5. CASE RefuseStock(o)
  <2>1. m = Msg("STOCK_RESERVATION_FAILED", o, 0)
    BY <1>2, <1>5, MsgType, WriteFacts DEF RefuseStock, Topics, Services
  <2> QED
    BY <1>2, <1>5, <2>1 DEF MessageIsTrue, Msg, RefuseStock, ProductTypeOK
<1>6. CASE ReleaseStockAgain(o)
  <2>1. releaseReply[o] = "STOCK_RELEASED"
    BY <1>2, <1>6 DEF ReleaseStockAgain, ProductTypeOK
  <2>2. m = Msg("STOCK_RELEASED", o, 0)
    BY <1>2, <1>6, <2>1, MsgType, WriteFacts DEF ReleaseStockAgain, Topics, Services
  <2> QED
    BY <1>6, <2>1, <2>2 DEF MessageIsTrue, Msg, ReleaseStockAgain, productVars
<1>7. CASE ReleaseStock(o)
  <2>1. m = Msg("STOCK_RELEASED", o, 0)
    BY <1>2, <1>7, MsgType, WriteFacts DEF ReleaseStock, Topics, Services
  <2> QED
    BY <1>2, <1>7, <2>1 DEF MessageIsTrue, Msg, ReleaseStock, ProductTypeOK
<1> QED
  BY <1>1, <1>3, <1>4, <1>5, <1>6, <1>7

\* The replies of payment-service are true.
LEMMA PaymentMessages ==
    ASSUME TypeOK, SagaInv, PaymentStep, NEW m, m \in Sent', m \notin Sent
    PROVE  MessageIsTrue(m)'
<1>1. TransportTypeOK /\ PaymentTypeOK
  BY DEF TypeOK
<1>2. ASSUME NEW o \in Orders, ProcessPaymentAgain(o)
      PROVE  MessageIsTrue(m)'
  <2>1. payReply[o] \in {"PAYMENT_PROCESSED", "PAYMENT_FAILED"}
    BY <1>1, <1>2 DEF ProcessPaymentAgain, PaymentTypeOK
  <2>2. m = Msg(payReply[o], o, 0)
    BY <1>1, <1>2, <2>1, MsgType, WriteFacts DEF ProcessPaymentAgain, Topics, Services
  <2> QED
    BY <1>2, <2>1, <2>2 DEF MessageIsTrue, Msg, ProcessPaymentAgain, paymentVars
<1>3. ASSUME NEW o \in Orders, ChargePayment(o)
      PROVE  MessageIsTrue(m)'
  <2>1. m = Msg("PAYMENT_PROCESSED", o, 0)
    BY <1>1, <1>3, MsgType, WriteFacts DEF ChargePayment, Topics, Services
  <2> QED
    BY <1>1, <1>3, <2>1 DEF MessageIsTrue, Msg, ChargePayment, PaymentTypeOK
<1>4. ASSUME NEW o \in Orders, DeclinePayment(o)
      PROVE  MessageIsTrue(m)'
  <2>1. m = Msg("PAYMENT_FAILED", o, 0)
    BY <1>1, <1>4, MsgType, WriteFacts DEF DeclinePayment, Topics, Services
  <2> QED
    BY <1>1, <1>4, <2>1 DEF MessageIsTrue, Msg, DeclinePayment, PaymentTypeOK
<1>5. ASSUME NEW u \in Users, OpenWallet(u) \/ \E amount \in TopUps : TopUp(u, amount)
      PROVE  MessageIsTrue(m)'
  BY <1>5 DEF OpenWallet, TopUp, Sent, transportVars
<1> QED
  BY <1>2, <1>3, <1>4, <1>5 DEF PaymentStep, PaymentNext

\* Messages are true when they are written and stay true.
LEMMA MessagesStep ==
    ASSUME TypeOK, SagaInv, [Next]_vars
    PROVE  MessagesAreTrue'
<1> SUFFICES ASSUME NEW m \in Sent'
             PROVE  MessageIsTrue(m)'
  BY DEF MessagesAreTrue
<1>1. CASE m \in Sent
  <2>1. MessageIsTrue(m)
    BY <1>1 DEF SagaInv, MessagesAreTrue
  <2>2. m.order \in Orders
    BY <1>1 DEF Sent, TypeOK, TransportTypeOK, Message
  <2>3. orders[m.order].status = "cancelled" => sagas[m.order].status = "failed"
    BY <2>2 DEF SagaInv, OrderFollowsSaga
  <2> QED
    BY <2>1, <2>2, <2>3, Stability DEF MessageIsTrue, SagaInv
<1>2. CASE m \notin Sent
  <2>1. CASE OutboxStep \/ UNCHANGED vars
    BY <1>2, <2>1, ProcessPendingFacts DEF OutboxStep, vars, transportVars, Sent, TypeOK
  <2> QED
    BY <1>2, <2>1, OrderMessages, ProductMessages, PaymentMessages DEF Next
<1> QED
  BY <1>1, <1>2

\* What order-service records stays backed by the other services' replies.
LEMMA SagaFollowsRepliesStep ==
    ASSUME TypeOK, SagaInv, [Next]_vars
    PROVE  SagaFollowsReplies'
<1> SUFFICES ASSUME NEW x \in Orders
             PROVE  /\ orders'[x].status = "confirmed" =>
                          reserveReply'[x] = [topic |-> "STOCK_RESERVED", total |-> orders'[x].total]
                    /\ CanHandle(x, "release_stock")' => payReply'[x] = "PAYMENT_FAILED"
                    /\ sagas'[x].status = "completed" => payReply'[x] = "PAYMENT_PROCESSED"
                    /\ orders'[x].status = "cancelled" =>
                          \/ reserveReply'[x].topic = "STOCK_RESERVATION_FAILED"
                          \/ releaseReply'[x] = "STOCK_RELEASED"
  BY DEF SagaFollowsReplies
<1>1. CASE orders'[x] = orders[x] /\ sagas'[x].status = sagas[x].status /\ sagas'[x].step = sagas[x].step
  BY <1>1, Stability DEF SagaInv, SagaFollowsReplies, CanHandle
<1>2. CASE OrderStep
  <2> USE DEF TypeOK, OrderTypeOK, OrderRow, SagaRow
  <2>1. reserveReply' = reserveReply /\ releaseReply' = releaseReply /\ payReply' = payReply
    BY <1>2 DEF OrderStep, productVars, paymentVars
  <2>3. ASSUME NEW o \in Orders, CreateOrder(o), x = o
        PROVE  orders'[x].status = "pending" /\ sagas'[x].status = "running" /\ sagas'[x].step = "reserve_stock"
    BY <2>3 DEF CreateOrder, SagaInv, OrderFollowsSaga
  <2>4. ASSUME NEW o \in Orders, OnStockReserved(o), x = o
        PROVE  /\ orders'[x].status = "confirmed"
               /\ sagas'[x].status = "running" /\ sagas'[x].step = "process_payment"
               /\ reserveReply'[x] = [topic |-> "STOCK_RESERVED", total |-> orders'[x].total]
    <3>1. PICK m \in Delivered("STOCK_RESERVED", o) :
             orders' = [orders EXCEPT ![o].status = "confirmed", ![o].total = m.total]
      BY <2>4 DEF OnStockReserved
    <3>2. orders'[x].status = "confirmed" /\ orders'[x].total = m.total
      BY <2>4, <3>1
    <3>3. reserveReply[x] = [topic |-> "STOCK_RESERVED", total |-> m.total]
      BY <2>4, DeliveredIsTrue
    <3>4. sagas'[x].status = "running" /\ sagas'[x].step = "process_payment"
      BY <2>4 DEF OnStockReserved, CanHandle, AdvanceToPayment
    <3> QED
      BY <2>1, <3>2, <3>3, <3>4
  <2>5. ASSUME NEW o \in Orders, PerformCancellation(o), x = o
        PROVE  orders'[x].status = "cancelled" /\ sagas'[x].status = "failed"
    BY <2>5 DEF PerformCancellation, Fail
  <2>6. ASSUME NEW o \in Orders, OnStockReservationFailed(o), x = o
        PROVE  reserveReply[x].topic = "STOCK_RESERVATION_FAILED"
    BY <2>6, DeliveredIsTrue DEF OnStockReservationFailed
  <2>7. ASSUME NEW o \in Orders, OnStockReleased(o), x = o
        PROVE  releaseReply[x] = "STOCK_RELEASED"
    BY <2>7, DeliveredIsTrue DEF OnStockReleased
  <2>8. ASSUME NEW o \in Orders, OnPaymentProcessed(o), x = o
        PROVE  /\ payReply[x] = "PAYMENT_PROCESSED" /\ orders' = orders
               /\ sagas'[x].status = "completed"
               /\ orders[x].status = "confirmed"
    <3>1. payReply[x] = "PAYMENT_PROCESSED"
      BY <2>8, DeliveredIsTrue DEF OnPaymentProcessed
    <3> QED
      BY <2>8, <3>1 DEF OnPaymentProcessed, Complete, CanHandle, SagaInv, OrderFollowsSaga
  <2>9. ASSUME NEW o \in Orders, OnPaymentFailed(o), x = o
        PROVE  /\ payReply[x] = "PAYMENT_FAILED" /\ orders' = orders
               /\ sagas'[x].status = "running"
               /\ orders[x].status = "confirmed"
    <3>1. payReply[x] = "PAYMENT_FAILED"
      BY <2>9, DeliveredIsTrue DEF OnPaymentFailed
    <3> QED
      BY <2>9, <3>1 DEF OnPaymentFailed, StartCompensation, CanHandle, SagaInv, OrderFollowsSaga
  <2>10. ASSUME NEW o \in Orders, NEW t \in Ticks, GiveUp(t, o), x = o
         PROVE  orders' = orders /\ sagas'[x].status = "failed" /\ orders[x].status # "cancelled"
    BY <2>10 DEF GiveUp, Fail, SagaInv, OrderFollowsSaga
  <2>11. ASSUME NEW o \in Orders, NEW t \in Ticks, ResendCommand(t, o)
         PROVE  orders'[x] = orders[x] /\ sagas'[x].status = sagas[x].status /\ sagas'[x].step = sagas[x].step
    BY <2>11 DEF ResendCommand, ScheduleRetry
  <2>12. ASSUME NEW o \in Orders, x # o,
                \/ CreateOrder(o) \/ OnStockReserved(o) \/ PerformCancellation(o)
                \/ OnPaymentProcessed(o) \/ OnPaymentFailed(o) \/ \E t \in Ticks : GiveUp(t, o)
         PROVE  orders'[x] = orders[x] /\ sagas'[x] = sagas[x]
    BY <2>12 DEF CreateOrder, OnStockReserved, PerformCancellation, OnPaymentProcessed,
                 OnPaymentFailed, GiveUp, AdvanceToPayment, Complete, StartCompensation, Fail
  <2> QED
  BY <1>1, <1>2, <2>1, <2>3, <2>4, <2>5, <2>6, <2>7, <2>8, <2>9, <2>10, <2>11, <2>12, OrderCases
     DEF OnStockReservationFailed, OnStockReleased, SagaInv, SagaFollowsReplies, CanHandle
<1>3. CASE UNCHANGED orderVars
  BY <1>1, <1>3 DEF orderVars
<1> QED
  BY <1>2, <1>3 DEF Next, ProductStep, PaymentStep, OutboxStep, vars

\* The participants keep to the saga's order.
LEMMA ParticipantsStep ==
    ASSUME TypeOK, SagaInv, [Next]_vars
    PROVE  ParticipantsInOrder'
<1> USE DEF TypeOK
<1>1. CASE UNCHANGED <<productVars, paymentVars>>
  BY <1>1 DEF SagaInv, ParticipantsInOrder, Reserved, productVars, paymentVars
<1>2. CASE ProductStep
  <2>1. PICK o \in Orders :
           \/ ReserveStockAgain(o) \/ ReserveStock(o) \/ RefuseStock(o)
           \/ ReleaseStockAgain(o) \/ ReleaseStock(o)
    BY <1>2 DEF ProductStep, ProductNext
  <2>2. payReply' = payReply /\ payments' = payments
    BY <1>2 DEF ProductStep, paymentVars
  <2>3. ParticipantsInOrder /\ ProductTypeOK
    BY DEF SagaInv
  <2>4. CASE ReserveStockAgain(o) \/ ReleaseStockAgain(o)
    BY <2>2, <2>3, <2>4 DEF ReserveStockAgain, ReleaseStockAgain, productVars, ParticipantsInOrder, Reserved
  <2>5. CASE ReserveStock(o) \/ RefuseStock(o)
    <3>1. reserveReply[o].topic = "none" /\ releaseReply' = releaseReply
      BY <2>5 DEF ReserveStock, RefuseStock
    <3>2. payReply[o] = "none"
      BY <2>3, <3>1 DEF ParticipantsInOrder, Reserved
    <3>3. reserveReply'[o].topic # "STOCK_RESERVED" => reserveReply'[o].total = 0
      BY <2>3, <2>5 DEF ReserveStock, RefuseStock, ProductTypeOK
    <3>4. \A x \in Orders : x # o => reserveReply'[x] = reserveReply[x]
      BY <2>3, <2>5 DEF ReserveStock, RefuseStock, ProductTypeOK
    <3> QED
      BY <2>2, <2>3, <3>1, <3>2, <3>3, <3>4 DEF ParticipantsInOrder, Reserved
  <2>6. CASE ReleaseStock(o)
    <3>1. payReply[o] = "PAYMENT_FAILED"
      BY <2>6, DeliveredIsTrue DEF ReleaseStock
    <3>2. /\ reserveReply' = reserveReply
          /\ \A x \in Orders : x # o => releaseReply'[x] = releaseReply[x]
      BY <2>3, <2>6 DEF ReleaseStock, ProductTypeOK
    <3> QED
      BY <2>2, <2>3, <3>1, <3>2 DEF ParticipantsInOrder, Reserved
  <2> QED
    BY <2>1, <2>4, <2>5, <2>6
<1>3. CASE PaymentStep
  <2>1. reserveReply' = reserveReply /\ releaseReply' = releaseReply
    BY <1>3 DEF PaymentStep, productVars
  <2>2. ParticipantsInOrder /\ PaymentTypeOK
    BY DEF SagaInv
  <2>3. CASE payReply' = payReply /\ payments' = payments
    BY <2>1, <2>2, <2>3 DEF ParticipantsInOrder, Reserved
  <2>4. ASSUME NEW o \in Orders, ChargePayment(o) \/ DeclinePayment(o)
        PROVE  ParticipantsInOrder'
    <3>1. \E m \in Delivered("PROCESS_PAYMENT", o) : payments'[o].amount = m.total
      <4>1. CASE ChargePayment(o)
        BY <2>2, <4>1 DEF ChargePayment, PaymentTypeOK
      <4>2. CASE DeclinePayment(o)
        BY <2>2, <4>2 DEF DeclinePayment, PaymentTypeOK
      <4> QED
        BY <2>4, <4>1, <4>2
    <3>2. Reserved(o) /\ reserveReply[o].total = payments'[o].amount
      <4>1. PICK m \in Delivered("PROCESS_PAYMENT", o) : payments'[o].amount = m.total
        BY <3>1
      <4>2. reserveReply[o] = [topic |-> "STOCK_RESERVED", total |-> m.total]
        BY DeliveredIsTrue
      <4> QED
        BY <4>1, <4>2 DEF Reserved
    <3>3. /\ payReply[o] = "none"
          /\ \A x \in Orders : x # o => payReply'[x] = payReply[x] /\ payments'[x] = payments[x]
      BY <2>2, <2>4 DEF ChargePayment, DeclinePayment, PaymentTypeOK
    <3>4. releaseReply[o] = "none"
      BY <2>2, <3>3 DEF ParticipantsInOrder, Reserved
    <3>5. \/ payReply'[o] = "PAYMENT_PROCESSED" /\ payments'[o].status = "completed"
          \/ payReply'[o] = "PAYMENT_FAILED" /\ payments'[o].status = "pending"
      <4>1. CASE ChargePayment(o)
        BY <2>2, <4>1 DEF ChargePayment, PaymentTypeOK
      <4>2. CASE DeclinePayment(o)
        BY <2>2, <4>2 DEF DeclinePayment, PaymentTypeOK
      <4> QED
        BY <2>4, <4>1, <4>2
    <3> QED
      BY <2>1, <2>2, <3>2, <3>3, <3>4, <3>5 DEF ParticipantsInOrder, Reserved
  <2> QED
    BY <1>3, <2>3, <2>4
       DEF PaymentStep, PaymentNext, ProcessPaymentAgain, OpenWallet, TopUp, paymentVars
<1> QED
  BY <1>1, <1>2, <1>3 DEF Next, OrderStep, OutboxStep, vars

\* Types and SagaInv hold in every reachable state.
THEOREM SagaInvariant == Spec => [](TypeOK /\ SagaInv)
<1>1. Init => TypeOK /\ SagaInv
  <2> SUFFICES ASSUME Init PROVE SagaInv
    BY TypeInit
  <2>1. Sent = {}
    BY DEF Init, TransportInit, Sent
  <2>2. OrderFollowsSaga
    BY DEF Init, OrderInit, OrderFollowsSaga
  <2>3. SagaFollowsReplies
    BY DEF Init, OrderInit, SagaFollowsReplies, CanHandle
  <2>4. ParticipantsInOrder
    BY DEF Init, ProductInit, PaymentInit, NoReply, ParticipantsInOrder
  <2> QED
    BY <2>1, <2>2, <2>3, <2>4 DEF SagaInv, MessagesAreTrue
<1>2. (TypeOK /\ SagaInv) /\ [Next]_vars => (TypeOK /\ SagaInv)'
  <2> SUFFICES ASSUME TypeOK, SagaInv, [Next]_vars
               PROVE  TypeOK' /\ SagaInv'
    OBVIOUS
  <2>1. TypeOK' /\ OrderFollowsSaga'
    BY TypeStep, OrderFollowsSagaStep DEF SagaInv
  <2> QED
    BY <2>1, MessagesStep, SagaFollowsRepliesStep, ParticipantsStep DEF SagaInv
<1> QED
  BY <1>1, <1>2, PTL DEF Spec

-----------------------------------------------------------------------------
(***************************************************************************)
(* What follows from it.                                                   *)
(***************************************************************************)

\* Order-service never announces two verdicts, however replies are duplicated,
\* reordered or late.
THEOREM OneVerdictTheorem == Spec => []OneVerdict
<1>1. SagaInv => OneVerdict
  <2> SUFFICES ASSUME SagaInv, NEW o \in Orders,
                      NEW a \in Sent, a.topic = "ORDER_CONFIRMED", a.order = o,
                      NEW b \in Sent, b.topic = "ORDER_CANCELLED", b.order = o
               PROVE  FALSE
    BY DEF OneVerdict, Announced
  <2>1. MessageIsTrue(a) /\ MessageIsTrue(b)
    BY DEF SagaInv, MessagesAreTrue
  <2>2. sagas[o].status = "completed" /\ orders[o].status = "cancelled"
    BY <2>1 DEF MessageIsTrue
  <2> QED
    BY <2>2 DEF SagaInv, OrderFollowsSaga
<1> QED
  BY <1>1, SagaInvariant, PTL

\* An order announced as confirmed is paid, at the announced total, and its
\* stock is still reserved.
THEOREM ConfirmedTheorem == Spec => []ConfirmedIsPaidAndHeld
<1>1. TypeOK /\ SagaInv => ConfirmedIsPaidAndHeld
  <2> SUFFICES ASSUME TypeOK, SagaInv, NEW m \in Sent, m.topic = "ORDER_CONFIRMED"
               PROVE  /\ Charged(m.order)
                      /\ payments[m.order].amount = m.total
                      /\ reserveReply[m.order] = [topic |-> "STOCK_RESERVED", total |-> m.total]
                      /\ releaseReply[m.order] = "none"
    BY DEF ConfirmedIsPaidAndHeld
  <2>1. m.order \in Orders
    BY DEF TypeOK, TransportTypeOK, Sent, Message
  <2>2. MessageIsTrue(m)
    BY DEF SagaInv, MessagesAreTrue
  <2>3. sagas[m.order].status = "completed" /\ m.total = orders[m.order].total
    BY <2>2 DEF MessageIsTrue
  <2>4. orders[m.order].status = "confirmed"
    BY <2>1, <2>3 DEF SagaInv, OrderFollowsSaga
  <2>5. /\ payReply[m.order] = "PAYMENT_PROCESSED"
        /\ reserveReply[m.order] = [topic |-> "STOCK_RESERVED", total |-> m.total]
    BY <2>1, <2>3, <2>4 DEF SagaInv, SagaFollowsReplies
  <2> QED
    BY <2>1, <2>5 DEF SagaInv, ParticipantsInOrder, Charged
<1> QED
  BY <1>1, SagaInvariant, PTL

\* An order announced as cancelled was not charged and keeps no reservation.
THEOREM CancelledTheorem == Spec => []CancelledIsUndone
<1>1. TypeOK /\ SagaInv => CancelledIsUndone
  <2> SUFFICES ASSUME TypeOK, SagaInv, NEW o \in Orders,
                      NEW m \in Sent, m.topic = "ORDER_CANCELLED", m.order = o
               PROVE  ~Charged(o) /\ (Reserved(o) => releaseReply[o] = "STOCK_RELEASED")
    BY DEF CancelledIsUndone, Announced
  <2>1. orders[o].status = "cancelled"
    <3>1. MessageIsTrue(m)
      BY DEF SagaInv, MessagesAreTrue
    <3> QED
      BY <3>1 DEF MessageIsTrue
  <2>2. \/ reserveReply[o].topic = "STOCK_RESERVATION_FAILED"
        \/ releaseReply[o] = "STOCK_RELEASED"
    BY <2>1 DEF SagaInv, SagaFollowsReplies
  <2> QED
    BY <2>2 DEF SagaInv, ParticipantsInOrder, Charged, Reserved
<1> QED
  BY <1>1, SagaInvariant, PTL

\* Charged goods are reserved at the price that was charged and never released.
THEOREM ChargedTheorem == Spec => []ChargedGoodsStayReserved
<1>1. TypeOK /\ SagaInv => ChargedGoodsStayReserved
  <2> SUFFICES ASSUME TypeOK, SagaInv, NEW o \in Orders, Charged(o)
               PROVE  /\ Reserved(o) /\ reserveReply[o].total = payments[o].amount
                      /\ releaseReply[o] = "none"
                      /\ ~Announced("RELEASE_STOCK", o)
    BY DEF ChargedGoodsStayReserved
  <2>1. payReply[o] = "PAYMENT_PROCESSED"
    BY DEF SagaInv, ParticipantsInOrder, Charged
  <2>2. ASSUME NEW m \in Sent, m.topic = "RELEASE_STOCK", m.order = o
        PROVE  FALSE
    <3>1. MessageIsTrue(m)
      BY DEF SagaInv, MessagesAreTrue
    <3> QED
      BY <2>1, <2>2, <3>1 DEF MessageIsTrue
  <2>3. releaseReply[o] = "none"
    BY <2>1 DEF SagaInv, ParticipantsInOrder
  <2> QED
    BY <2>1, <2>2, <2>3 DEF SagaInv, ParticipantsInOrder, Announced
<1> QED
  BY <1>1, SagaInvariant, PTL

\* order-service writes messages only about orders whose saga has not ended.
LEMMA OrderRows ==
    ASSUME TypeOK, SagaInv, [Next]_vars,
           NEW m \in outbox'["order"], m \notin outbox["order"]
    PROVE  sagas[m.order].status \in {"none", "running"}
<1> USE DEF TypeOK
<1>1. ASSUME NEW s \in Services, NEW r, Write(s, r), s # "order"
      PROVE  outbox'["order"] = outbox["order"]
  BY <1>1 DEF Write, TransportTypeOK, Services
<1>2. ASSUME NEW r, Write("order", r)
      PROVE  m = r
  BY <1>2 DEF Write, TransportTypeOK, Services
<1>3. CASE OrderStep
  <2>1. CASE UNCHANGED <<orders, sagas, transportVars>>
    BY <2>1 DEF transportVars
  <2>2. ASSUME NEW o \in Orders, CreateOrder(o)
        PROVE  sagas[m.order].status \in {"none", "running"}
    <3>1. m.order = o
      BY <1>2, <2>2 DEF CreateOrder, Msg
    <3> QED
      BY <2>2, <3>1 DEF CreateOrder, SagaInv, OrderFollowsSaga
  <2>3. ASSUME NEW o \in Orders, sagas[o].status = "running",
               NEW topic, NEW total, Write("order", Msg(topic, o, total))
        PROVE  sagas[m.order].status = "running"
    BY <1>2, <2>3 DEF Msg
  <2>4. ASSUME NEW o \in Orders,
               \/ OnStockReserved(o) \/ OnStockReservationFailed(o) \/ OnPaymentProcessed(o)
               \/ OnPaymentFailed(o) \/ OnStockReleased(o)
        PROVE  sagas[m.order].status = "running"
    BY <2>3, <2>4 DEF OnStockReserved, OnStockReservationFailed, OnPaymentProcessed,
                      OnPaymentFailed, OnStockReleased, PerformCancellation, CanHandle
  <2>5. ASSUME NEW o \in Orders, NEW t \in Ticks, GiveUp(t, o) \/ ResendCommand(t, o)
        PROVE  sagas[m.order].status = "running"
    <3>1. CASE GiveUp(t, o)
      BY <3>1 DEF GiveUp, transportVars
    <3>2. CASE ResendCommand(t, o)
      BY <2>3, <3>2, CommandType DEF ResendCommand, SagaInv
    <3> QED
      BY <2>5, <3>1, <3>2
  <2> QED
    BY <1>3, <2>1, <2>2, <2>4, <2>5, OrderCases
<1>4. CASE ProductStep
  BY <1>1, <1>4 DEF ProductStep, ProductNext, ReserveStockAgain, ReserveStock, RefuseStock,
                    ReleaseStockAgain, ReleaseStock, Services
<1>5. CASE PaymentStep
  BY <1>1, <1>5 DEF PaymentStep, PaymentNext, ProcessPaymentAgain, ChargePayment, DeclinePayment,
                    OpenWallet, TopUp, transportVars, Services
<1>6. CASE OutboxStep
  BY <1>6 DEF OutboxStep, ProcessPending, PublishRow, PublishRolledBack, PermanentlyFail,
              TransportTypeOK, Services
<1>7. CASE UNCHANGED vars
  BY <1>7 DEF vars, transportVars
<1> QED
  BY <1>3, <1>4, <1>5, <1>6, <1>7 DEF Next

\* An ended saga is final.
THEOREM EndedTheorem == Spec => EndedSagaIsFinal
<1>1. TypeOK /\ SagaInv /\ [Next]_vars =>
         [\A o \in Orders : sagas[o].status \in {"completed", "failed"} =>
             /\ UNCHANGED <<sagas[o], orders[o]>>
             /\ \A m \in outbox'["order"] \ outbox["order"] : m.order # o]_vars
  <2> SUFFICES ASSUME TypeOK, SagaInv, [Next]_vars,
                      NEW o \in Orders, sagas[o].status \in {"completed", "failed"}
               PROVE  /\ UNCHANGED <<sagas[o], orders[o]>>
                      /\ \A m \in outbox'["order"] \ outbox["order"] : m.order # o
    OBVIOUS
  <2>1. UNCHANGED <<sagas[o], orders[o]>>
    BY Stability DEF SagaInv
  <2>2. \A m \in outbox'["order"] \ outbox["order"] : m.order # o
    BY OrderRows
  <2> QED
    BY <2>1, <2>2
<1> QED
  BY <1>1, SagaInvariant, PTL DEF Spec, EndedSagaIsFinal

-----------------------------------------------------------------------------
(***************************************************************************)
(* Refinement of the order contract.                                       *)
(***************************************************************************)

\* The abstract state of an order whose rows do not change does not change.
LEMMA SameRows ==
    ASSUME NEW x \in Orders,
           sagas'[x].status = sagas[x].status, orders'[x].status = orders[x].status
    PROVE  Verdict(x)' = Verdict(x)
BY DEF Verdict

\* A step of order-service is a verdict or invisible.
LEMMA OrderRefines ==
    ASSUME TypeOK, SagaInv, OrderStep
    PROVE  [Contract!Next]_(Contract!contractVars)
<1> USE DEF TypeOK, OrderTypeOK
<1>1. /\ \A x \in Orders : Goods(x)' = Goods(x) /\ Money(x)' = Money(x)
      /\ reserveReply' = reserveReply /\ payments' = payments
  BY DEF OrderStep, productVars, paymentVars, Goods, Money
<1>2. CASE \A x \in Orders : Verdict(x)' = Verdict(x)
  BY <1>1, <1>2 DEF Contract!contractVars, Charged
<1>3. ASSUME NEW o \in Orders, OnStockReservationFailed(o) \/ OnStockReleased(o)
      PROVE  Contract!Cancel(o)
  <2>1. sagas[o].status = "running" /\ PerformCancellation(o)
    BY <1>3 DEF OnStockReservationFailed, OnStockReleased, CanHandle
  <2>2. Goods(o) \in {"refused", "returned"}
    <3>1. CASE OnStockReservationFailed(o)
      <4>1. reserveReply[o].topic = "STOCK_RESERVATION_FAILED"
        BY <3>1, DeliveredIsTrue DEF OnStockReservationFailed
      <4> QED
        BY <4>1 DEF Goods
    <3>2. CASE OnStockReleased(o)
      <4>1. releaseReply[o] = "STOCK_RELEASED"
        BY <3>2, DeliveredIsTrue DEF OnStockReleased
      <4> QED
        BY <4>1 DEF Goods
    <3> QED
      BY <1>3, <3>1, <3>2
  <2>3. Verdict(o) = "open"
    BY <2>1 DEF Verdict, PerformCancellation
  <2>4. orders'[o].status = "cancelled" /\ sagas'[o].status = "failed"
    BY <2>1 DEF PerformCancellation, Fail, OrderRow, SagaRow
  <2>5. Verdict(o)' = "cancelled"
    BY <2>4 DEF Verdict
  <2>6. ASSUME NEW x \in Orders, x # o
        PROVE  Verdict(x)' = Verdict(x)
    BY <2>1, <2>6, SameRows DEF PerformCancellation, Fail, OrderRow, SagaRow
  <2> QED
    BY <1>1, <2>2, <2>3, <2>5, <2>6 DEF Contract!Cancel, Charged
<1>4. ASSUME NEW o \in Orders, OnPaymentProcessed(o)
      PROVE  Contract!Confirm(o)
  <2>1. sagas[o].status = "running" /\ orders[o].status = "confirmed" /\ orders' = orders
    BY <1>4 DEF OnPaymentProcessed, CanHandle, SagaInv, OrderFollowsSaga
  <2>2. payReply[o] = "PAYMENT_PROCESSED"
    BY <1>4, DeliveredIsTrue DEF OnPaymentProcessed
  <2>3. reserveReply[o].topic = "STOCK_RESERVED" /\ releaseReply[o] = "none"
    BY <2>2 DEF SagaInv, ParticipantsInOrder, Reserved
  <2>4. Verdict(o) = "open" /\ Money(o) = "paid" /\ Goods(o) = "held"
    BY <2>1, <2>2, <2>3 DEF Verdict, Money, Goods
  <2>5. sagas'[o].status = "completed"
    BY <1>4 DEF OnPaymentProcessed, Complete, SagaRow
  <2>6. Verdict(o)' = "confirmed"
    BY <2>5 DEF Verdict
  <2>7. ASSUME NEW x \in Orders, x # o
        PROVE  Verdict(x)' = Verdict(x)
    BY <1>4, <2>1, <2>7, SameRows DEF OnPaymentProcessed, Complete, SagaRow
  <2> QED
    BY <1>1, <2>4, <2>6, <2>7 DEF Contract!Confirm, Charged
<1>5. ASSUME NEW o \in Orders, NEW x \in Orders, CreateOrder(o) \/ OnStockReserved(o)
      PROVE  Verdict(x)' = Verdict(x)
  <2>1. CASE x # o
    BY <1>5, <2>1, SameRows DEF CreateOrder, OnStockReserved, AdvanceToPayment
  <2>2. CASE x = o
    <3>1. orders[o].status \in {"none", "pending"} /\ sagas[o].status \in {"none", "running"}
      BY <1>5 DEF CreateOrder, OnStockReserved, CanHandle, SagaInv, OrderFollowsSaga
    <3>2. orders'[o].status \in {"pending", "confirmed"} /\ sagas'[o].status = "running"
      <4>1. CASE CreateOrder(o)
        BY <4>1 DEF CreateOrder, OrderRow, SagaRow
      <4>2. CASE OnStockReserved(o)
        BY <4>2 DEF OnStockReserved, CanHandle, AdvanceToPayment, OrderRow, SagaRow
      <4> QED
        BY <1>5, <4>1, <4>2
    <3> QED
      BY <2>2, <3>1, <3>2 DEF Verdict
  <2> QED
    BY <2>1, <2>2
<1>6. ASSUME NEW o \in Orders, NEW x \in Orders, OnPaymentFailed(o)
      PROVE  Verdict(x)' = Verdict(x)
  BY <1>6, SameRows DEF OnPaymentFailed, StartCompensation, SagaRow
<1>7. ASSUME NEW o \in Orders, NEW t \in Ticks, NEW x \in Orders, GiveUp(t, o)
      PROVE  Verdict(x)' = Verdict(x)
  <2>1. orders' = orders /\ (x # o => sagas'[x] = sagas[x])
    BY <1>7 DEF GiveUp, Fail
  <2>2. sagas[o].status = "running" /\ sagas'[o].status = "failed"
    BY <1>7 DEF GiveUp, Fail, SagaRow
  <2> QED
    BY <2>1, <2>2, SameRows DEF Verdict
<1>8. ASSUME NEW o \in Orders, NEW t \in Ticks, NEW x \in Orders, ResendCommand(t, o)
      PROVE  Verdict(x)' = Verdict(x)
  BY <1>8, SameRows DEF ResendCommand, ScheduleRetry, SagaRow
<1>9. CASE UNCHANGED <<orders, sagas, transportVars>>
  BY <1>2, <1>9, SameRows
<1>10. CASE \E o \in Orders : Contract!Cancel(o) \/ Contract!Confirm(o)
  BY <1>10 DEF Contract!Next
<1> QED
  BY <1>2, <1>3, <1>4, <1>5, <1>6, <1>7, <1>8, <1>9, <1>10, OrderCases

\* A step of product-service holds, refuses or returns goods, or is invisible.
LEMMA ProductRefines ==
    ASSUME TypeOK, SagaInv, ProductStep
    PROVE  [Contract!Next]_(Contract!contractVars)
<1>1. PICK o \in Orders :
         \/ ReserveStockAgain(o) \/ ReserveStock(o) \/ RefuseStock(o)
         \/ ReleaseStockAgain(o) \/ ReleaseStock(o)
  BY DEF ProductStep, ProductNext
<1>2. ProductTypeOK /\ PaymentTypeOK
  BY DEF TypeOK
<1>3. /\ \A x \in Orders : Verdict(x)' = Verdict(x) /\ Money(x)' = Money(x)
      /\ payments' = payments
  BY DEF ProductStep, orderVars, paymentVars, Verdict, Money
<1>4. CASE ReserveStockAgain(o) \/ ReleaseStockAgain(o)
  <2>1. reserveReply' = reserveReply /\ releaseReply' = releaseReply
    BY <1>4 DEF ReserveStockAgain, ReleaseStockAgain, productVars
  <2>2. \A x \in Orders : Goods(x)' = Goods(x)
    BY <2>1 DEF Goods
  <2> QED
    BY <1>3, <2>1, <2>2 DEF Contract!contractVars, Charged
<1>5. ASSUME reserveReply[o].topic = "none"
      PROVE  Verdict(o) = "open" /\ Goods(o) = "shelf" /\ releaseReply[o] = "none" /\ reserveReply[o].total = 0
  <2>1. payReply[o] = "none" /\ releaseReply[o] = "none" /\ reserveReply[o].total = 0
    BY <1>5 DEF SagaInv, ParticipantsInOrder, Reserved
  <2>2. sagas[o].status # "completed" /\ orders[o].status # "cancelled"
    BY <1>5, <2>1 DEF SagaInv, SagaFollowsReplies
  <2> QED
    BY <1>5, <2>1, <2>2 DEF Verdict, Goods
<1>6. ASSUME NEW x \in Orders, x # o
      PROVE  reserveReply'[x] = reserveReply[x] /\ Goods(x)' = Goods(x)
  <2>1. reserveReply'[x] = reserveReply[x] /\ releaseReply'[x] = releaseReply[x]
    BY <1>1, <1>2, <1>6 DEF ReserveStockAgain, ReserveStock, RefuseStock, ReleaseStockAgain,
                            ReleaseStock, ProductTypeOK, productVars
  <2> QED
    BY <2>1 DEF Goods
<1>7. CASE ReserveStock(o)
  <2>1. reserveReply[o].topic = "none" /\ releaseReply' = releaseReply
    BY <1>7 DEF ReserveStock
  <2>2. PICK total \in Totals :
           reserveReply' = [reserveReply EXCEPT ![o] = [topic |-> "STOCK_RESERVED", total |-> total]]
    BY <1>7 DEF ReserveStock
  <2>3. reserveReply'[o].topic = "STOCK_RESERVED" /\ reserveReply'[o].total = total
    BY <1>2, <2>2 DEF ProductTypeOK
  <2>4. Goods(o)' = "held"
    BY <1>5, <2>1, <2>3 DEF Goods
  <2> QED
    <3>1. Contract!Hold(o)
      BY <1>3, <1>5, <1>6, <2>1, <2>3, <2>4 DEF Contract!Hold, Charged
    <3> QED
      BY <3>1 DEF Contract!Next
<1>8. CASE RefuseStock(o)
  <2>1. reserveReply[o].topic = "none" /\ releaseReply' = releaseReply
    BY <1>8 DEF RefuseStock
  <2>2. reserveReply'[o].topic = "STOCK_RESERVATION_FAILED" /\ reserveReply'[o].total = 0
    BY <1>2, <1>8 DEF RefuseStock, ProductTypeOK
  <2>3. Goods(o)' = "refused"
    BY <1>5, <2>1, <2>2 DEF Goods
  <2> QED
    <3>1. Contract!Refuse(o)
      BY <1>3, <1>5, <1>6, <2>1, <2>2, <2>3 DEF Contract!Refuse, Charged
    <3> QED
      BY <3>1 DEF Contract!Next
<1>9. CASE ReleaseStock(o)
  <2>1. releaseReply[o] = "none" /\ reserveReply' = reserveReply
    BY <1>9 DEF ReleaseStock
  <2>2. payReply[o] = "PAYMENT_FAILED"
    BY <1>9, DeliveredIsTrue DEF ReleaseStock
  <2>3. reserveReply[o].topic = "STOCK_RESERVED"
    BY <2>2 DEF SagaInv, ParticipantsInOrder, Reserved
  <2>4. sagas[o].status # "completed" /\ orders[o].status # "cancelled"
    BY <2>1, <2>2, <2>3 DEF SagaInv, SagaFollowsReplies
  <2>5. Verdict(o) = "open" /\ Goods(o) = "held" /\ Money(o) = "declined"
    BY <2>1, <2>2, <2>3, <2>4 DEF Verdict, Goods, Money
  <2>6. releaseReply'[o] = "STOCK_RELEASED"
    BY <1>2, <1>9 DEF ReleaseStock, ProductTypeOK
  <2>7. Goods(o)' = "returned"
    BY <2>6 DEF Goods
  <2> QED
    <3>1. Contract!Return(o)
      BY <1>3, <1>6, <2>1, <2>5, <2>7 DEF Contract!Return, Charged
    <3> QED
      BY <3>1 DEF Contract!Next
<1> QED
  BY <1>1, <1>4, <1>7, <1>8, <1>9

\* A step of payment-service charges or declines, or is invisible.
LEMMA PaymentRefines ==
    ASSUME TypeOK, SagaInv, PaymentStep
    PROVE  [Contract!Next]_(Contract!contractVars)
<1>1. PaymentTypeOK
  BY DEF TypeOK
<1>2. /\ \A x \in Orders : Verdict(x)' = Verdict(x) /\ Goods(x)' = Goods(x)
      /\ reserveReply' = reserveReply
  BY DEF PaymentStep, orderVars, productVars, Verdict, Goods
<1>3. CASE payReply' = payReply /\ payments' = payments
  <2>1. \A x \in Orders : Money(x)' = Money(x)
    BY <1>3 DEF Money
  <2> QED
    BY <1>2, <1>3, <2>1 DEF Contract!contractVars, Charged
<1>4. ASSUME NEW o \in Orders, ChargePayment(o) \/ DeclinePayment(o)
      PROVE  Contract!Charge(o) \/ Contract!Decline(o)
  <2>1. /\ payReply[o] = "none" /\ payments[o].status = "none"
        /\ \A x \in Orders : x # o => payReply'[x] = payReply[x] /\ payments'[x] = payments[x]
    BY <1>1, <1>4 DEF ChargePayment, DeclinePayment, PaymentTypeOK
  <2>2. \E m \in Delivered("PROCESS_PAYMENT", o) : payments'[o].amount = m.total
    <3>1. CASE ChargePayment(o)
      BY <1>1, <3>1 DEF ChargePayment, PaymentTypeOK
    <3>2. CASE DeclinePayment(o)
      BY <1>1, <3>2 DEF DeclinePayment, PaymentTypeOK
    <3> QED
      BY <1>4, <3>1, <3>2
  <2>3. reserveReply[o].topic = "STOCK_RESERVED" /\ reserveReply[o].total = payments'[o].amount
    <3>1. PICK m \in Delivered("PROCESS_PAYMENT", o) : payments'[o].amount = m.total
      BY <2>2
    <3>2. reserveReply[o] = [topic |-> "STOCK_RESERVED", total |-> m.total]
      BY DeliveredIsTrue
    <3> QED
      BY <3>1, <3>2
  <2>4. releaseReply[o] = "none"
    BY <2>1 DEF SagaInv, ParticipantsInOrder
  <2>5. sagas[o].status # "completed" /\ orders[o].status # "cancelled"
    BY <2>1, <2>3, <2>4 DEF SagaInv, SagaFollowsReplies
  <2>6. Verdict(o) = "open" /\ Goods(o) = "held" /\ Money(o) = "unpaid"
    BY <2>1, <2>3, <2>4, <2>5 DEF Verdict, Goods, Money
  <2>7. ASSUME NEW x \in Orders, x # o
        PROVE  Money(x)' = Money(x) /\ payments'[x] = payments[x]
    BY <2>1, <2>7 DEF Money
  <2>8. CASE ChargePayment(o)
    <3>1. payReply'[o] = "PAYMENT_PROCESSED" /\ payments'[o].status = "completed"
      BY <1>1, <2>8 DEF ChargePayment, PaymentTypeOK
    <3>2. Money(o)' = "paid"
      BY <3>1 DEF Money
    <3>3. Contract!Charge(o)
      BY <1>2, <2>3, <2>6, <2>7, <3>1, <3>2 DEF Contract!Charge, Charged
    <3> QED
      BY <3>3
  <2>9. CASE DeclinePayment(o)
    <3>1. payReply'[o] = "PAYMENT_FAILED" /\ payments'[o].status = "pending"
      BY <1>1, <2>9 DEF DeclinePayment, PaymentTypeOK
    <3>2. Money(o)' = "declined"
      BY <3>1 DEF Money
    <3>3. Contract!Decline(o)
      BY <1>2, <2>1, <2>6, <2>7, <3>1, <3>2 DEF Contract!Decline, Charged
    <3> QED
      BY <3>3
  <2> QED
    BY <1>4, <2>8, <2>9
<1>5. CASE \E o \in Orders : Contract!Charge(o) \/ Contract!Decline(o)
  BY <1>5 DEF Contract!Next
<1> QED
  BY <1>3, <1>4, <1>5
     DEF PaymentStep, PaymentNext, ProcessPaymentAgain, OpenWallet, TopUp, paymentVars

\* The order saga implements the order contract: each transaction of the three
\* services is one step of the contract, or none.
THEOREM SagaImplementsContract == Spec => ImplementsContract
<1>1. Init => Contract!Init
  <2> SUFFICES ASSUME Init PROVE Contract!Init
    OBVIOUS
  <2>1. \A o \in Orders : Goods(o) = "shelf" /\ reserveReply[o].total = 0
    BY DEF Init, ProductInit, NoReply, Goods
  <2>2. \A o \in Orders : Money(o) = "unpaid" /\ ~Charged(o)
    BY DEF Init, PaymentInit, Money, Charged
  <2>3. \A o \in Orders : Verdict(o) = "open"
    BY DEF Init, OrderInit, Verdict
  <2> QED
    BY <2>1, <2>2, <2>3 DEF Contract!Init
<1>2. TypeOK /\ SagaInv /\ [Next]_vars => [Contract!Next]_(Contract!contractVars)
  <2> SUFFICES ASSUME TypeOK, SagaInv, [Next]_vars
               PROVE  [Contract!Next]_(Contract!contractVars)
    OBVIOUS
  <2>1. CASE OutboxStep \/ UNCHANGED vars
    <3>1. UNCHANGED <<orderVars, productVars, paymentVars>>
      BY <2>1 DEF OutboxStep, vars
    <3>2. UNCHANGED Contract!contractVars
      BY <3>1 DEF Contract!contractVars, orderVars, productVars, paymentVars,
                  Goods, Money, Verdict, Charged
    <3> QED
      BY <3>2
  <2> QED
    BY <2>1, OrderRefines, ProductRefines, PaymentRefines DEF Next
<1> QED
  BY <1>1, <1>2, SagaInvariant, PTL DEF Spec, ImplementsContract, Contract!Spec

-----------------------------------------------------------------------------
(***************************************************************************)
(* Money and stock are accounted for.                                      *)
(*                                                                         *)
(* Both sums range over the orders that have got somewhere.  They are      *)
(* finitely many, whatever the set of orders, because each step adds one   *)
(* at most; that is part of the invariants.                                *)
(***************************************************************************)

\* The state of the wallets.
LedgerInv == WalletAccounted /\ \A u \in Users : IsFiniteSet(ChargedTo(u))

\* The amounts summed up are natural numbers.
LEMMA AmountType ==
    ASSUME PaymentTypeOK, NEW o \in Orders
    PROVE  payments[o].amount \in Nat
<1>1. payments[o].amount \in Totals \cup {0}
  BY DEF PaymentTypeOK
<1> QED
  BY <1>1, TotalType

\* A step that charges nobody and leaves user u's wallet alone.
LEMMA WalletStays ==
    ASSUME PaymentTypeOK, LedgerInv, NEW u \in Users,
           ChargedTo(u)' = ChargedTo(u),
           \A o \in ChargedTo(u) : payments'[o].amount = payments[o].amount
    PROVE  SumFunctionOnSet([o \in Orders |-> payments'[o].amount], ChargedTo(u)')
             = SumFunctionOnSet([o \in Orders |-> payments[o].amount], ChargedTo(u))
<1> DEFINE f == [o \in Orders |-> payments[o].amount]
           g == [o \in Orders |-> payments'[o].amount]
<1>1. IsFiniteSet(ChargedTo(u)) /\ ChargedTo(u) \subseteq Orders
  BY DEF LedgerInv, ChargedTo
<1>2. \A o \in ChargedTo(u) : g[o] = f[o]
  BY <1>1
<1>3. SumFunctionOnSet(g, ChargedTo(u)) = SumFunctionOnSet(f, ChargedTo(u))
  <2> HIDE DEF f, g
  <2> QED
    BY <1>1, <1>2, SumCongruence
<1> QED
  BY <1>3

\* The sum of a user's charges is a natural number.
LEMMA ChargesType ==
    ASSUME PaymentTypeOK, LedgerInv, NEW u \in Users
    PROVE  SumFunctionOnSet([o \in Orders |-> payments[o].amount], ChargedTo(u)) \in Nat
<1> DEFINE f == [o \in Orders |-> payments[o].amount]
<1>1. IsFiniteSet(ChargedTo(u)) /\ ChargedTo(u) \subseteq Orders
  BY DEF LedgerInv, ChargedTo
<1>2. \A o \in ChargedTo(u) : f[o] \in Nat
  BY <1>1, AmountType
<1> HIDE DEF f
<1>3. SumFunctionOnSet(f, ChargedTo(u)) \in Nat
  BY <1>1, <1>2, SumIsNat
<1> QED
  BY <1>3 DEF f

\* A charge moves its amount from the wallet to the charges.
LEMMA ChargeIsAccounted ==
    ASSUME PaymentTypeOK, PaymentTypeOK', LedgerInv, TransportTypeOK, NEW o \in Orders, ChargePayment(o)
    PROVE  LedgerInv'
<1>1. PICK m \in Delivered("PROCESS_PAYMENT", o) :
         /\ CanPay(o, m.total)
         /\ wallets' = [wallets EXCEPT ![Customer[o]].balance = @ - m.total]
         /\ payments' = [payments EXCEPT ![o] = [status |-> "completed", amount |-> m.total]]
  BY DEF ChargePayment
<1>2. m.total \in Nat
  <2>1. m.total \in Totals \cup {0}
    BY DEF Delivered, TransportTypeOK, Message
  <2> QED
    BY <2>1, TotalType
<1>3. payments[o].status = "none" /\ UNCHANGED deposited
  BY DEF ChargePayment
<1> DEFINE c == Customer[o]
           f == [x \in Orders |-> payments[x].amount]
           g == [x \in Orders |-> payments'[x].amount]
<1>4. c \in Users
  BY PaymentAssumption
<1>5. /\ \A x \in Orders \ {o} : payments'[x] = payments[x]
      /\ payments'[o].status = "completed" /\ payments'[o].amount = m.total
  BY <1>1 DEF PaymentTypeOK
<1>6. /\ \A u \in Users \ {c} : wallets'[u] = wallets[u]
      /\ wallets'[c].balance = wallets[c].balance - m.total
      /\ wallets'[c].exists = wallets[c].exists
      /\ wallets[c].balance >= m.total /\ wallets[c].exists
  <2>1. wallets' = [wallets EXCEPT ![c] = [wallets[c] EXCEPT !.balance = wallets[c].balance - m.total]]
    BY <1>1
  <2>2. wallets \in [Users -> [exists : BOOLEAN, balance : Nat]]
    BY DEF PaymentTypeOK
  <2>3. wallets[c].balance >= m.total /\ wallets[c].exists
    BY <1>1 DEF CanPay
  <2> HIDE DEF c
  <2>4. \A u \in Users \ {c} : wallets'[u] = wallets[u]
    BY <2>1, <2>2
  <2>5. wallets'[c] = [wallets[c] EXCEPT !.balance = wallets[c].balance - m.total]
    BY <1>4, <2>1, <2>2
  <2>6. wallets[c] \in [exists : BOOLEAN, balance : Nat]
    BY <1>4, <2>2
  <2> QED
    BY <2>3, <2>4, <2>5, <2>6
<1>7. \A u \in Users \ {c} : ChargedTo(u)' = ChargedTo(u) /\ o \notin ChargedTo(u)
  BY <1>3, <1>5 DEF ChargedTo, Charged
<1>8. ChargedTo(c)' = ChargedTo(c) \cup {o} /\ o \notin ChargedTo(c)
  BY <1>3, <1>5 DEF ChargedTo, Charged
<1>9. \A u \in Users \ {c} : SumFunctionOnSet(g, ChargedTo(u)') = SumFunctionOnSet(f, ChargedTo(u))
  <2> SUFFICES ASSUME NEW u \in Users \ {c}
               PROVE  SumFunctionOnSet(g, ChargedTo(u)') = SumFunctionOnSet(f, ChargedTo(u))
    OBVIOUS
  <2>1. \A x \in ChargedTo(u) : payments'[x].amount = payments[x].amount
    BY <1>5, <1>7 DEF ChargedTo
  <2> QED
    BY <1>7, <2>1, WalletStays
<1>10. /\ IsFiniteSet(ChargedTo(c)')
       /\ SumFunctionOnSet(g, ChargedTo(c)') = m.total + SumFunctionOnSet(f, ChargedTo(c))
  <2>1. IsFiniteSet(ChargedTo(c)) /\ ChargedTo(c) \subseteq Orders
    BY <1>4 DEF LedgerInv, ChargedTo
  <2>2. \A x \in ChargedTo(c) : g[x] = f[x]
    BY <1>5, <1>8, <2>1
  <2>3. \A x \in ChargedTo(c) \cup {o} : g[x] \in Nat
    <3>1. \A x \in ChargedTo(c) : f[x] \in Nat
      BY <2>1, AmountType
    <3>2. g[o] \in Nat
      BY <1>2, <1>5
    <3> HIDE DEF f, g
    <3> QED
      BY <2>2, <3>1, <3>2
  <2>4. g[o] = m.total
    BY <1>5
  <2> HIDE DEF f, g, c
  <2>5. SumFunctionOnSet(g, ChargedTo(c)) = SumFunctionOnSet(f, ChargedTo(c))
    BY <2>1, <2>2, SumCongruence
  <2>6. /\ IsFiniteSet(ChargedTo(c) \cup {o})
        /\ SumFunctionOnSet(g, ChargedTo(c) \cup {o}) = g[o] + SumFunctionOnSet(g, ChargedTo(c))
    BY <1>8, <2>1, <2>3, SumWith
  <2> QED
    BY <1>8, <2>4, <2>5, <2>6
<1>11. /\ wallets[c].balance \in Nat /\ SumFunctionOnSet(f, ChargedTo(c)) \in Nat
       /\ wallets[c].balance + SumFunctionOnSet(f, ChargedTo(c)) = deposited[c]
  BY <1>4, ChargesType DEF LedgerInv, WalletAccounted, PaymentTypeOK
<1>12. \A u \in Users \ {c} :
          /\ ~wallets'[u].exists => deposited'[u] = 0
          /\ wallets'[u].balance + SumFunctionOnSet(g, ChargedTo(u)') = deposited'[u]
          /\ IsFiniteSet(ChargedTo(u)')
  BY <1>3, <1>6, <1>7, <1>9 DEF LedgerInv, WalletAccounted
<1>13. /\ ~wallets'[c].exists => deposited'[c] = 0
       /\ wallets'[c].balance + SumFunctionOnSet(g, ChargedTo(c)') = deposited'[c]
  <2> HIDE DEF f, g, c
  <2> QED
    BY <1>2, <1>3, <1>6, <1>10, <1>11
<1> QED
  BY <1>10, <1>12, <1>13 DEF LedgerInv, WalletAccounted

\* Every step keeps the wallets accounted for.
LEMMA LedgerStep == TypeOK /\ TypeOK' /\ LedgerInv /\ [Next]_vars => LedgerInv'
<1> SUFFICES ASSUME TypeOK, TypeOK', LedgerInv, [Next]_vars PROVE LedgerInv'
  OBVIOUS
<1>1. PaymentTypeOK /\ PaymentTypeOK' /\ TransportTypeOK
  BY DEF TypeOK
<1>2. CASE UNCHANGED <<payments, wallets, deposited>>
  BY <1>2 DEF LedgerInv, WalletAccounted, ChargedTo, Charged
<1>3. ASSUME NEW o \in Orders, DeclinePayment(o)
      PROVE  LedgerInv'
  <2>1. /\ payments[o].status = "none" /\ payments'[o].status = "pending"
        /\ \A x \in Orders \ {o} : payments'[x] = payments[x]
        /\ UNCHANGED <<wallets, deposited>>
    BY <1>1, <1>3 DEF DeclinePayment, PaymentTypeOK
  <2>2. \A u \in Users : ChargedTo(u)' = ChargedTo(u) /\ o \notin ChargedTo(u) /\ ChargedTo(u) \subseteq Orders
    BY <2>1 DEF ChargedTo, Charged
  <2>3. \A u \in Users : \A x \in ChargedTo(u) : payments'[x].amount = payments[x].amount
    BY <2>1, <2>2
  <2> QED
    BY <1>1, <2>1, <2>2, <2>3, WalletStays DEF LedgerInv, WalletAccounted
<1>4. ASSUME NEW u \in Users, UNCHANGED payments,
             \A v \in Users \ {u} : wallets'[v] = wallets[v] /\ deposited'[v] = deposited[v],
             wallets'[u].exists,
             wallets'[u].balance + SumFunctionOnSet([o \in Orders |-> payments[o].amount], ChargedTo(u)) = deposited'[u]
      PROVE  LedgerInv'
  BY <1>4 DEF LedgerInv, WalletAccounted, ChargedTo, Charged
<1>5. ASSUME NEW u \in Users, OpenWallet(u)
      PROVE  LedgerInv'
  <2> DEFINE sum == SumFunctionOnSet([o \in Orders |-> payments[o].amount], ChargedTo(u))
  <2>1. sum \in Nat /\ wallets[u].balance \in Nat /\ InitialBalance \in Nat
    BY <1>1, ChargesType, PaymentAssumption DEF PaymentTypeOK
  <2>2. wallets[u].balance + sum = 0
    BY <1>5 DEF OpenWallet, LedgerInv, WalletAccounted
  <2>3. /\ wallets'[u].exists /\ wallets'[u].balance = InitialBalance /\ deposited'[u] = InitialBalance
        /\ UNCHANGED payments
        /\ \A v \in Users \ {u} : wallets'[v] = wallets[v] /\ deposited'[v] = deposited[v]
    BY <1>1, <1>5 DEF OpenWallet, PaymentTypeOK
  <2>4. wallets'[u].balance + sum = deposited'[u]
    <3> HIDE DEF sum
    <3> QED
      BY <2>1, <2>2, <2>3
  <2> QED
    BY <1>4, <2>3, <2>4
<1>6. ASSUME NEW u \in Users, NEW amount \in TopUps, TopUp(u, amount)
      PROVE  LedgerInv'
  <2> DEFINE sum == SumFunctionOnSet([o \in Orders |-> payments[o].amount], ChargedTo(u))
  <2>1. sum \in Nat /\ wallets[u].balance \in Nat /\ amount \in Nat
    BY <1>1, ChargesType, PaymentAssumption DEF PaymentTypeOK
  <2>2. wallets[u].balance + sum = deposited[u]
    BY DEF LedgerInv, WalletAccounted
  <2>3. /\ wallets'[u].exists /\ wallets'[u].balance = wallets[u].balance + amount
        /\ deposited'[u] = deposited[u] + amount
        /\ UNCHANGED payments
        /\ \A v \in Users \ {u} : wallets'[v] = wallets[v] /\ deposited'[v] = deposited[v]
    BY <1>1, <1>6 DEF TopUp, PaymentTypeOK
  <2>4. wallets'[u].balance + sum = deposited'[u]
    <3> HIDE DEF sum
    <3> QED
      BY <2>1, <2>2, <2>3
  <2> QED
    BY <1>4, <2>3, <2>4
<1>7. CASE PaymentStep
  <2>1. ASSUME NEW o \in Orders, ProcessPaymentAgain(o)
        PROVE  LedgerInv'
    BY <1>2, <2>1 DEF ProcessPaymentAgain, paymentVars
  <2>2. ASSUME NEW o \in Orders, ChargePayment(o)
        PROVE  LedgerInv'
    BY <1>1, <2>2, ChargeIsAccounted
  <2> QED
    BY <1>3, <1>5, <1>6, <1>7, <2>1, <2>2 DEF PaymentStep, PaymentNext
<1>8. CASE OrderStep \/ ProductStep \/ OutboxStep \/ UNCHANGED vars
  BY <1>2, <1>8 DEF OrderStep, ProductStep, OutboxStep, vars, paymentVars
<1> QED
  BY <1>7, <1>8 DEF Next

\* No order is charged twice, no charge is lost and no wallet is opened twice,
\* whichever payment commands and registrations are redelivered.
THEOREM WalletTheorem == Spec => []WalletAccounted
<1>1. Init => LedgerInv
  <2> SUFFICES ASSUME Init PROVE LedgerInv
    OBVIOUS
  <2>1. \A u \in Users : deposited[u] = 0 /\ wallets[u].balance = 0 /\ ChargedTo(u) = {}
    BY DEF Init, PaymentInit, ChargedTo, Charged
  <2> DEFINE f == [o \in Orders |-> payments[o].amount]
  <2>2. SumFunctionOnSet(f, {}) = 0 /\ IsFiniteSet({})
    BY SumEmpty, FS_EmptySet
  <2>3. \A u \in Users : SumFunctionOnSet(f, ChargedTo(u)) = 0
    BY <2>1, <2>2
  <2>4. WalletAccounted
    <3> SUFFICES ASSUME NEW u \in Users
                 PROVE  /\ deposited[u] = 0
                        /\ wallets[u].balance + SumFunctionOnSet(f, ChargedTo(u)) = deposited[u]
      BY DEF WalletAccounted
    <3> HIDE DEF f
    <3> QED
      BY <2>1, <2>3
  <2> QED
    BY <2>1, <2>2, <2>4 DEF LedgerInv
<1>2. TypeOK /\ TypeOK' /\ LedgerInv /\ [Next]_vars => LedgerInv'
  BY LedgerStep
<1>3. LedgerInv => WalletAccounted
  BY DEF LedgerInv
<1> QED
  BY <1>1, <1>2, <1>3, SagaInvariant, PTL DEF Spec

\* The state of the stock.
ShelfInv == StockAccounted /\ IsFiniteSet(Holding) /\ IsFiniteSet(Refused)

\* What one order holds, and a sum of it, is a natural number.
LEMMA HeldType ==
    ASSUME IsFiniteSet(Holding), NEW p \in Products
    PROVE  /\ \A o \in Orders : [x \in Orders |-> Demand[x][Lines[x]][p]][o] \in Nat
           /\ Held(p) \in Nat
<1> DEFINE h == [x \in Orders |-> Demand[x][Lines[x]][p]]
<1>1. \A o \in Orders : h[o] \in Nat
  BY DemandType, LinesType
<1>2. Holding \subseteq Orders
  BY DEF Holding
<1>3. SumFunctionOnSet(h, Holding) \in Nat
  <2> HIDE DEF h
  <2> QED
    BY <1>1, <1>2, SumIsNat
<1> QED
  BY <1>1, <1>3 DEF Held

\* The same for what the refused orders have kept.
LEMMA KeptType ==
    ASSUME IsFiniteSet(Refused), NEW f \in Prefixes, NEW p \in Products
    PROVE  /\ \A o \in Refused : [x \in Refused |-> Demand[x][f[x]][p]][o] \in Nat
           /\ Kept(f, p) \in Nat
<1> DEFINE k == [x \in Refused |-> Demand[x][f[x]][p]]
<1>1. \A o \in Refused : k[o] \in Nat
  <2> SUFFICES ASSUME NEW o \in Refused PROVE Demand[o][f[o]][p] \in Nat
    OBVIOUS
  <2>1. o \in Orders /\ Lines[o] \in Nat
    BY ProductAssumption DEF Refused
  <2>2. f[o] \in Nat
    <3>1. PICK x \in Orders : f[o] \in 0..(Lines[x] - 1)
      BY DEF Prefixes
    <3> QED
      BY <3>1
  <2>3. f[o] < Lines[o]
    BY DEF Prefixes
  <2> QED
    BY <2>1, <2>2, <2>3, DemandType
<1>2. SumFunctionOnSet(k, Refused) \in Nat
  <2> HIDE DEF k
  <2> QED
    BY <1>1, SumIsNat
<1> QED
  BY <1>1, <1>2 DEF Kept

\* A successful reservation moves units from the shelf to the reservations.
LEMMA ReserveIsAccounted ==
    ASSUME ProductTypeOK, ParticipantsInOrder, ShelfInv, NEW o \in Orders, ReserveStock(o)
    PROVE  ShelfInv'
<1>1. /\ reserveReply[o].topic = "none" /\ reserveReply'[o].topic = "STOCK_RESERVED"
      /\ \A x \in Orders \ {o} : reserveReply'[x] = reserveReply[x]
      /\ UNCHANGED releaseReply
      /\ \A p \in Products : stock'[p] = stock[p] - Demand[o][Lines[o]][p]
  BY DEF ReserveStock, Take, ProductTypeOK
<1>2. releaseReply[o] = "none"
  BY <1>1 DEF ParticipantsInOrder, Reserved
<1>3. Refused' = Refused
  BY <1>1 DEF Refused
<1>4. Holding' = Holding \cup {o} /\ o \notin Holding /\ Holding \subseteq Orders
  BY <1>1, <1>2 DEF Holding, Reserved
<1>5. IsFiniteSet(Holding) /\ IsFiniteSet(Holding')
  BY <1>4, FS_AddElement DEF ShelfInv
<1>6. \A p \in Products : Held(p)' = Demand[o][Lines[o]][p] + Held(p)
  <2> SUFFICES ASSUME NEW p \in Products
               PROVE  Held(p)' = Demand[o][Lines[o]][p] + Held(p)
    OBVIOUS
  <2> DEFINE h == [x \in Orders |-> Demand[x][Lines[x]][p]]
  <2>1. Held(p)' = SumFunctionOnSet(h, Holding \cup {o}) /\ Held(p) = SumFunctionOnSet(h, Holding)
    BY <1>4 DEF Held
  <2>2. \A x \in Orders : h[x] \in Nat
    BY <1>5, HeldType
  <2>3. h[o] = Demand[o][Lines[o]][p]
    OBVIOUS
  <2> HIDE DEF h
  <2>4. \A x \in Holding \cup {o} : h[x] \in Nat
    BY <1>4, <2>2
  <2>5. SumFunctionOnSet(h, Holding \cup {o}) = h[o] + SumFunctionOnSet(h, Holding)
    BY <1>4, <1>5, <2>4, SumWith
  <2> QED
    BY <2>1, <2>3, <2>5
<1>7. PICK f \in Prefixes : \A p \in Products : stock[p] + Held(p) + Kept(f, p) = InitStock[p]
  BY DEF ShelfInv, StockAccounted
<1>8. f \in Prefixes' /\ \A p \in Products : Kept(f, p)' = Kept(f, p)
  BY <1>3 DEF Prefixes, Kept
<1>9. ASSUME NEW p \in Products
      PROVE  stock'[p] + Held(p)' + Kept(f, p)' = InitStock[p]
  <2>1. Held(p) \in Nat /\ Kept(f, p) \in Nat
    BY <1>5, HeldType, KeptType DEF ShelfInv
  <2>2. Demand[o][Lines[o]][p] \in Nat
    BY DemandType, LinesType
  <2>3. stock[p] \in Nat
    BY DEF ProductTypeOK
  <2> QED
    BY <1>1, <1>6, <1>7, <1>8, <2>1, <2>2, <2>3
<1> QED
  BY <1>3, <1>5, <1>8, <1>9 DEF ShelfInv, StockAccounted

\* A refusal moves the lines before the failing one to what is kept.
LEMMA RefuseIsAccounted ==
    ASSUME ProductTypeOK, ShelfInv, NEW o \in Orders, RefuseStock(o)
    PROVE  ShelfInv'
<1>1. PICK n \in 0..(Lines[o] - 1) : Take(o, n)
  BY DEF RefuseStock
<1>2. /\ reserveReply[o].topic = "none" /\ reserveReply'[o].topic = "STOCK_RESERVATION_FAILED"
      /\ \A x \in Orders \ {o} : reserveReply'[x] = reserveReply[x]
      /\ UNCHANGED releaseReply
      /\ \A p \in Products : stock'[p] = stock[p] - Demand[o][n][p]
  BY <1>1 DEF RefuseStock, Take, ProductTypeOK
<1>3. Holding' = Holding /\ \A p \in Products : Held(p)' = Held(p)
  BY <1>2 DEF Holding, Reserved, Held
<1>4. Refused' = Refused \cup {o} /\ o \notin Refused /\ Refused \subseteq Orders
  BY <1>2 DEF Refused
<1>5. IsFiniteSet(Refused) /\ IsFiniteSet(Refused')
  BY <1>4, FS_AddElement DEF ShelfInv
<1>6. PICK f \in Prefixes : \A p \in Products : stock[p] + Held(p) + Kept(f, p) = InitStock[p]
  BY DEF ShelfInv, StockAccounted
<1>7. PICK g : g = [x \in Refused \cup {o} |-> IF x = o THEN n ELSE f[x]]
  OBVIOUS
<1>8. g \in Prefixes'
  <2> DEFINE N == UNION {0..(Lines[x] - 1) : x \in Orders}
  <2>1. f \in [Refused -> N] /\ \A x \in Refused : f[x] < Lines[x]
    BY DEF Prefixes
  <2>2. n \in N
    BY <1>1
  <2>3. n < Lines[o]
    BY <1>1, ProductAssumption
  <2> HIDE DEF N
  <2>4. g \in [Refused \cup {o} -> N] /\ \A x \in Refused \cup {o} : g[x] < Lines[x]
    BY <1>4, <1>7, <2>1, <2>2, <2>3
  <2> QED
    BY <1>4, <2>4 DEF Prefixes, N
<1>9. \A p \in Products : Kept(g, p)' = Demand[o][n][p] + Kept(f, p)
  <2> SUFFICES ASSUME NEW p \in Products
               PROVE  Kept(g, p)' = Demand[o][n][p] + Kept(f, p)
    OBVIOUS
  <2> DEFINE k == [x \in Refused |-> Demand[x][f[x]][p]]
             l == [x \in Refused \cup {o} |-> Demand[x][g[x]][p]]
  <2>1. Kept(g, p)' = SumFunctionOnSet(l, Refused \cup {o}) /\ Kept(f, p) = SumFunctionOnSet(k, Refused)
    BY <1>4 DEF Kept
  <2>2. \A x \in Refused : k[x] \in Nat
    BY <1>5, KeptType
  <2>3. \A x \in Refused : l[x] = k[x]
    BY <1>4, <1>7
  <2>4. l[o] = Demand[o][n][p] /\ l[o] \in Nat
    BY <1>1, <1>7, DemandType, LinesType
  <2> HIDE DEF k, l
  <2>5. SumFunctionOnSet(l, Refused) = SumFunctionOnSet(k, Refused)
    BY <1>5, <2>3, SumCongruence
  <2>6. \A x \in Refused \cup {o} : l[x] \in Nat
    BY <2>2, <2>3, <2>4
  <2>7. SumFunctionOnSet(l, Refused \cup {o}) = l[o] + SumFunctionOnSet(l, Refused)
    BY <1>4, <1>5, <2>6, SumWith
  <2> QED
    BY <2>1, <2>4, <2>5, <2>7
<1>10. ASSUME NEW p \in Products
      PROVE  stock'[p] + Held(p)' + Kept(g, p)' = InitStock[p]
  <2>1. Held(p) \in Nat /\ Kept(f, p) \in Nat
    BY <1>5, HeldType, KeptType DEF ShelfInv
  <2>2. Demand[o][n][p] \in Nat
    BY <1>1, DemandType, LinesType
  <2>3. stock[p] \in Nat
    BY DEF ProductTypeOK
  <2> QED
    BY <1>2, <1>3, <1>6, <1>9, <2>1, <2>2, <2>3
<1>11. StockAccounted'
  BY <1>8, <1>10 DEF StockAccounted
<1> QED
  BY <1>3, <1>5, <1>11 DEF ShelfInv

\* A compensation moves a reservation back to the shelf.
LEMMA ReleaseIsAccounted ==
    ASSUME ProductTypeOK, SagaInv, ShelfInv, NEW o \in Orders, ReleaseStock(o)
    PROVE  ShelfInv'
<1>1. /\ releaseReply[o] = "none" /\ releaseReply'[o] = "STOCK_RELEASED"
      /\ \A x \in Orders \ {o} : releaseReply'[x] = releaseReply[x]
      /\ UNCHANGED reserveReply
      /\ \A p \in Products : stock'[p] = stock[p] + Demand[o][Lines[o]][p]
  BY DEF ReleaseStock, ProductTypeOK
<1>2. Reserved(o)
  <2>1. payReply[o] = "PAYMENT_FAILED"
    BY DeliveredIsTrue DEF ReleaseStock
  <2> QED
    BY <2>1 DEF SagaInv, ParticipantsInOrder
<1>3. Refused' = Refused
  BY <1>1 DEF Refused
<1>4. Holding' = Holding \ {o} /\ o \in Holding /\ Holding \subseteq Orders
  BY <1>1, <1>2 DEF Holding, Reserved
<1>5. IsFiniteSet(Holding) /\ IsFiniteSet(Holding')
  BY <1>4, FS_Subset DEF ShelfInv
<1>6. \A p \in Products : Held(p)' \in Nat /\ Held(p) = Demand[o][Lines[o]][p] + Held(p)'
  <2> SUFFICES ASSUME NEW p \in Products
               PROVE  Held(p)' \in Nat /\ Held(p) = Demand[o][Lines[o]][p] + Held(p)'
    OBVIOUS
  <2> DEFINE h == [x \in Orders |-> Demand[x][Lines[x]][p]]
  <2>1. Held(p)' = SumFunctionOnSet(h, Holding \ {o}) /\ Held(p) = SumFunctionOnSet(h, Holding)
    BY <1>4 DEF Held
  <2>2. \A x \in Orders : h[x] \in Nat
    BY <1>5, HeldType
  <2>3. h[o] = Demand[o][Lines[o]][p]
    OBVIOUS
  <2> HIDE DEF h
  <2>4. \A x \in Holding : h[x] \in Nat
    BY <1>4, <2>2
  <2>5. SumFunctionOnSet(h, Holding) = h[o] + SumFunctionOnSet(h, Holding \ {o})
    BY <1>4, <1>5, <2>4, SumWithout
  <2>6. SumFunctionOnSet(h, Holding \ {o}) \in Nat
    <3>1. IsFiniteSet(Holding \ {o}) /\ \A x \in Holding \ {o} : h[x] \in Nat
      BY <1>4, <1>5, <2>4
    <3> QED
      BY <3>1, SumIsNat
  <2> QED
    BY <2>1, <2>3, <2>5, <2>6
<1>7. PICK f \in Prefixes : \A p \in Products : stock[p] + Held(p) + Kept(f, p) = InitStock[p]
  BY DEF ShelfInv, StockAccounted
<1>8. f \in Prefixes' /\ \A p \in Products : Kept(f, p)' = Kept(f, p)
  BY <1>3 DEF Prefixes, Kept
<1>9. ASSUME NEW p \in Products
      PROVE  stock'[p] + Held(p)' + Kept(f, p)' = InitStock[p]
  <2>1. Held(p)' \in Nat /\ Kept(f, p) \in Nat
    BY <1>6, KeptType DEF ShelfInv
  <2>2. Demand[o][Lines[o]][p] \in Nat
    BY DemandType, LinesType
  <2>3. stock[p] \in Nat
    BY DEF ProductTypeOK
  <2> QED
    BY <1>1, <1>6, <1>7, <1>8, <2>1, <2>2, <2>3
<1> QED
  BY <1>3, <1>5, <1>8, <1>9 DEF ShelfInv, StockAccounted

\* Every step keeps the stock accounted for.
LEMMA ShelfStep == TypeOK /\ SagaInv /\ ShelfInv /\ [Next]_vars => ShelfInv'
<1> SUFFICES ASSUME TypeOK, SagaInv, ShelfInv, [Next]_vars PROVE ShelfInv'
  OBVIOUS
<1>1. ProductTypeOK /\ ParticipantsInOrder
  BY DEF TypeOK, SagaInv
<1>2. CASE UNCHANGED productVars
  BY <1>2 DEF productVars, ShelfInv, StockAccounted, Holding, Refused, Reserved, Held, Kept, Prefixes
<1>3. CASE ProductStep
  <2>1. PICK o \in Orders :
           \/ ReserveStockAgain(o) \/ ReserveStock(o) \/ RefuseStock(o)
           \/ ReleaseStockAgain(o) \/ ReleaseStock(o)
    BY <1>3 DEF ProductStep, ProductNext
  <2>2. CASE ReserveStockAgain(o) \/ ReleaseStockAgain(o)
    BY <1>2, <2>2 DEF ReserveStockAgain, ReleaseStockAgain
  <2> QED
    BY <1>1, <2>1, <2>2, ReserveIsAccounted, RefuseIsAccounted, ReleaseIsAccounted
<1>4. CASE OrderStep \/ PaymentStep \/ OutboxStep \/ UNCHANGED vars
  BY <1>2, <1>4 DEF OrderStep, PaymentStep, OutboxStep, vars
<1> QED
  BY <1>3, <1>4 DEF Next

\* No unit is taken twice, returned twice or lost, whichever commands are
\* redelivered or retried: a missing unit is in a reservation, or in the
\* leading lines of a refused order.
THEOREM StockTheorem == Spec => []StockAccounted
<1>1. Init => ShelfInv
  <2> SUFFICES ASSUME Init PROVE ShelfInv
    OBVIOUS
  <2>1. Holding = {} /\ Refused = {}
    BY DEF Init, ProductInit, Holding, Refused, Reserved, NoReply
  <2>2. IsFiniteSet({})
    BY FS_EmptySet
  <2> DEFINE f == [o \in {} |-> 0]
  <2>3. f \in Prefixes
    BY <2>1 DEF Prefixes
  <2>4. \A p \in Products : Held(p) = 0 /\ Kept(f, p) = 0
    BY <2>1, SumEmpty DEF Held, Kept
  <2>5. \A p \in Products : stock[p] = InitStock[p] /\ stock[p] \in Nat
    BY ProductAssumption DEF Init, ProductInit
  <2> HIDE DEF f
  <2> QED
    BY <2>1, <2>2, <2>3, <2>4, <2>5 DEF ShelfInv, StockAccounted
<1>2. TypeOK /\ SagaInv /\ ShelfInv /\ [Next]_vars => ShelfInv'
  BY ShelfStep
<1>3. ShelfInv => StockAccounted
  BY DEF ShelfInv
<1> QED
  BY <1>1, <1>2, <1>3, SagaInvariant, PTL DEF Spec

\* The tables, the outboxes and the topic logs stay well typed: no handler
\* writes a message or a row that the others do not expect.
THEOREM SagaTypes == Spec => []TypeOK
BY SagaInvariant, PTL

=============================================================================
