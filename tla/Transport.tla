----------------------------- MODULE Transport -----------------------------
(***************************************************************************)
(* What the services of the order saga share: the messages on the Kafka    *)
(* topics, the transactional outbox each service keeps in its database and *)
(* the topics themselves.                                                  *)
(*                                                                         *)
(* A handler writes its outgoing messages to its service's outbox in the   *)
(* transaction that changes its tables.  The outbox processor publishes a  *)
(* row and marks it PUBLISHED inside a second transaction, so a message    *)
(* may be published and the mark rolled back (published again later), and  *)
(* a row that failed OUTBOX_MAX_RETRIES times is marked FAILED and never   *)
(* published.  Rows are modelled as the set of messages still PENDING: two *)
(* rows with the same message are one element, since publishing one of     *)
(* them is what PublishRolledBack does.                                    *)
(*                                                                         *)
(* log is the set of messages ever published.  Kafka's at-least-once       *)
(* delivery lets a consumer meet a message again after a rebalance or a    *)
(* restart, in another order than it was sent, or (after the dead-letter   *)
(* path of kafka.consumer.service.ts) never: a handler is enabled by any   *)
(* message of log, at any time, any number of times.                       *)
(***************************************************************************)
EXTENDS Naturals

CONSTANTS Orders,       \* order ids
          Totals,       \* the amounts a successful reservation may be priced at
          RowsMayFail   \* the broker may be away for OUTBOX_MAX_RETRIES attempts

ASSUME TotalsAssumption == Totals \subseteq Nat
ASSUME RowsAssumption == RowsMayFail \in BOOLEAN

VARIABLES outbox,   \* outbox[s]: the PENDING rows of service s
          log       \* every message published so far

transportVars == <<outbox, log>>

Services == {"order", "product", "payment"}

Topics == {"RESERVE_STOCK", "RELEASE_STOCK", "PROCESS_PAYMENT",
           "STOCK_RESERVED", "STOCK_RESERVATION_FAILED", "STOCK_RELEASED",
           "PAYMENT_PROCESSED", "PAYMENT_FAILED",
           "ORDER_CONFIRMED", "ORDER_CANCELLED"}

\* total is the amount of STOCK_RESERVED, PROCESS_PAYMENT and ORDER_CONFIRMED,
\* and 0 in the other messages.  The commandId of a command is a function of
\* its topic and its order (saga.id, saga.id-pay, saga.id-release; one saga
\* per order), so it needs no field.
Message == [topic : Topics, order : Orders, total : Totals \cup {0}]

Msg(topic, o, total) == [topic |-> topic, order |-> o, total |-> total]

TransportTypeOK ==
    /\ outbox \in [Services -> SUBSET Message]
    /\ log \in SUBSET Message

TransportInit ==
    /\ outbox = [s \in Services |-> {}]
    /\ log = {}

\* Write row m to the outbox of service s, in the caller's transaction.
Write(s, m) == outbox' = [outbox EXCEPT ![s] = @ \cup {m}]

\* Message m has been written by some service, published or not.
Sent == log \cup UNION {outbox[s] : s \in Services}

\* The consumer of m's topic is handed m: its first delivery or a later one.
Delivered(topic, o) == {m \in log : m.topic = topic /\ m.order = o}

-----------------------------------------------------------------------------

\* processPending, a row that goes well: published, marked, committed.
PublishRow(s, m) ==
    /\ m \in outbox[s]
    /\ log' = log \cup {m}
    /\ outbox' = [outbox EXCEPT ![s] = @ \ {m}]

\* processPending, published, and the transaction that holds the mark rolled
\* back (a crash, a failing commit): the row is PENDING again.
PublishRolledBack(s, m) ==
    /\ m \in outbox[s]
    /\ log' = log \cup {m}
    /\ UNCHANGED outbox

\* processPending, the last of OUTBOX_MAX_RETRIES failed attempts: the row is
\* FAILED and no tick selects it again.
PermanentlyFail(s, m) ==
    /\ RowsMayFail
    /\ m \in outbox[s]
    /\ outbox' = [outbox EXCEPT ![s] = @ \ {m}]
    /\ UNCHANGED log

ProcessPending ==
    \E s \in Services : \E m \in outbox[s] :
        \/ PublishRow(s, m)
        \/ PublishRolledBack(s, m)
        \/ PermanentlyFail(s, m)

=============================================================================
