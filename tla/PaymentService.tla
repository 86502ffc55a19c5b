--------------------------- MODULE PaymentService ---------------------------
(***************************************************************************)
(* payment-service: the payments and user_wallets tables, the idempotency  *)
(* table, the handler of the PROCESS_PAYMENT command, the consumer of      *)
(* USER_REGISTERED that opens wallets, and the top-up endpoint.            *)
(*                                                                         *)
(* Each handler is one transaction; deduct and topUp lock the wallet row.  *)
(***************************************************************************)
EXTENDS Transport

CONSTANTS Users,           \* user ids
          Customer,        \* Customer[o]: the user who placed order o
          InitialBalance,  \* what a wallet opened at registration holds
          TopUps,          \* the amounts an admin may add
          MaxDeposit       \* bound on the money put into one wallet

ASSUME PaymentAssumption ==
    /\ Customer \in [Orders -> Users]
    /\ InitialBalance \in Nat
    /\ TopUps \subseteq Nat \ {0}
    /\ MaxDeposit \in Nat

VARIABLES payments,   \* payments[o]: the row of order o (unique orderId)
          wallets,    \* wallets[u]: whether the row exists, and its balance
          payReply,   \* idempotency row of order o's payment command
          deposited   \* history: money ever put into the wallet of user u

paymentVars == <<payments, wallets, payReply, deposited>>

PaymentTypeOK ==
    /\ payments \in [Orders -> [status : {"none", "pending", "completed"},
                                amount : Totals \cup {0}]]
    /\ wallets \in [Users -> [exists : BOOLEAN, balance : Nat]]
    /\ payReply \in [Orders -> {"none", "PAYMENT_PROCESSED", "PAYMENT_FAILED"}]
    /\ deposited \in [Users -> Nat]

PaymentInit ==
    /\ payments = [o \in Orders |-> [status |-> "none", amount |-> 0]]
    /\ wallets = [u \in Users |-> [exists |-> FALSE, balance |-> 0]]
    /\ payReply = [o \in Orders |-> "none"]
    /\ deposited = [u \in Users |-> 0]

-----------------------------------------------------------------------------

\* deduct finds the wallet and enough money in it.
CanPay(o, amount) ==
    /\ wallets[Customer[o]].exists
    /\ wallets[Customer[o]].balance >= amount

\* Slip: a duplicate is always answered with success.
ProcessPaymentAgainAsPaid(o) ==
    /\ Delivered("PROCESS_PAYMENT", o) # {}
    /\ payReply[o] # "none"
    /\ Write("payment", Msg("PAYMENT_PROCESSED", o, 0))
    /\ UNCHANGED <<paymentVars, log>>

\* A command that was handled before: its stored reply is queued again.
ProcessPaymentAgain(o) ==
    /\ Delivered("PROCESS_PAYMENT", o) # {}
    /\ payReply[o] # "none"
    /\ Write("payment", Msg(payReply[o], o, 0))
    /\ UNCHANGED <<paymentVars, log>>

\* The insert of the payment row would violate the unique orderId if there
\* were one already, and roll everything back.
ChargePayment(o) ==
    /\ payReply[o] = "none"
    /\ payments[o].status = "none"
    /\ \E m \in Delivered("PROCESS_PAYMENT", o) :
          /\ CanPay(o, m.total)
          /\ wallets' = [wallets EXCEPT ![Customer[o]].balance = @ - m.total]
          /\ payments' = [payments EXCEPT ![o] = [status |-> "completed", amount |-> m.total]]
    /\ payReply' = [payReply EXCEPT ![o] = "PAYMENT_PROCESSED"]
    /\ Write("payment", Msg("PAYMENT_PROCESSED", o, 0))
    /\ UNCHANGED <<deposited, log>>

\* InsufficientFundsError is caught inside the transaction: the payment row
\* inserted before the deduction is committed with its status PENDING.
DeclinePayment(o) ==
    /\ payReply[o] = "none"
    /\ payments[o].status = "none"
    /\ \E m \in Delivered("PROCESS_PAYMENT", o) :
          /\ ~CanPay(o, m.total)
          /\ payments' = [payments EXCEPT ![o] = [status |-> "pending", amount |-> m.total]]
    /\ payReply' = [payReply EXCEPT ![o] = "PAYMENT_FAILED"]
    /\ Write("payment", Msg("PAYMENT_FAILED", o, 0))
    /\ UNCHANGED <<wallets, deposited, log>>

\* Slip: the wallet is upserted, whether or not a top-up created it before.
OpenWalletUpserting(u) ==
    /\ deposited[u] + InitialBalance <= MaxDeposit
    /\ wallets' = [wallets EXCEPT ![u] = [exists |-> TRUE, balance |-> InitialBalance]]
    /\ deposited' = [deposited EXCEPT ![u] = @ + InitialBalance]
    /\ UNCHANGED <<payments, payReply, transportVars>>

\* USER_REGISTERED, delivered for the first time or again; findOrCreate
\* leaves a wallet that exists as it is.
OpenWallet(u) ==
    /\ ~wallets[u].exists
    /\ wallets' = [wallets EXCEPT ![u] = [exists |-> TRUE, balance |-> InitialBalance]]
    /\ deposited' = [deposited EXCEPT ![u] = InitialBalance]
    /\ UNCHANGED <<payments, payReply, transportVars>>

\* POST /wallets/:userId/top-up (admins only); a missing wallet is created with the amount.
TopUp(u, amount) ==
    /\ deposited[u] + amount <= MaxDeposit
    /\ wallets' = [wallets EXCEPT ![u] = [exists |-> TRUE, balance |-> @.balance + amount]]
    /\ deposited' = [deposited EXCEPT ![u] = @ + amount]
    /\ UNCHANGED <<payments, payReply, transportVars>>

PaymentNext ==
    \/ \E o \in Orders : ProcessPaymentAgain(o) \/ ChargePayment(o) \/ DeclinePayment(o)
    \/ \E u \in Users : OpenWallet(u) \/ \E amount \in TopUps : TopUp(u, amount)

=============================================================================
