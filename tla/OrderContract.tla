---------------------------- MODULE OrderContract ----------------------------
(***************************************************************************)
(* What the shop promises about one order, whatever the services do to     *)
(* keep the promise: the goods are set aside at an agreed price, that      *)
(* price is charged at most once and only for goods that are set aside,    *)
(* goods go back on the shelf only when the charge was declined, and the   *)
(* verdict the customer is told is given once and is final: confirmed when *)
(* the goods are held and paid for, cancelled when neither is the case.    *)
(* An order may stay open for ever.                                        *)
(***************************************************************************)
EXTENDS Naturals

CONSTANTS Orders, Totals

VARIABLES goods,    \* "shelf", "held", "refused" or "returned"
          money,    \* "unpaid", "paid" or "declined"
          price,    \* the agreed price, 0 before the goods are held
          paid,     \* what the customer was charged
          verdict   \* "open", "confirmed" or "cancelled"

contractVars == <<goods, money, price, paid, verdict>>

Init ==
    /\ goods = [o \in Orders |-> "shelf"]
    /\ money = [o \in Orders |-> "unpaid"]
    /\ price = [o \in Orders |-> 0]
    /\ paid = [o \in Orders |-> 0]
    /\ verdict = [o \in Orders |-> "open"]

Hold(o) ==
    /\ verdict[o] = "open" /\ goods[o] = "shelf"
    /\ goods' = [goods EXCEPT ![o] = "held"]
    /\ \E total \in Totals : price' = [price EXCEPT ![o] = total]
    /\ UNCHANGED <<money, paid, verdict>>

Refuse(o) ==
    /\ verdict[o] = "open" /\ goods[o] = "shelf"
    /\ goods' = [goods EXCEPT ![o] = "refused"]
    /\ UNCHANGED <<money, price, paid, verdict>>

Charge(o) ==
    /\ verdict[o] = "open" /\ goods[o] = "held" /\ money[o] = "unpaid"
    /\ money' = [money EXCEPT ![o] = "paid"]
    /\ paid' = [paid EXCEPT ![o] = price[o]]
    /\ UNCHANGED <<goods, price, verdict>>

Decline(o) ==
    /\ verdict[o] = "open" /\ goods[o] = "held" /\ money[o] = "unpaid"
    /\ money' = [money EXCEPT ![o] = "declined"]
    /\ UNCHANGED <<goods, price, paid, verdict>>

Return(o) ==
    /\ verdict[o] = "open" /\ goods[o] = "held" /\ money[o] = "declined"
    /\ goods' = [goods EXCEPT ![o] = "returned"]
    /\ UNCHANGED <<money, price, paid, verdict>>

Confirm(o) ==
    /\ verdict[o] = "open" /\ goods[o] = "held" /\ money[o] = "paid"
    /\ verdict' = [verdict EXCEPT ![o] = "confirmed"]
    /\ UNCHANGED <<goods, money, price, paid>>

Cancel(o) ==
    /\ verdict[o] = "open" /\ goods[o] \in {"refused", "returned"}
    /\ verdict' = [verdict EXCEPT ![o] = "cancelled"]
    /\ UNCHANGED <<goods, money, price, paid>>

Next ==
    \E o \in Orders :
        \/ Hold(o) \/ Refuse(o) \/ Charge(o) \/ Decline(o)
        \/ Return(o) \/ Confirm(o) \/ Cancel(o)

Spec == Init /\ [][Next]_contractVars

=============================================================================
