---------------------------- MODULE StockContract ----------------------------
(***************************************************************************)
(* What product-service promises the callers of reserveStock and           *)
(* releaseStock: each call takes effect at one moment, as if nobody else   *)
(* were there.  A reservation takes all its lines from products that are   *)
(* on sale and have the stock.  If a line cannot be served, an order keeps *)
(* what its lines before that one took; a client keeps nothing, and fails  *)
(* for other reasons too.  The stock changes by these steps and by the     *)
(* admins' only.  This is how ProductService models the saga's handlers.   *)
(***************************************************************************)
EXTENDS Naturals

CONSTANTS Products,
          Orders,
          Clients,
          Lines,   \* Lines[c]: number of lines of order or client c
          Demand   \* Demand[c][n][p]: units of p in the first n lines of c

VARIABLES shelf,    \* shelf[p]: stock and isActive
          outcome,  \* outcome[c]: "open", "reserved", "refused", "failed" or "released"
          desk      \* the admins' requests, whatever they look like

stockVars == <<shelf, outcome, desk>>

Init ==
    /\ shelf = [p \in Products |-> [stock |-> 0, active |-> FALSE]]
    /\ outcome = [c \in Orders \cup Clients |-> "open"]

\* The first n lines of call c can be served.
Covered(c, n) ==
    \A p \in Products :
        Demand[c][n][p] > 0 => shelf[p].active /\ Demand[c][n][p] <= shelf[p].stock

Take(c, n) ==
    shelf' = [p \in Products |-> [shelf[p] EXCEPT !.stock = shelf[p].stock - Demand[c][n][p]]]

Reserve(c) ==
    /\ outcome[c] = "open"
    /\ Covered(c, Lines[c])
    /\ Take(c, Lines[c])
    /\ outcome' = [outcome EXCEPT ![c] = "reserved"]
    /\ UNCHANGED desk

\* Line n + 1 of an order cannot be served.
Refuse(o) ==
    /\ outcome[o] = "open"
    /\ \E n \in 0..(Lines[o] - 1) : Covered(o, n) /\ ~Covered(o, n + 1) /\ Take(o, n)
    /\ outcome' = [outcome EXCEPT ![o] = "refused"]
    /\ UNCHANGED desk

\* A client's reservation is refused or aborted.
Fail(c) ==
    /\ outcome[c] = "open"
    /\ outcome' = [outcome EXCEPT ![c] = "failed"]
    /\ UNCHANGED <<shelf, desk>>

Release(o) ==
    /\ outcome[o] = "reserved"
    /\ shelf' = [p \in Products |-> [shelf[p] EXCEPT !.stock = shelf[p].stock + Demand[o][Lines[o]][p]]]
    /\ outcome' = [outcome EXCEPT ![o] = "released"]
    /\ UNCHANGED desk

\* A request of an admin goes on; it may change one product.
Administer ==
    /\ desk' # desk
    /\ \/ UNCHANGED shelf
       \/ \E p \in Products :
             /\ shelf' \in [Products -> [stock : Nat, active : BOOLEAN]]
             /\ \A q \in Products \ {p} : shelf'[q] = shelf[q]
    /\ UNCHANGED outcome

Next ==
    \/ \E o \in Orders : Reserve(o) \/ Refuse(o) \/ Release(o)
    \/ \E c \in Clients : Reserve(c) \/ Fail(c)
    \/ Administer

Spec == Init /\ [][Next]_stockVars

=============================================================================
