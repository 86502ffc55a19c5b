--------------------------- MODULE ProductService ---------------------------
(***************************************************************************)
(* product-service as a saga participant: the stock column of products,    *)
(* the idempotency table and the handlers of the RESERVE_STOCK and         *)
(* RELEASE_STOCK commands.                                                 *)
(*                                                                         *)
(* Each handler is one transaction; the stock rows are locked FOR UPDATE   *)
(* as they are read and the consumer handles one message at a time, so a   *)
(* handler is one action.  An idempotency row is the reply stored under    *)
(* the command's id, "none" before the command was handled.                *)
(*                                                                         *)
(* An order is a list of lines, each a product and a quantity, and a       *)
(* product may occur in several lines.  What the handlers do with it       *)
(* depends on the running totals only, so they are the parameter:          *)
(* Demand[o][n][p] is the quantity of p in the first n lines of order o.   *)
(***************************************************************************)
EXTENDS Transport

CONSTANTS Products,   \* product ids
          OnSale,     \* the products that exist and are active
          InitStock,  \* stock before the first order
          Lines,      \* Lines[o]: number of lines of order o, at least one
          Demand      \* Demand[o][n][p]: units of p in the first n lines of o

ASSUME ProductAssumption ==
    /\ OnSale \subseteq Products
    /\ InitStock \in [Products -> Nat]
    /\ Lines \in [Orders -> Nat \ {0}]
    /\ \A o \in Orders :
          /\ Demand[o] \in [0..Lines[o] -> [Products -> Nat]]
          /\ Demand[o][0] = [p \in Products |-> 0]
          /\ \A n \in 1..Lines[o] : \A p \in Products : Demand[o][n - 1][p] <= Demand[o][n][p]

VARIABLES stock,         \* stock[p]
          reserveReply,  \* idempotency row of order o's reserve command
          releaseReply   \* idempotency row of order o's release command

productVars == <<stock, reserveReply, releaseReply>>

NoReply == [topic |-> "none", total |-> 0]

ProductTypeOK ==
    /\ stock \in [Products -> Nat]
    /\ reserveReply \in [Orders ->
          [topic : {"none", "STOCK_RESERVED", "STOCK_RESERVATION_FAILED"},
           total : Totals \cup {0}]]
    /\ releaseReply \in [Orders -> {"none", "STOCK_RELEASED"}]

ProductInit ==
    /\ stock = InitStock
    /\ reserveReply = [o \in Orders |-> NoReply]
    /\ releaseReply = [o \in Orders |-> "none"]

-----------------------------------------------------------------------------

\* The loop of reserveStock gets through the first n lines of order o: each
\* product named so far is on sale and has the stock.  Running totals make
\* this the test the code does line by line against what is left.
Covered(o, n) ==
    \A p \in Products :
        Demand[o][n][p] > 0 => p \in OnSale /\ Demand[o][n][p] <= stock[p]

\* Take the first n lines of order o out of the stock.
Take(o, n) == stock' = [p \in Products |-> stock[p] - Demand[o][n][p]]

\* Slip: a duplicate is answered with a total computed anew.
ReserveStockRepriced(o) ==
    /\ Delivered("RESERVE_STOCK", o) # {}
    /\ reserveReply[o].topic = "STOCK_RESERVED"
    /\ \E total \in Totals : Write("product", Msg("STOCK_RESERVED", o, total))
    /\ UNCHANGED <<productVars, log>>

\* A command that was handled before: its stored reply is queued again.
ReserveStockAgain(o) ==
    /\ Delivered("RESERVE_STOCK", o) # {}
    /\ reserveReply[o].topic # "none"
    /\ Write("product", Msg(reserveReply[o].topic, o, reserveReply[o].total))
    /\ UNCHANGED <<productVars, log>>

\* All lines reserved.  The total is priced from the catalogue as it is now.
ReserveStock(o) ==
    /\ Delivered("RESERVE_STOCK", o) # {}
    /\ reserveReply[o].topic = "none"
    /\ Covered(o, Lines[o])
    /\ Take(o, Lines[o])
    /\ \E total \in Totals :
          /\ reserveReply' = [reserveReply EXCEPT ![o] = [topic |-> "STOCK_RESERVED", total |-> total]]
          /\ Write("product", Msg("STOCK_RESERVED", o, total))
    /\ UNCHANGED <<releaseReply, log>>

\* Slip: the failure reply is not looked up, and the command is tried again.
RefuseStockEachTime(o) ==
    /\ Delivered("RESERVE_STOCK", o) # {}
    /\ reserveReply[o].topic # "STOCK_RESERVED"
    /\ \E n \in 0..(Lines[o] - 1) :
          /\ Covered(o, n)
          /\ ~Covered(o, n + 1)
          /\ Take(o, n)
    /\ reserveReply' = [reserveReply EXCEPT ![o] = [topic |-> "STOCK_RESERVATION_FAILED", total |-> 0]]
    /\ Write("product", Msg("STOCK_RESERVATION_FAILED", o, 0))
    /\ UNCHANGED <<releaseReply, log>>

\* Line n + 1 cannot be served.  The error is caught inside the transaction,
\* which then commits the failure reply and the n lines taken before it.
RefuseStock(o) ==
    /\ Delivered("RESERVE_STOCK", o) # {}
    /\ reserveReply[o].topic = "none"
    /\ \E n \in 0..(Lines[o] - 1) :
          /\ Covered(o, n)
          /\ ~Covered(o, n + 1)
          /\ Take(o, n)
    /\ reserveReply' = [reserveReply EXCEPT ![o] = [topic |-> "STOCK_RESERVATION_FAILED", total |-> 0]]
    /\ Write("product", Msg("STOCK_RESERVATION_FAILED", o, 0))
    /\ UNCHANGED <<releaseReply, log>>

ReleaseStockAgain(o) ==
    /\ Delivered("RELEASE_STOCK", o) # {}
    /\ releaseReply[o] # "none"
    /\ Write("product", Msg(releaseReply[o], o, 0))
    /\ UNCHANGED <<productVars, log>>

\* Slip: the release command is not deduplicated.
ReleaseStockEachTime(o) ==
    /\ Delivered("RELEASE_STOCK", o) # {}
    /\ stock' = [p \in Products |-> stock[p] + Demand[o][Lines[o]][p]]
    /\ releaseReply' = [releaseReply EXCEPT ![o] = "STOCK_RELEASED"]
    /\ Write("product", Msg("STOCK_RELEASED", o, 0))
    /\ UNCHANGED <<reserveReply, log>>

\* Compensation: every line of the order is added back, active or not.
ReleaseStock(o) ==
    /\ Delivered("RELEASE_STOCK", o) # {}
    /\ releaseReply[o] = "none"
    /\ stock' = [p \in Products |-> stock[p] + Demand[o][Lines[o]][p]]
    /\ releaseReply' = [releaseReply EXCEPT ![o] = "STOCK_RELEASED"]
    /\ Write("product", Msg("STOCK_RELEASED", o, 0))
    /\ UNCHANGED <<reserveReply, log>>

ProductNext ==
    \E o \in Orders :
        \/ ReserveStockAgain(o)
        \/ ReserveStock(o)
        \/ RefuseStock(o)
        \/ ReleaseStockAgain(o)
        \/ ReleaseStock(o)

=============================================================================
