----------------------------- MODULE MCOrderSaga -----------------------------
(***************************************************************************)
(* Instances of OrderSaga for TLC.                                         *)
(***************************************************************************)
EXTENDS OrderSagaClaims, Sequences, TLC

CONSTANTS o1, o2, p1, p2, u1

\* Running totals of a list of lines <<product, quantity>>.
RunningTotals(lines) ==
    LET totals[n \in 0..Len(lines)] ==
            IF n = 0 THEN [p \in Products |-> 0]
            ELSE [totals[n - 1] EXCEPT ![lines[n][1]] = @ + lines[n][2]]
    IN totals

MCDemand(items) == [o \in Orders |-> RunningTotals(items[o])]
MCLines(items) == [o \in Orders |-> Len(items[o])]

\* One order, a product in two of its lines, and stock for it.
OneOrder == o1 :> <<<<p1, 1>>, <<p2, 1>>, <<p1, 1>>>>
OneOrderLines == MCLines(OneOrder)
OneOrderDemand == MCDemand(OneOrder)
OneOrderStock == p1 :> 2 @@ p2 :> 1
OneOrderCustomer == o1 :> u1

\* Two orders of one customer for the last unit of p2: whichever comes second
\* is refused at its second line.
TwoOrders == o1 :> <<<<p1, 1>>, <<p2, 1>>>> @@ o2 :> <<<<p1, 1>>, <<p2, 1>>>>
TwoOrdersLines == MCLines(TwoOrders)
TwoOrdersDemand == MCDemand(TwoOrders)
TwoOrdersStock == p1 :> 2 @@ p2 :> 1
TwoOrdersCustomer == o1 :> u1 @@ o2 :> u1

\* Two orders of which p1 serves one, and p2 is sold out: the first is refused at
\* its second line and keeps its first, for which the other is refused.
Rivals == o1 :> <<<<p1, 1>>, <<p2, 1>>>> @@ o2 :> <<<<p1, 2>>, <<p2, 1>>>>
RivalsLines == MCLines(Rivals)
RivalsDemand == MCDemand(Rivals)
RivalsStock == p1 :> 2 @@ p2 :> 0

=============================================================================
