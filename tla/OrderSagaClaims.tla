-------------------------- MODULE OrderSagaClaims --------------------------
(***************************************************************************)
(* What a test of the repository says of the order saga and its code does  *)
(* not do.  A run is expected to find the claim violated.                  *)
(***************************************************************************)
EXTENDS OrderSaga

\* products.integration-spec.ts:182: a reservation "rolls back all
\* reservations if any item fails".  handleReserveStock catches the error
\* inside the transaction and commits the lines taken before it.
RefusedOrderTakesNothing ==
    \A p \in Products :
        stock[p] + MapThenSumSet(LAMBDA o : Demand[o][Lines[o]][p],
                                 {o \in Orders : Reserved(o) /\ releaseReply[o] = "none"})
        = InitStock[p]

=============================================================================
