-------------------------- MODULE MCProductCatalog --------------------------
(* Instances of ProductCatalog for TLC. *)
EXTENDS ProductCatalog, TLC

CONSTANT p1

\* The order and the client name the product twice, on two lines.
TwoLines == [c \in Calls |-> <<p1, p1>>]

=============================================================================
