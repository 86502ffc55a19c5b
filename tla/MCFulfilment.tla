---------------------------- MODULE MCFulfilment ----------------------------
(* Instances of Fulfilment for TLC. *)
EXTENDS Fulfilment, TLC

\* Orders and workers are interchangeable.
MCSymmetry == Permutations(Orders) \cup Permutations(Workers)

=============================================================================
