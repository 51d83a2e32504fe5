--------------------------- MODULE MCSlabIteration ---------------------------
(* Instances of SlabIteration for TLC                                       *)
EXTENDS SlabIteration

AllOrders == {f \in [Positions -> Positions] : Permutation(f)}
=============================================================================
