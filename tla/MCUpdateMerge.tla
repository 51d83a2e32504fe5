--------------------------- MODULE MCUpdateMerge ---------------------------
(* An RRset of three records, sorted in any order.                          *)
EXTENDS UpdateMerge

AllOrders == {o \in [1..3 -> 1..3] : \A a, b \in 1..3 : o[a] = o[b] => a = b}
=============================================================================
