----------------------------- MODULE UpdateMerge -----------------------------
(***************************************************************************)
(* Dynamic updates of an RRset that the profiler is sorting.               *)
(*                                                                         *)
(* dns_rdataslab_merge runs under the node's lock, which the profiler does *)
(* not take: it holds a reference on the node and rewrites the slab it     *)
(* keeps.  The merge copies the records in physical order and reads each   *)
(* one's order field to find its slot in the new offset table;             *)
(* dns_rdataslab_sort_fromrdataset stores the same fields one record at a  *)
(* time.  Two updates, each adding one record, come one after the other;   *)
(* the second merges the slab the first one made, which the profiler does  *)
(* not know.                                                               *)
(*                                                                         *)
(* A record is named by its physical position from 1, an order field and a *)
(* slot count from 0, as in the code.  In a slab of fewer than 256 records *)
(* only the lower byte of an order field ever differs, so it is stored and *)
(* loaded in one step.                                                     *)
(***************************************************************************)
EXTENDS Integers, Sequences

CONSTANTS
    N,              \* records of the slab the profiler keeps
    Orders          \* the permutations of 1..N that a sort may choose

VARIABLES
    order,          \* order fields of that slab
    addr_stats, i,  \* sort_fromrdataset: the array and its loop index
    pc,             \* of the updating thread
    ocurrent,       \* merge: the next record of the old slab to copy
    offsettable,    \* merge: slot -> position of the record, 0 for none
    merged          \* the order fields of the slab the first merge made

vars == <<order, addr_stats, i, pc, ocurrent, offsettable, merged>>

Records == 1..N
Slots == 0..N       \* ocount + oncount, one new record

\* What uninitialized memory may hold in an order field: anything, here a value
\* that is in range for the merged slab or the first one that is not.
Uninitialized == 0..N + 1

Init ==
    /\ \E o \in Orders :
          /\ order = [p \in Records |-> (CHOOSE k \in Records : o[k] = p) - 1]
          /\ addr_stats = o
    /\ i = N
    /\ pc = "first"
    /\ ocurrent = 1
    /\ offsettable = [s \in Slots |-> 0]
    /\ merged = [p \in 1..N + 1 |-> 0]

\* Another round of the profiler: the array is sorted, then stored.
SortArray ==
    /\ i = N
    /\ \E o \in Orders : addr_stats' = o
    /\ i' = 0
    /\ UNCHANGED <<order, pc, ocurrent, offsettable, merged>>

sort_fromrdataset ==
    /\ i < N
    /\ order' = [order EXCEPT ![addr_stats[i + 1]] = i]
    /\ i' = i + 1
    /\ UNCHANGED <<addr_stats, pc, ocurrent, offsettable, merged>>

\* The next record of the old slab is copied into the slot its order field
\* names, after the INSIST on that field.
merge(fields) ==
    IF fields[ocurrent] < Len(fields)
    THEN /\ offsettable' = [offsettable EXCEPT ![fields[ocurrent]] = ocurrent]
         /\ ocurrent' = ocurrent + 1
         /\ UNCHANGED <<pc, merged>>
    ELSE pc' = "insist" /\ UNCHANGED <<ocurrent, offsettable, merged>>

FirstMerge ==
    /\ pc = "first" /\ ocurrent <= N
    /\ merge(order)
    /\ UNCHANGED <<order, addr_stats, i>>

\* The new record, greater than the old ones, takes the slot after theirs;
\* fillin_offsets numbers the slots in use, and the order field of a record
\* that has lost its slot is never written.
fillin_offsets ==
    /\ pc = "first" /\ ocurrent > N
    /\ LET table == SelectSeq([s \in 1..N + 1 |-> IF s = N + 1 THEN N + 1
                                                 ELSE offsettable[s - 1]],
                              LAMBDA p : p # 0)
           Entry(p) == {k - 1 : k \in {k \in DOMAIN table : table[k] = p}}
       IN  merged' \in {f \in [1..N + 1 -> Uninitialized] :
                          \A p \in 1..N + 1 : Entry(p) # {} => f[p] \in Entry(p)}
    /\ offsettable' = [s \in Slots |-> 0]
    /\ ocurrent' = 1
    /\ pc' = "second"
    /\ UNCHANGED <<order, addr_stats, i>>

SecondMerge ==
    /\ pc = "second" /\ ocurrent <= N + 1
    /\ merge(merged)
    /\ UNCHANGED <<order, addr_stats, i>>

Next == SortArray \/ sort_fromrdataset \/ FirstMerge \/ fillin_offsets \/ SecondMerge

Spec == Init /\ [][Next]_vars

-----------------------------------------------------------------------------
\* dns_rdataslab_merge: INSIST(oorder < ocount) never fails, so that an update
\* of a zone never ends named.
OrderInRange == pc # "insist"
=============================================================================
