------------------------- MODULE SlabIterationProofs -------------------------
(***************************************************************************)
(* Proofs about SlabIteration, for every number of records, every set of   *)
(* query threads and every set of sort orders.                             *)
(***************************************************************************)
EXTENDS SlabIteration, TLAPS

Writing == pc \in {"fillin", "sort"}

(* The k-th entry of the table holds the offset of position p               *)
Entry(k, p) == upper[k] = Upper(p) /\ lower[k] = Lower(p)

(* What the profiler's array is worth at each stage of its loop             *)
StatsInv ==
    /\ pc = "rewrite" => \A k \in Positions : k < i => addr_stats[k] = k
    /\ pc \in {"fillin", "poll", "sort"} => Permutation(addr_stats)
    /\ pc # "transform" => x \in [Positions -> Positions]
    /\ pc \in {"transform", "poll"} => i = 1
    /\ step # "upper" => Writing

(* How far the rewrite of the table has come                                *)
TableInv ==
    /\ pc = "transform" => \A k \in Positions : Entry(k, pub[k])
    /\ Writing => /\ \A k \in Positions : k < i => /\ Entry(k, addr_stats[k])
                                                  /\ order[addr_stats[k]] = k
                  /\ step # "upper" => upper[i] = Upper(addr_stats[i])
                  /\ step = "order" => lower[i] = Lower(addr_stats[i])
    /\ pc = "poll" => \A k \in Positions : /\ Entry(k, addr_stats[k])
                                           /\ order[addr_stats[k]] = k

Inv1 == TypeOK /\ StatsInv /\ TableInv

-----------------------------------------------------------------------------

(* An offset and its two parts determine each other.                       *)
LEMMA OffsetParts ==
    ASSUME NEW p \in Positions
    PROVE  /\ Upper(p) \in Nat
           /\ Lower(p) \in 0..255
           /\ Offset(p) = Upper(p) * 256 + Lower(p)
           /\ RecordsAt(Upper(p), Lower(p)) = {p}
  <1>1. Offset(p) \in Nat
    BY NAssumption DEF Offset, Positions
  <1>2. Upper(p) \in Nat /\ Lower(p) \in 0..255
        /\ Offset(p) = Upper(p) * 256 + Lower(p)
    BY <1>1 DEF Upper, Lower
  <1>3. \A q \in Positions : Offset(q) = Offset(p) => q = p
    BY NAssumption DEF Offset, Positions
  <1> QED  BY <1>2, <1>3 DEF RecordsAt

(* Sorting a permutation by a permutation gives a permutation.             *)
LEMMA SortedStats ==
    ASSUME NEW f, Permutation(f), NEW o, Permutation(o)
    PROVE  Permutation([k \in Positions |-> f[o[k]]])
  BY DEF Permutation

(* The methods that dns_rdataslab_transformrdataset iterates with reach a  *)
(* record at every step.                                                   *)
LEMMA IterPositionType ==
    ASSUME Inv1, pc = "transform", NEW k \in Positions
    PROVE  IterPosition(k) \in Positions
  <1>1. RecordsAt(upper[k], lower[k]) = {pub[k]} /\ pub[k] \in Positions
    BY OffsetParts DEF Inv1, TypeOK, TableInv, Entry
  <1> QED  BY <1>1 DEF IterPosition

-----------------------------------------------------------------------------

LEMMA Init1 == Init => Inv1
  <1> SUFFICES ASSUME Init PROVE Inv1
    OBVIOUS
  <1>1. PICK load \in Orders :
          /\ upper = [k \in Positions |-> Upper(load[k])]
          /\ lower = [k \in Positions |-> Lower(load[k])]
          /\ order = [p \in Positions |-> CHOOSE k \in Positions : load[k] = p]
          /\ pub = load
    BY DEF Init
  <1>2. Permutation(load)
    BY OrdersAssumption
  <1>3. order \in [Positions -> Positions]
    <2>1. \A p \in Positions : (CHOOSE k \in Positions : load[k] = p) \in Positions
      BY <1>2 DEF Permutation
    <2> QED  BY <2>1, <1>1
  <1>4. upper \in [Positions -> Nat] /\ lower \in [Positions -> 0..255]
    BY <1>1, <1>2, OffsetParts DEF Permutation
  <1>5. 1 \in Positions /\ 0 \in 0..(N-1)
    BY NAssumption DEF Positions
  <1>6. TypeOK
    <2>1. pub \in [Positions -> Positions] /\ data \in [Positions -> Positions]
      BY <1>1, <1>2 DEF Init, Permutation
    <2>2. pc \in {"transform", "rewrite", "fillin", "poll", "sort"}
          /\ i \in Positions /\ step \in {"upper", "lower", "order"}
      BY <1>5 DEF Init
    <2>3. /\ x \in [Positions -> Positions \cup {Junk}]
          /\ addr_stats \in [Positions -> Positions \cup {Junk}]
      BY DEF Init
    <2>4. /\ rpc \in [Readers -> {"idle", "walk", "done"}]
          /\ left \in [Readers -> 0..(N-1)]
          /\ rupper \in [Readers -> Nat \cup {Unread}]
          /\ rlower \in [Readers -> 0..255 \cup {Unread}]
      BY <1>5 DEF Init
    <2>5. /\ answer \in [Readers -> Seq(Positions \cup {Junk})]
          /\ window \in [Readers -> SUBSET [Positions -> Positions]]
      BY DEF Init
    <2> QED  BY <1>3, <1>4, <2>1, <2>2, <2>3, <2>4, <2>5 DEF TypeOK
  <1>7. StatsInv
    BY DEF Init, StatsInv, Writing
  <1>8. TableInv
    BY <1>1, <1>2 DEF Init, TableInv, Writing, Entry, Permutation
  <1> QED  BY <1>6, <1>7, <1>8 DEF Inv1

(* A store of the rewrite loop keeps the invariant and, once it has stored *)
(* the last entry, leaves the settled slab.                                *)
LEMMA StoreEntry1 ==
    ASSUME Inv1, Writing, StoreEntry,
           UNCHANGED <<data, x, addr_stats, readers, window>>
    PROVE  Inv1'
  <1> USE DEF Inv1
  <1>0. /\ Permutation(addr_stats) /\ addr_stats[i] \in Positions /\ i \in Positions
        /\ addr_stats' = addr_stats /\ data' = data /\ x' = x
        /\ Upper(addr_stats[i]) \in Nat /\ Lower(addr_stats[i]) \in 0..255
    <2>1. Permutation(addr_stats)
      BY DEF StatsInv, Writing
    <2>2. i \in Positions
      BY DEF TypeOK
    <2>3. addr_stats[i] \in Positions
      BY <2>1, <2>2 DEF Permutation
    <2> QED  BY <2>1, <2>2, <2>3, OffsetParts
  <1>1. CASE step = "upper"
    <2>1. /\ step' = "lower" /\ upper' = [upper EXCEPT ![i] = Upper(addr_stats[i])]
          /\ UNCHANGED <<lower, order, pc, i, pub>>
      BY <1>1 DEF StoreEntry, OrderStored
    <2>2. TypeOK'
      BY <1>0, <2>1 DEF TypeOK, readers
    <2>3. StatsInv'
      BY <1>0, <2>1 DEF StatsInv, Writing
    <2>4. TableInv'
      BY <1>0, <2>1 DEF TableInv, Writing, Entry, TypeOK, Positions
    <2> QED  BY <2>2, <2>3, <2>4
  <1>2. CASE step = "lower"
    <2>1. /\ step' = "order" /\ lower' = [lower EXCEPT ![i] = Lower(addr_stats[i])]
          /\ UNCHANGED <<upper, order, pc, i, pub>>
      BY <1>2 DEF StoreEntry, OrderStored
    <2>2. TypeOK'
      BY <1>0, <2>1 DEF TypeOK, readers
    <2>3. StatsInv'
      BY <1>0, <2>1 DEF StatsInv, Writing
    <2>4. TableInv'
      BY <1>0, <1>2, <2>1 DEF TableInv, Writing, Entry, TypeOK, Positions
    <2> QED  BY <2>2, <2>3, <2>4
  <1>3. CASE step = "order"
    <2>1. /\ step' = "upper" /\ order' = [order EXCEPT ![addr_stats[i]] = i]
          /\ UNCHANGED <<upper, lower>>
          /\ IF i < N
                THEN i' = i + 1 /\ UNCHANGED <<pc, pub>>
                ELSE i' = 1 /\ pc' = "poll" /\ pub' = Listing(addr_stats, data)
      BY <1>3 DEF StoreEntry, OrderStored
    <2>2. TypeOK'
      <3>1. i' \in Positions
        BY <1>0, <2>1, NAssumption DEF Positions
      <3>2. Listing(addr_stats, data) \in [Positions -> Positions]
        BY <1>0 DEF TypeOK, Listing, Permutation
      <3>3. pub' \in [Positions -> Positions]
            /\ pc' \in {"transform", "rewrite", "fillin", "poll", "sort"}
        BY <2>1, <3>2 DEF TypeOK
      <3>4. order' \in [Positions -> Positions]
        BY <1>0, <2>1 DEF TypeOK
      <3>5. step' = "upper" /\ upper' = upper /\ lower' = lower
        BY <2>1
      <3> QED  BY <1>0, <3>1, <3>3, <3>4, <3>5 DEF TypeOK, readers
    <2>3. StatsInv'
      BY <1>0, <2>1 DEF StatsInv, Writing
    <2>4. \A k \in Positions : k < i => order'[addr_stats[k]] = k
      <3> SUFFICES ASSUME NEW k \in Positions, k < i
                   PROVE  order'[addr_stats[k]] = k
        OBVIOUS
      <3>1. addr_stats[k] \in Positions /\ addr_stats[k] # addr_stats[i]
        <4>1. k # i
          BY <1>0 DEF Positions
        <4> QED  BY <1>0, <4>1 DEF Permutation
      <3>2. order[addr_stats[k]] = k
        BY DEF TableInv
      <3> QED  BY <2>1, <3>1, <3>2 DEF TypeOK
    <2>5. order'[addr_stats[i]] = i
      BY <1>0, <2>1 DEF TypeOK
    <2>6. \A k \in Positions : k <= i => Entry(k, addr_stats[k])' /\ order'[addr_stats[k]] = k
      BY <1>0, <1>3, <2>1, <2>4, <2>5 DEF TableInv, Writing, Entry, Positions
    <2>7. TableInv'
      <3>1. CASE i < N
        <4>1. \A k \in Positions : k < i' => k <= i
          BY <2>1, <3>1, <1>0 DEF Positions
        <4> QED  BY <1>0, <2>1, <3>1, <2>6, <4>1 DEF TableInv, Writing, Entry
      <3>2. CASE ~(i < N)
        <4>1. \A k \in Positions : k <= i
          BY <3>2, <1>0, NAssumption DEF Positions
        <4> QED  BY <1>0, <2>1, <3>2, <2>6, <4>1 DEF TableInv, Writing, Entry
      <3> QED  BY <3>1, <3>2
    <2> QED  BY <2>2, <2>3, <2>7
  <1> QED  BY <1>1, <1>2, <1>3 DEF TypeOK

(* The cursor of a walk is inside the table.                               *)
LEMMA CursorInTable ==
    ASSUME TypeOK, NEW r \in Readers
    PROVE  N - left[r] \in Positions
  <1>1. left[r] \in 0..(N - 1)
    BY DEF TypeOK
  <1> QED  BY <1>1, NAssumption DEF Positions

(* The steps of query threads leave the slab and the profiler alone.       *)
LEMMA Walk1 ==
    ASSUME Inv1, NEW r \in Readers, First(r) \/ Walk(r)
    PROVE  Inv1'
  <1> USE DEF Inv1
  <1>1. CASE First(r)
    <2>1. N - 1 \in 0..(N - 1)
      BY NAssumption
    <2>2. {pub} \union (IF pc \in {"fillin", "sort"}
                          THEN {Listing(addr_stats, data)} ELSE {})
            \in SUBSET [Positions -> Positions]
      BY DEF TypeOK, Listing, StatsInv, Permutation
    <2>4. /\ window' \in [Readers -> SUBSET [Positions -> Positions]]
          /\ left' \in [Readers -> 0..(N - 1)]
          /\ answer' \in [Readers -> Seq(Positions \union {Junk})]
      <3>1. << >> \in Seq(Positions \union {Junk})
        OBVIOUS
      <3> QED  BY <1>1, <2>1, <2>2, <3>1 DEF First, Beyond, TypeOK
    <2>3. TypeOK'
      BY <1>1, <2>4 DEF First, Beyond, TypeOK, slab, profiler
    <2> QED  BY <1>1, <2>3 DEF First, Beyond, StatsInv, TableInv, Writing, Entry, slab, profiler
  <1>2. CASE LoadUpper(r)
    <2>1. N - left[r] \in Positions
      BY CursorInTable
    <2>2. TypeOK'
      BY <1>2, <2>1 DEF LoadUpper, Cursor, TypeOK, slab, profiler
    <2> QED  BY <1>2, <2>2 DEF LoadUpper, Cursor, StatsInv, TableInv, Writing, Entry, slab, profiler
  <1>3. CASE LoadLower(r)
    <2>1. N - left[r] \in Positions
      BY CursorInTable
    <2>2. lower[N - left[r]] \in 0..255 \union {Unread}
      BY <2>1 DEF TypeOK
    <2>3. rlower' \in [Readers -> 0..255 \union {Unread}]
      BY <1>3, <2>2 DEF LoadLower, Cursor, TypeOK
    <2>4. TypeOK'
      BY <1>3, <2>3 DEF LoadLower, TypeOK, slab, profiler
    <2> QED  BY <1>3, <2>4 DEF LoadLower, Cursor, StatsInv, TableInv, Writing, Entry, slab, profiler
  <1>4. CASE RenderAndNext(r)
    <2> DEFINE at == RecordsAt(rupper[r], rlower[r])
               rdata == IF at = {} THEN Junk ELSE data[CHOOSE p \in at : TRUE]
    <2>1. rdata \in Positions \union {Junk}
      BY DEF RecordsAt, TypeOK
    <2>2. answer' = [answer EXCEPT ![r] = Append(@, rdata)]
      BY <1>4 DEF RenderAndNext
    <2>3. answer' \in [Readers -> Seq(Positions \union {Junk})]
      <3> HIDE DEF rdata
      <3> QED  BY <2>1, <2>2 DEF TypeOK
    <2>4. left' \in [Readers -> 0..(N - 1)] /\ rpc' \in [Readers -> {"idle", "walk", "done"}]
      <3>1. left \in [Readers -> 0..(N - 1)] /\ rpc \in [Readers -> {"idle", "walk", "done"}]
        BY DEF TypeOK
      <3>2. left[r] # 0 => left[r] - 1 \in 0..(N - 1)
        BY <3>1, NAssumption
      <3> QED  BY <1>4, <3>1, <3>2 DEF RenderAndNext
    <2>5. TypeOK'
      BY <1>4, <2>3, <2>4 DEF RenderAndNext, TypeOK, slab, profiler
    <2> QED  BY <1>4, <2>5 DEF RenderAndNext, StatsInv, TableInv, Writing, Entry, slab, profiler
  <1> QED  BY <1>1, <1>2, <1>3, <1>4 DEF Walk

LEMMA Next1 == Inv1 /\ [Next]_vars => Inv1'
  <1> SUFFICES ASSUME Inv1, [Next]_vars PROVE Inv1'
    OBVIOUS
  <1> USE DEF Inv1
  <1>1. CASE TransformSave
    <2>1. x' \in [Positions -> Positions]
      BY <1>1, IterPositionType DEF TransformSave, TypeOK
    <2>2. 1 \in Positions
      BY NAssumption DEF Positions
    <2>3. TypeOK'
      BY <1>1, <2>1, <2>2 DEF TransformSave, TypeOK, slab, readers
    <2> QED  BY <1>1, <2>1, <2>3 DEF TransformSave, StatsInv, TableInv, Writing, slab, readers, Positions
  <1>2. CASE TransformRewrite
    <2>1. i \in Positions /\ x[i] \in Positions /\ x' = x
      BY <1>2 DEF TransformRewrite, StatsInv, TypeOK
    <2>2. \A k \in Positions : k <= i => addr_stats'[k] = k
      BY <1>2, <2>1 DEF TransformRewrite, StatsInv, TypeOK, Positions
    <2>3. data' \in [Positions -> Positions]
          /\ addr_stats' \in [Positions -> Positions \union {Junk}]
      BY <1>2, <2>1 DEF TransformRewrite, TypeOK
    <2>4. CASE i < N
      <3>1. i' \in Positions /\ \A k \in Positions : k < i' => k <= i
        BY <1>2, <2>1, <2>4, NAssumption DEF TransformRewrite, Positions
      <3>4. pc' = pc /\ window' = window
        BY <1>2, <2>4 DEF TransformRewrite
      <3>2. TypeOK'
        BY <1>2, <2>1, <2>3, <3>1, <3>4 DEF TransformRewrite, TypeOK, readers
      <3>3. StatsInv'
        BY <1>2, <2>1, <2>2, <2>4, <3>1 DEF TransformRewrite, StatsInv, Writing
      <3> QED  BY <1>2, <2>4, <3>2, <3>3 DEF TransformRewrite, TableInv, Writing
    <2>5. CASE ~(i < N)
      <3>1. \A k \in Positions : addr_stats'[k] = k
        BY <2>1, <2>2, <2>5, NAssumption DEF Positions
      <3>2. Permutation(addr_stats')
        BY <2>3, <3>1 DEF Permutation, TypeOK
      <3>3. Listing(addr_stats', x) \in [Positions -> Positions]
        BY <3>2, <1>2 DEF Listing, Permutation, StatsInv, TransformRewrite
      <3>4. window' \in [Readers -> SUBSET [Positions -> Positions]]
        <4>1. Expose(Listing(addr_stats', x))
          BY <1>2, <2>5 DEF TransformRewrite
        <4> QED  BY <4>1, <3>3 DEF Expose, TypeOK
      <3>5. i' \in Positions
        BY <1>2, <2>5, NAssumption DEF TransformRewrite, Positions
      <3>8. TypeOK'
        BY <1>2, <2>1, <2>3, <2>5, <3>4, <3>5 DEF TransformRewrite, TypeOK, readers
      <3>6. StatsInv'
        BY <1>2, <2>1, <2>5, <3>2 DEF TransformRewrite, StatsInv, Writing
      <3>7. TableInv'
        BY <1>2, <2>5, <3>1, <2>1 DEF TransformRewrite, TableInv, StatsInv, Writing, Positions
      <3> QED  BY <3>6, <3>7, <3>8
    <2> QED  BY <2>4, <2>5
  <1>3. CASE FillinOffsets
    BY <1>3, StoreEntry1 DEF FillinOffsets, Writing
  <1>4. CASE PollAndQsort
    <2>1. Permutation(addr_stats')
      BY <1>4, SortedStats, OrdersAssumption DEF PollAndQsort, StatsInv
    <2>2. Listing(addr_stats', data) \in [Positions -> Positions]
      BY <2>1 DEF Listing, Permutation, TypeOK
    <2>3. window' \in [Readers -> SUBSET [Positions -> Positions]]
      BY <1>4, <2>2 DEF PollAndQsort, Expose, TypeOK
    <2>4. TypeOK'
      BY <1>4, <2>1, <2>3 DEF PollAndQsort, TypeOK, Permutation, slab, readers
    <2>5. StatsInv'
      BY <1>4, <2>1 DEF PollAndQsort, StatsInv, Writing, slab, readers
    <2>6. TableInv'
      BY <1>4 DEF PollAndQsort, StatsInv, TableInv, Writing, slab, readers, Positions
    <2> QED  BY <2>4, <2>5, <2>6
  <1>5. CASE SortFromRdataset
    BY <1>5, StoreEntry1 DEF SortFromRdataset, Writing
  <1>6. ASSUME NEW r \in Readers, First(r) \/ Walk(r) PROVE Inv1'
    BY <1>6, Walk1
  <1>7. CASE UNCHANGED vars
    BY <1>7 DEF vars, TypeOK, StatsInv, TableInv, Writing, Entry
  <1> QED
    BY <1>1, <1>2, <1>3, <1>4, <1>5, <1>6, <1>7 DEF Next, Profile

(* Every variable keeps its type, whatever the profiler and the queries    *)
(* interleave: in particular the profiler's indices stay inside the slab.  *)
THEOREM TypeCorrect == Spec => []TypeOK
  <1>1. Inv1 => TypeOK
    BY DEF Inv1
  <1> QED  BY Init1, Next1, <1>1, PTL DEF Spec

(* When the profiler is not rewriting it, the slab's table and order       *)
(* fields agree with the profiler's array and list every record once.      *)
THEOREM SlabSettles == Spec => []SettledSlab
  <1>1. Inv1 => SettledSlab
    BY DEF Inv1, StatsInv, TableInv, Entry, SettledSlab
  <1> QED  BY Init1, Next1, <1>1, PTL DEF Spec

-----------------------------------------------------------------------------
(* The answers of query threads, for the default build and an RRset whose  *)
(* slab has one-byte offsets.                                              *)

ShortSlab == ~LBBIND /\ N <= 21

(* The records never change and the entries not yet rewritten still hold   *)
(* the listing published last.                                             *)
PublishedInv ==
    /\ data = [p \in Positions |-> p]
    /\ pc # "transform" => x = [k \in Positions |-> k]
    /\ Permutation(pub)
    /\ pc = "poll" => pub = addr_stats
    /\ pc \in {"transform", "rewrite"} => \A k \in Positions : Entry(k, pub[k])
    /\ Writing => /\ \A k \in Positions : i < k => Entry(k, pub[k])
                  /\ step = "upper" => upper[i] = Upper(pub[i])
                  /\ step # "order" => lower[i] = Lower(pub[i])

(* A walk in progress has the listings in force in its window, and loaded  *)
(* its bytes from entries of one of them.                                  *)
WalkInv ==
    \A r \in Readers :
        /\ rpc[r] = "walk" =>
              /\ pub \in window[r]
              /\ Writing => addr_stats \in window[r]
              /\ rupper[r] # Unread => rupper[r] = 0
              /\ rlower[r] # Unread =>
                    \E l \in window[r] : rlower[r] = Lower(l[N - left[r]])
              /\ Len(answer[r]) = N - 1 - left[r]
        /\ rpc[r] = "done" => Len(answer[r]) = N
        /\ rpc[r] = "idle" => Len(answer[r]) = 0

Inv2 == Inv1 /\ PublishedInv /\ WalkInv /\ EntryRegular

(* In a short slab the upper bytes of every offset are zero.               *)
LEMMA ShortOffsets ==
    ASSUME ShortSlab, NEW p \in Positions
    PROVE  Upper(p) = 0 /\ RecordsAt(0, Lower(p)) = {p}
  <1>1. 0 <= Offset(p) /\ Offset(p) < 256 /\ Offset(p) \in Int
    BY NAssumption DEF ShortSlab, Offset, Positions
  <1>2. Upper(p) = 0
    BY <1>1 DEF Upper
  <1> QED  BY <1>2, OffsetParts

(* Whatever the profiler is doing, an entry holds bytes of the published   *)
(* listing or of the one being written.                                    *)
LEMMA EntryBytes ==
    ASSUME ShortSlab, Inv2, NEW k \in Positions
    PROVE  /\ upper[k] = 0
           /\ \/ lower[k] = Lower(pub[k])
              \/ Writing /\ lower[k] = Lower(addr_stats[k])
  <1> USE DEF Inv2, Inv1
  <1>1. pub[k] \in Positions /\ (Writing => addr_stats[k] \in Positions)
    BY DEF PublishedInv, StatsInv, Permutation, Writing
  <1>2. i \in Positions /\ step \in {"upper", "lower", "order"}
    BY DEF TypeOK
  <1>3. CASE Writing
    <2>1. CASE k < i
      BY <1>1, <1>3, <2>1, ShortOffsets DEF TableInv, Entry
    <2>2. CASE i < k
      BY <1>1, <1>3, <2>2, ShortOffsets DEF PublishedInv, Entry
    <2>3. CASE i = k
      BY <1>1, <1>2, <1>3, <2>3, ShortOffsets DEF PublishedInv, TableInv
    <2> QED  BY <1>2, <2>1, <2>2, <2>3 DEF Positions
  <1>4. CASE pc = "poll"
    BY <1>1, <1>4, ShortOffsets DEF PublishedInv, TableInv, Entry
  <1>5. CASE pc \in {"transform", "rewrite"}
    BY <1>1, <1>5, ShortOffsets DEF PublishedInv, Entry
  <1> QED  BY <1>3, <1>4, <1>5 DEF TypeOK, Writing

LEMMA Init2 == ASSUME ShortSlab, Init PROVE Inv2
  <1>1. Inv1
    BY Init1
  <1>2. PublishedInv
    <2>1. Permutation(pub)
      BY OrdersAssumption DEF Init
    <2>2. \A k \in Positions : Entry(k, pub[k])
      BY <1>1 DEF Inv1, TableInv, Init
    <2> QED  BY <2>1, <2>2 DEF Init, PublishedInv, Writing
  <1>3. WalkInv /\ EntryRegular
    BY DEF Init, WalkInv, EntryRegular
  <1> QED  BY <1>1, <1>2, <1>3 DEF Inv2

(* A walk depends on its own variables, the listings in force and whether  *)
(* a rewrite is in progress.                                               *)
LEMMA StoreEntry2 ==
    ASSUME ShortSlab, Inv2, Writing, StoreEntry,
           UNCHANGED <<data, x, addr_stats, readers, window>>
    PROVE  Inv2'
  <1> USE DEF Inv2
  <1>1. Inv1'
    BY StoreEntry1
  <1>2. Permutation(addr_stats) /\ i \in Positions /\ step \in {"upper", "lower", "order"}
        /\ upper \in [Positions -> Nat] /\ lower \in [Positions -> 0..255]
        /\ addr_stats' = addr_stats /\ data' = data /\ x' = x /\ window' = window
    BY DEF Inv1, StatsInv, Writing, TypeOK
  <1>3. Listing(addr_stats, data) = addr_stats
    BY <1>2 DEF PublishedInv, Listing, Permutation
  <1>4. PublishedInv'
    <2>1. CASE step = "upper"
      <3>1. upper' = [upper EXCEPT ![i] = Upper(addr_stats[i])] /\ step' = "lower"
            /\ UNCHANGED <<lower, order, pc, i, pub>>
        BY <2>1 DEF StoreEntry, OrderStored
      <3>2. \A k \in Positions : i < k => upper'[k] = upper[k]
        BY <1>2, <3>1 DEF Positions
      <3> QED  BY <1>2, <2>1, <3>1, <3>2 DEF PublishedInv, Writing, Entry
    <2>2. CASE step = "lower"
      <3>1. lower' = [lower EXCEPT ![i] = Lower(addr_stats[i])] /\ step' = "order"
            /\ UNCHANGED <<upper, order, pc, i, pub>>
        BY <2>2 DEF StoreEntry, OrderStored
      <3>2. \A k \in Positions : i < k => lower'[k] = lower[k]
        BY <1>2, <3>1 DEF Positions
      <3> QED  BY <1>2, <2>2, <3>1, <3>2 DEF PublishedInv, Writing, Entry
    <2>3. CASE step = "order"
      <3>1. step' = "upper" /\ upper' = upper /\ lower' = lower
        BY <2>3 DEF StoreEntry, OrderStored
      <3>2. CASE i < N
        <4>1. i' = i + 1 /\ pc' = pc /\ pub' = pub
          BY <2>3, <3>2 DEF StoreEntry, OrderStored
        <4>2. i' \in Positions /\ i < i' /\ \A k \in Positions : i' < k => i < k
          BY <1>2, <3>2, <4>1, NAssumption DEF Positions
        <4> QED  BY <1>2, <3>1, <4>1, <4>2 DEF PublishedInv, Writing, Entry
      <3>3. CASE ~(i < N)
        <4>1. pc' = "poll" /\ pub' = addr_stats
          BY <1>3, <2>3, <3>3 DEF StoreEntry, OrderStored
        <4> QED  BY <1>2, <3>1, <4>1 DEF PublishedInv, Writing
      <3> QED  BY <3>2, <3>3
    <2> QED  BY <1>2, <2>1, <2>2, <2>3
  <1>5. (pub' = pub /\ pc' = pc) \/ (pub' = addr_stats /\ pc' = "poll")
    BY <1>3 DEF StoreEntry, OrderStored
  <1>6. WalkInv'
    BY <1>2, <1>5 DEF WalkInv, Writing, readers
  <1>7. EntryRegular'
    BY <1>2 DEF EntryRegular, readers
  <1> QED  BY <1>1, <1>4, <1>6, <1>7

LEMMA Walk2 ==
    ASSUME ShortSlab, Inv2, NEW r \in Readers, First(r) \/ Walk(r)
    PROVE  Inv2'
  <1> USE DEF Inv2
  <1>1. Inv1'
    BY Walk1
  <1>2. PublishedInv'
    BY DEF PublishedInv, Writing, Entry, First, Beyond, Walk, LoadUpper, LoadLower, Cursor,
           RenderAndNext, slab, profiler
  <1>3. rpc \in [Readers -> {"idle", "walk", "done"}] /\ left \in [Readers -> 0..(N - 1)]
        /\ rupper \in [Readers -> Nat \union {Unread}]
        /\ rlower \in [Readers -> 0..255 \union {Unread}]
        /\ answer \in [Readers -> Seq(Positions \union {Junk})]
        /\ window \in [Readers -> SUBSET [Positions -> Positions]]
        /\ N - left[r] \in Positions
    BY CursorInTable DEF Inv1, TypeOK
  <1>4. CASE First(r)
    <2>1. Writing => Listing(addr_stats, data) = addr_stats
      BY DEF PublishedInv, Listing, Permutation, Inv1, StatsInv, Writing
    <2>2. window' = [window EXCEPT ![r] =
                        {pub} \union IF Writing THEN {addr_stats} ELSE {}]
      BY <1>4, <2>1 DEF First, Beyond, Writing
    <2>3. answer' = [answer EXCEPT ![r] = << >>] /\ rpc' = [rpc EXCEPT ![r] = "walk"]
          /\ left' = [left EXCEPT ![r] = N - 1]
          /\ rupper' = [rupper EXCEPT ![r] = Unread]
          /\ rlower' = [rlower EXCEPT ![r] = Unread]
          /\ pub' = pub /\ pc' = pc /\ addr_stats' = addr_stats
      BY <1>4 DEF First, Beyond, profiler
    <2>4. WalkInv'
      BY <1>3, <2>2, <2>3, NAssumption DEF WalkInv, Writing
    <2>5. EntryRegular'
      BY <1>3, <2>2, <2>3 DEF EntryRegular
    <2> QED  BY <1>1, <1>2, <2>4, <2>5
  <1>5. CASE LoadUpper(r)
    <2>1. upper[N - left[r]] = 0
      BY <1>3, EntryBytes
    <2>2. rupper' = [rupper EXCEPT ![r] = 0]
          /\ UNCHANGED <<rpc, left, rlower, answer, pub, window, pc, addr_stats>>
      BY <1>5, <2>1 DEF LoadUpper, Cursor, profiler
    <2>3. WalkInv' /\ EntryRegular'
      BY <1>3, <2>2 DEF WalkInv, EntryRegular, Writing
    <2> QED  BY <1>1, <1>2, <2>3
  <1>6. CASE LoadLower(r)
    <2>1. rlower' = [rlower EXCEPT ![r] = lower[N - left[r]]]
          /\ UNCHANGED <<rpc, left, rupper, answer, pub, window, pc, addr_stats>>
          /\ rpc[r] = "walk"
      BY <1>6 DEF LoadLower, Cursor, profiler
    <2>2. \E l \in window[r] : lower[N - left[r]] = Lower(l[N - left[r]])
      BY <1>3, <2>1, EntryBytes DEF WalkInv
    <2>3. WalkInv' /\ EntryRegular'
      BY <1>3, <2>1, <2>2 DEF WalkInv, EntryRegular, Writing
    <2> QED  BY <1>1, <1>2, <2>3
  <1>7. CASE RenderAndNext(r)
    <2> DEFINE k == N - left[r]
    <2>1. rpc[r] = "walk" /\ rupper[r] = 0 /\ rlower[r] # Unread
      BY <1>7 DEF RenderAndNext, WalkInv
    <2>2. PICK l \in window[r] : rlower[r] = Lower(l[k])
      BY <2>1 DEF WalkInv
    <2>3. l[k] \in Positions
      BY <1>3
    <2>4. RecordsAt(rupper[r], rlower[r]) = {l[k]} /\ data[l[k]] = l[k]
      BY <2>1, <2>2, <2>3, ShortOffsets DEF PublishedInv
    <2>5. answer' = [answer EXCEPT ![r] = Append(@, l[k])]
      BY <1>7, <2>4 DEF RenderAndNext
    <2>6. /\ UNCHANGED <<window, pub, pc, addr_stats>>
          /\ rupper' = [rupper EXCEPT ![r] = Unread]
          /\ rlower' = [rlower EXCEPT ![r] = Unread]
      BY <1>7 DEF RenderAndNext, profiler
    <2>7. Len(answer[r]) = k - 1 /\ k \in Nat
      <3>1. left[r] \in 0..(N - 1)
        BY <1>3
      <3> QED  BY <2>1, <3>1, NAssumption DEF WalkInv
    <2>8. Len(answer'[r]) = k /\ answer'[r][k] = l[k]
          /\ \A j \in 1..(k - 1) : answer'[r][j] = answer[r][j]
      BY <1>3, <2>3, <2>5, <2>7
    <2>9. EntryRegular'
      <3> SUFFICES ASSUME NEW q \in Readers, NEW j \in 1..Len(answer'[q])
                   PROVE  \E m \in window[q] : answer'[q][j] = m[j]
        BY <2>6 DEF EntryRegular
      <3>1. CASE q # r
        BY <1>3, <2>5, <3>1 DEF EntryRegular
      <3>2. CASE q = r /\ j = k
        BY <2>8, <3>2
      <3>3. CASE q = r /\ j # k
        <4>1. j \in 1..(k - 1)
          BY <2>7, <2>8, <3>3
        <4> QED  BY <2>7, <2>8, <3>3, <4>1 DEF EntryRegular
      <3> QED  BY <3>1, <3>2, <3>3
    <2>10. WalkInv'
      <3> SUFFICES ASSUME NEW q \in Readers PROVE WalkInv!(q)'
        BY DEF WalkInv
      <3>1. CASE q # r
        <4>1. rpc'[q] = rpc[q] /\ left'[q] = left[q]
          BY <1>3, <1>7, <3>1 DEF RenderAndNext
        <4>2. answer'[q] = answer[q] /\ rupper'[q] = rupper[q] /\ rlower'[q] = rlower[q]
          BY <1>3, <2>5, <2>6, <3>1
        <4> QED  BY <2>6, <4>1, <4>2 DEF WalkInv, Writing
      <3>2. CASE q = r /\ left[r] = 0
        <4>1. rpc'[r] = "done" /\ k = N
          BY <1>3, <1>7, <3>2, NAssumption DEF RenderAndNext
        <4> QED  BY <2>8, <3>2, <4>1
      <3>3. CASE q = r /\ left[r] # 0
        <4>1. rpc' = rpc /\ left'[r] = left[r] - 1
          BY <1>3, <1>7, <3>3 DEF RenderAndNext
        <4>2. Len(answer'[r]) = N - 1 - left'[r]
          <5>1. left[r] \in 0..(N - 1)
            BY <1>3
          <5>2. Len(answer'[r]) = N - left[r]
            BY <2>8
          <5>3. left'[r] = left[r] - 1
            BY <4>1
          <5> QED  BY <5>1, <5>2, <5>3, NAssumption
        <4> QED  BY <1>3, <2>1, <2>6, <3>3, <4>1, <4>2 DEF WalkInv, Writing
      <3> QED  BY <3>1, <3>2, <3>3
    <2> QED  BY <1>1, <1>2, <2>9, <2>10
  <1> QED  BY <1>4, <1>5, <1>6, <1>7 DEF Walk

LEMMA Next2 == ASSUME ShortSlab, Inv2, [Next]_vars PROVE Inv2'
  <1> USE DEF Inv2
  <1>0. Inv1'
    BY Next1
  <1>1. CASE TransformSave
    <2>1. x' = [k \in Positions |-> k]
      BY <1>1 DEF TransformSave, IterPosition, ShortSlab, PublishedInv
    <2>2. PublishedInv'
      BY <1>1, <2>1 DEF TransformSave, PublishedInv, Writing, Entry, slab
    <2> QED  BY <1>0, <1>1, <2>2 DEF TransformSave, WalkInv, EntryRegular, Writing, readers
  <1>2. CASE TransformRewrite
    <2>1. /\ UNCHANGED <<upper, lower, order, step, x, readers, pub>> /\ pc = "rewrite"
          /\ data' = [data EXCEPT ![i] = x[i]]
      BY <1>2 DEF TransformRewrite
    <2>2. data' = data
      BY <2>1 DEF PublishedInv, Inv1, TypeOK
    <2>3. CASE i < N
      <3>1. pc' = pc /\ window' = window
        BY <1>2, <2>3 DEF TransformRewrite
      <3>2. PublishedInv'
        BY <2>1, <2>2, <3>1 DEF PublishedInv, Writing, Entry
      <3> QED  BY <1>0, <2>1, <3>1, <3>2 DEF WalkInv, EntryRegular, Writing, readers
    <2>4. CASE ~(i < N)
      <3>1. pc' = "fillin" /\ i' = 1 /\ Expose(Listing(addr_stats', x))
        BY <1>2, <2>4 DEF TransformRewrite
      <3>2. Permutation(addr_stats')
        BY <1>0, <3>1 DEF Inv1, StatsInv
      <3>3. Listing(addr_stats', x) = addr_stats'
        BY <2>1, <3>2 DEF PublishedInv, Listing, Permutation
      <3>4. PublishedInv'
        <4>1. 1 \in Positions
          BY NAssumption DEF Positions
        <4>2. step' = "upper"
          BY <2>1 DEF Inv1, StatsInv, Writing
        <4> QED  BY <2>1, <2>2, <3>1, <4>1, <4>2 DEF PublishedInv, Writing, Entry
      <3>5. \A r \in Readers : /\ window[r] \subseteq window'[r]
                               /\ rpc[r] = "walk" => addr_stats' \in window'[r]
        BY <3>1, <3>3 DEF Expose
      <3>6. WalkInv'
        BY <2>1, <3>1, <3>5 DEF WalkInv, Writing, readers
      <3>7. EntryRegular'
        BY <2>1, <3>5 DEF EntryRegular, readers
      <3> QED  BY <1>0, <3>4, <3>6, <3>7
    <2> QED  BY <2>3, <2>4
  <1>3. CASE FillinOffsets
    BY <1>3, StoreEntry2 DEF FillinOffsets, Writing
  <1>4. CASE PollAndQsort
    <2>1. /\ UNCHANGED <<slab, i, step, x, readers, pub>> /\ pc = "poll" /\ pc' = "sort"
          /\ Expose(Listing(addr_stats', data))
      BY <1>4 DEF PollAndQsort
    <2>2. Permutation(addr_stats')
      BY <1>0, <2>1 DEF Inv1, StatsInv
    <2>3. Listing(addr_stats', data) = addr_stats'
      BY <2>2 DEF PublishedInv, Listing, Permutation
    <2>4. PublishedInv'
      <3>1. \A k \in Positions : Entry(k, pub[k])
        BY <2>1 DEF PublishedInv, Inv1, TableInv
      <3>2. i \in Positions
        BY DEF Inv1, TypeOK
      <3> QED  BY <2>1, <3>1, <3>2 DEF PublishedInv, Writing, Entry, slab
    <2>5. \A r \in Readers : /\ window[r] \subseteq window'[r]
                             /\ rpc[r] = "walk" => addr_stats' \in window'[r]
      BY <2>1, <2>3 DEF Expose
    <2>6. WalkInv'
      BY <2>1, <2>5 DEF WalkInv, Writing, readers
    <2>7. EntryRegular'
      BY <2>1, <2>5 DEF EntryRegular, readers
    <2> QED  BY <1>0, <2>4, <2>6, <2>7
  <1>5. CASE SortFromRdataset
    BY <1>5, StoreEntry2 DEF SortFromRdataset, Writing
  <1>6. ASSUME NEW r \in Readers, First(r) \/ Walk(r) PROVE Inv2'
    BY <1>6, Walk2
  <1>7. CASE UNCHANGED vars
    BY <1>0, <1>7 DEF vars, PublishedInv, WalkInv, EntryRegular, Writing, Entry
  <1> QED
    BY <1>1, <1>2, <1>3, <1>4, <1>5, <1>6, <1>7 DEF Next, Profile

(* In the default build, for RRsets of at most 21 addresses, whatever the  *)
(* unlocked rewrites and the walks interleave, each place of an answer     *)
(* shows what a listing in force during the walk had at that place.        *)
THEOREM EntriesAreRegular == ASSUME ShortSlab PROVE Spec => []EntryRegular
  <1>1. Inv2 => EntryRegular
    BY DEF Inv2
  <1> QED  BY Init2, Next2, <1>1, PTL DEF Spec

(* Under the same conditions a walk that overlaps no rewrite answers with  *)
(* the whole RRset in the published order.                                 *)
THEOREM UndisturbedAnswersAreWhole ==
    ASSUME ShortSlab PROVE Spec => []UndisturbedAnswer
  <1>1. Inv2 => UndisturbedAnswer
    <2> SUFFICES ASSUME Inv2, NEW r \in Readers, rpc[r] = "done", window[r] = {pub}
                 PROVE  /\ Len(answer[r]) = N
                        /\ \A k \in Positions : answer[r][k] = pub[k]
                        /\ \A p \in Positions : \E k \in Positions : answer[r][k] = p
      BY DEF UndisturbedAnswer
    <2>1. Len(answer[r]) = N
      BY DEF Inv2, WalkInv
    <2>2. \A k \in Positions : answer[r][k] = pub[k]
      BY <2>1 DEF Inv2, EntryRegular, Positions
    <2> QED  BY <2>1, <2>2 DEF Inv2, PublishedInv, Permutation
  <1> QED  BY Init2, Next2, <1>1, PTL DEF Spec
=============================================================================
