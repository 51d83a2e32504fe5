---------------------------- MODULE SlabIteration ----------------------------
(***************************************************************************)
(* One RRset of a zone, stored as an rdataslab, shared without a lock by   *)
(* the profiler thread of named, which rewrites the slab in place, and by  *)
(* the query threads, which walk it while they render an answer.           *)
(*                                                                         *)
(* Slab layout (lib/dns/rdataslab.c): a 2-byte count, an offset table of   *)
(* 4 bytes per record, then the records, each a length, an order field and *)
(* its rdata.  A record is named by its physical position 1..N, an rdata   *)
(* by its rank 1..N in DNSSEC order.  An entry of the table is the pair of *)
(* its three upper bytes and its lowest byte, because the profiler stores  *)
(* and the readers load it byte by byte; in a slab under 64 kB only these  *)
(* two parts ever differ between two entries.                              *)
(***************************************************************************)
EXTENDS Integers, Sequences

CONSTANTS
    N,          \* number of records of the RRset, the slab's count field
    Orders,     \* the permutations of 1..N that qsort may apply
    Readers,    \* query threads
    LBBIND      \* TRUE for a build with -DLBBIND (rbtdb.c iterates by offset)

Positions == 1..N
Permutation(f) ==
    /\ f \in [Positions -> Positions]
    /\ \A a, b \in Positions : f[a] = f[b] => a = b
    /\ \A p \in Positions : \E k \in Positions : f[k] = p

ASSUME NAssumption == N \in Nat /\ N > 1
ASSUME OrdersAssumption == \A o \in Orders : Permutation(o)
ASSUME LBBINDAssumption == LBBIND \in BOOLEAN

(* Start of the record at position p for an RRset of A records: count (2), *)
(* table (4 each), records of 2 + 2 + 4 bytes.                             *)
Offset(p) == 2 + 4 * N + 8 * (p - 1)
Upper(p) == Offset(p) \div 256
Lower(p) == Offset(p) % 256

Unread == -1    \* a byte of the entry that a reader has not loaded yet
Junk == 0       \* what a reader renders from an offset that starts no record

VARIABLES
    upper,      \* [Positions -> Nat]: upper bytes of the table entries
    lower,      \* [Positions -> 0..255]: their lowest bytes
    order,      \* order field of the record at each position
    data,       \* rdata at each position
    pc,         \* where the profiler thread is
    i,          \* its loop index
    step,       \* which bytes of entry i it stores next
    x,          \* its private copy of the rdata (dns_rdataslab_transformrdataset)
    addr_stats, \* its array; addr_stats[k] stands for the k-th .offset field
    rpc,        \* [Readers -> {"idle", "walk", "done"}]
    left,       \* privateuint4: rdata beyond the cursor
    rupper,     \* upper bytes the reader loaded from its current entry
    rlower,     \* lowest byte it loaded
    answer,     \* rdata rendered so far
    pub,        \* history: the listing that the last completed rewrite left
    window      \* history: the listings in force since the reader's first

slab == <<upper, lower, order, data>>
profiler == <<pc, i, step, x, addr_stats>>
readers == <<rpc, left, rupper, rlower, answer>>
vars == <<upper, lower, order, data, pc, i, step, x, addr_stats,
          rpc, left, rupper, rlower, answer, pub, window>>

(* The record whose start is the offset made of two parts, if there is one *)
RecordsAt(u, l) == {p \in Positions : Offset(p) = u * 256 + l}

(* The rdata a walk over the table entries `stats` finds in records d      *)
Listing(stats, d) == [k \in Positions |-> d[stats[k]]]

(* fromrdataset left the records in DNSSEC order and the table in load order. *)
Init ==
    /\ \E load \in Orders :
          /\ upper = [k \in Positions |-> Upper(load[k])]
          /\ lower = [k \in Positions |-> Lower(load[k])]
          /\ order = [p \in Positions |-> CHOOSE k \in Positions : load[k] = p]
          /\ pub = load
    /\ data = [p \in Positions |-> p]
    /\ pc = "transform" /\ i = 1 /\ step = "upper"
    /\ x = [k \in Positions |-> Junk]
    /\ addr_stats = [k \in Positions |-> Junk]
    /\ rpc = [r \in Readers |-> "idle"]
    /\ left = [r \in Readers |-> 0]
    /\ rupper = [r \in Readers |-> Unread]
    /\ rlower = [r \in Readers |-> Unread]
    /\ answer = [r \in Readers |-> << >>]
    /\ window = [r \in Readers |-> {}]

(* A rewrite towards the listing l starts: every walk in progress may see it *)
Expose(l) == window' = [r \in Readers |->
                 IF rpc[r] = "walk" THEN window[r] \union {l} ELSE window[r]]

-----------------------------------------------------------------------------
(* The profiler thread                                                     *)

(* The position that the k-th step of dns_rdataset_first/next/current       *)
(* reaches: the default methods walk the records, those of -DLBBIND the    *)
(* offset table.                                                           *)
IterPosition(k) ==
    IF LBBIND THEN CHOOSE p \in RecordsAt(upper[k], lower[k]) : TRUE ELSE k

(* dns_rdataslab_transformrdataset saves the rdata in iteration order ...   *)
TransformSave ==
    /\ pc = "transform"
    /\ x' = [k \in Positions |-> data[IterPosition(k)]]
    /\ pc' = "rewrite" /\ i' = 1
    /\ UNCHANGED <<slab, step, addr_stats, readers, pub, window>>

(* ... writes them back over the records one by one ...                     *)
TransformRewrite ==
    /\ pc = "rewrite"
    /\ data' = [data EXCEPT ![i] = x[i]]
    /\ addr_stats' = [addr_stats EXCEPT ![i] = i]
    /\ IF i < N
          THEN i' = i + 1 /\ UNCHANGED <<pc, window>>
          ELSE i' = 1 /\ pc' = "fillin" /\ Expose(Listing(addr_stats', x))
    /\ UNCHANGED <<upper, lower, order, step, x, readers, pub>>

(* The order fields after the loop index is stored in the record at         *)
(* addr_stats[i].offset                                                    *)
OrderSwapped == [order EXCEPT ![i] = addr_stats[i]]
OrderStored == [order EXCEPT ![addr_stats[i]] = i]

(* One store of the loop that writes the table entry i from the offset of  *)
(* addr_stats[i] and then the order field of that record.                  *)
StoreEntry ==
    \/ /\ step = "upper" /\ step' = "lower"
       /\ upper' = [upper EXCEPT ![i] = Upper(addr_stats[i])]
       /\ UNCHANGED <<lower, order, pc, i, pub>>
    \/ /\ step = "lower" /\ step' = "order"
       /\ lower' = [lower EXCEPT ![i] = Lower(addr_stats[i])]
       /\ UNCHANGED <<upper, order, pc, i, pub>>
    \/ /\ step = "order" /\ step' = "upper"
       /\ order' = OrderStored
       /\ IF i < N
             THEN i' = i + 1 /\ UNCHANGED <<pc, pub>>
             ELSE i' = 1 /\ pc' = "poll" /\ pub' = Listing(addr_stats, data)
       /\ UNCHANGED <<upper, lower>>

(* ... and lets fillin_offsets rebuild the table.                           *)
FillinOffsets ==
    /\ pc = "fillin"
    /\ StoreEntry
    /\ UNCHANGED <<data, x, addr_stats, readers, window>>

(* ns_profiler_update_addrs polls the workers and sorts its own array; the *)
(* loads may put it in any order.                                          *)
PollAndQsort ==
    /\ pc = "poll"
    /\ \E o \in Orders : addr_stats' = [k \in Positions |-> addr_stats[o[k]]]
    /\ pc' = "sort"
    /\ Expose(Listing(addr_stats', data))
    /\ UNCHANGED <<slab, i, step, x, readers, pub>>

(* dns_rdataslab_sort_fromrdataset, one store at a time                     *)
SortFromRdataset ==
    /\ pc = "sort"
    /\ StoreEntry
    /\ UNCHANGED <<data, x, addr_stats, readers, window>>

-----------------------------------------------------------------------------
(* A query thread renders the RRset with `rrset-order fixed'                *)

(* privateuint4 after dns_rdataset_first: the rdata beyond the first        *)
BeyondShort == N - 2
Beyond == N - 1

(* dns_rdataset_first at the head of towiresorted                          *)
First(r) ==
    /\ rpc[r] # "walk"
    /\ rpc' = [rpc EXCEPT ![r] = "walk"]
    /\ left' = [left EXCEPT ![r] = Beyond]
    /\ rupper' = [rupper EXCEPT ![r] = Unread]
    /\ rlower' = [rlower EXCEPT ![r] = Unread]
    /\ answer' = [answer EXCEPT ![r] = << >>]
    /\ window' = [window EXCEPT ![r] =
                     {pub} \union IF pc \in {"fillin", "sort"}
                                     THEN {Listing(addr_stats, data)} ELSE {}]
    /\ UNCHANGED <<slab, profiler, pub>>

(* The table entry that a reader's cursor is at                             *)
CursorBackwards(r) == left[r] + 1
Cursor(r) == N - left[r]

(* dns_rdataset_current loads the entry's bytes; C leaves the order of the *)
(* loads open.                                                             *)
LoadUpperLocked(r) ==
    /\ rpc[r] = "walk" /\ rupper[r] = Unread /\ pc \notin {"fillin", "sort"}
    /\ rupper' = [rupper EXCEPT ![r] = upper[Cursor(r)]]
    /\ UNCHANGED <<slab, profiler, rpc, left, rlower, answer, pub, window>>

LoadUpper(r) ==
    /\ rpc[r] = "walk" /\ rupper[r] = Unread
    /\ rupper' = [rupper EXCEPT ![r] = upper[Cursor(r)]]
    /\ UNCHANGED <<slab, profiler, rpc, left, rlower, answer, pub, window>>

LoadLower(r) ==
    /\ rpc[r] = "walk" /\ rlower[r] = Unread
    /\ rlower' = [rlower EXCEPT ![r] = lower[Cursor(r)]]
    /\ UNCHANGED <<slab, profiler, rpc, left, rupper, answer, pub, window>>

(* dns_rdata_towire copies the record found there, then dns_rdataset_next   *)
(* moves the cursor or reports ISC_R_NOMORE.                               *)
RenderAndNext(r) ==
    /\ rpc[r] = "walk" /\ rupper[r] # Unread /\ rlower[r] # Unread
    /\ LET at == RecordsAt(rupper[r], rlower[r])
           rdata == IF at = {} THEN Junk ELSE data[CHOOSE p \in at : TRUE]
       IN  answer' = [answer EXCEPT ![r] = Append(@, rdata)]
    /\ rupper' = [rupper EXCEPT ![r] = Unread]
    /\ rlower' = [rlower EXCEPT ![r] = Unread]
    /\ IF left[r] = 0
          THEN rpc' = [rpc EXCEPT ![r] = "done"] /\ UNCHANGED left
          ELSE left' = [left EXCEPT ![r] = @ - 1] /\ UNCHANGED rpc
    /\ UNCHANGED <<slab, profiler, pub, window>>

Profile == TransformSave \/ TransformRewrite \/ FillinOffsets
           \/ PollAndQsort \/ SortFromRdataset
Walk(r) == LoadUpper(r) \/ LoadLower(r) \/ RenderAndNext(r)

Next == Profile \/ \E r \in Readers : First(r) \/ Walk(r)

Spec == Init /\ [][Next]_vars /\ \A r \in Readers : WF_vars(Walk(r))

-----------------------------------------------------------------------------
(* Properties                                                              *)

TypeOK ==
    /\ upper \in [Positions -> Nat]
    /\ lower \in [Positions -> 0..255]
    /\ order \in [Positions -> Positions]
    /\ data \in [Positions -> Positions]
    /\ pc \in {"transform", "rewrite", "fillin", "poll", "sort"}
    /\ i \in Positions
    /\ step \in {"upper", "lower", "order"}
    /\ x \in [Positions -> Positions \union {Junk}]
    /\ addr_stats \in [Positions -> Positions \union {Junk}]
    /\ rpc \in [Readers -> {"idle", "walk", "done"}]
    /\ left \in [Readers -> 0..(N - 1)]
    /\ rupper \in [Readers -> Nat \union {Unread}]
    /\ rlower \in [Readers -> 0..255 \union {Unread}]
    /\ answer \in [Readers -> Seq(Positions \union {Junk})]
    /\ pub \in [Positions -> Positions]
    /\ window \in [Readers -> SUBSET [Positions -> Positions]]

(* Between two rewrites the slab is exactly what the profiler's array says: *)
(* every table entry is the offset of its k-th address, no record is listed *)
(* twice, and the order field of each record names its entry, which is what *)
(* a later merge or subtraction relies on to rebuild the table.             *)
SettledSlab ==
    pc = "poll" =>
        /\ Permutation(addr_stats)
        /\ \A k \in Positions :
              /\ upper[k] = Upper(addr_stats[k])
              /\ lower[k] = Lower(addr_stats[k])
              /\ order[addr_stats[k]] = k

(* What a query renders at place k is what some listing in force since its  *)
(* first call has at place k: a walk that overlaps the profiler's rewrites  *)
(* mixes the old and the new order place by place, and shows nothing else.  *)
EntryRegular ==
    \A r \in Readers : \A k \in 1..Len(answer[r]) :
        \E l \in window[r] : answer[r][k] = l[k]

(* A query that overlaps no rewrite answers with the whole RRset, in the    *)
(* order the profiler published last.                                      *)
UndisturbedAnswer ==
    \A r \in Readers :
        rpc[r] = "done" /\ window[r] = {pub} =>
            /\ Len(answer[r]) = N
            /\ \A k \in Positions : answer[r][k] = pub[k]
            /\ \A p \in Positions : \E k \in Positions : answer[r][k] = p

(* The answer lists each record of the RRset at most once, although the     *)
(* table is sorted without the lock that profiler.c:454 leaves open.        *)
AnswerWithoutDuplicates ==
    \A r \in Readers : \A a, b \in 1..Len(answer[r]) :
        answer[r][a] = answer[r][b] => a = b

(* A query that started to render an RRset finishes, however often the      *)
(* profiler rewrites the slab under it.                                     *)
QueryFinishes == \A r \in Readers : rpc[r] = "walk" ~> rpc[r] = "done"
=============================================================================
