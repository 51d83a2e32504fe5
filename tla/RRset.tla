-------------------------------- MODULE RRset --------------------------------
(***************************************************************************)
(* The life of one RRset of a zone database (lib/dns/rbtdb.c): it is       *)
(* loaded from the zone file, the profiler transforms its slab once and    *)
(* then reorders it in place, and dynamic updates and zone transfers work  *)
(* on an open version of it that is committed or rolled back.  Each        *)
(* operation on a slab is one step here; SlabIteration takes the           *)
(* profiler's apart.                                                       *)
(***************************************************************************)
EXTENDS RdataSlab

CONSTANTS
    Rdata,      \* the rdata that may occur, a set of numbers
    TTLs,       \* the TTLs that may occur, positive
    MaxRRs,     \* bound: records in one piece of a load or of an update
    Singleton   \* TRUE for a type with at most one record (CNAME, SOA)

ASSUME RdataAssumption == Rdata \subseteq Nat /\ TTLs \subseteq Nat \ {0}
ASSUME BoundsAssumption == MaxRRs \in Nat /\ MaxCount \in Nat

VARIABLES
    current,    \* header in the current version: [slab, ttl, want]
    future,     \* header that the open version added, if it added one
    open,       \* the open version: "no", "shared" (sees current's header),
                \* or "own" (has added its own header)
    failed,     \* diff_apply stopped with an error: the version is rolled back
    scanned,    \* the profiler has walked the zone
    tracked,    \* the profiler's list holds the current header's slab
    last        \* history: the last piece of the open version and its result

vars == <<current, future, open, failed, scanned, tracked, last>>

(* The field want of a header is history: the rdata that the load and the  *)
(* accepted updates call for.                                              *)
Nonexistent == [slab |-> None, ttl |-> 0, want |-> {}]
Contents(h) == IF h.slab = None THEN {} ELSE ToSet(h.slab.data)
Lists(h) == IF h.slab = None THEN << >> ELSE Listing(h.slab)

NoPiece == [op |-> "none", result |-> "success", missing |-> FALSE]

Pieces == SeqOf(Rdata, MaxRRs) \ {<< >>}
Refused == {"failure", "nospace", "singleton", "notexact"}

-----------------------------------------------------------------------------
(* Adding to and subtracting from the header h that a version sees          *)

(* add with DNS_DBADD_MERGE; `exact' is DNS_DBADD_EXACT | DNS_DBADD_EXACTTTL *)
add(h, rrs, ttl, exact) ==
    LET n == fromrdataset(rrs, Singleton)
    IN  CASE n.result # "success" \/ h.slab = None -> n
          [] exact /\ ttl # h.ttl -> Fail("notexact")
          [] OTHER -> merge(h.slab, n.slab, Singleton, exact, ttl # h.ttl)

(* The merged header takes its TTL from the new one.                        *)
Added(h, rrs, ttl, m) ==
    [slab |-> IF m.result = "success" THEN m.slab ELSE h.slab,
     ttl |-> IF m.result = "success" THEN ttl ELSE h.ttl,
     want |-> h.want \union ToSet(rrs)]

(* subtractrdataset with DNS_DBSUB_EXACT, the only way named calls it       *)
subtractrdataset(h, rrs, ttl) ==
    LET n == fromrdataset(rrs, Singleton)
    IN  CASE n.result # "success" -> n
          [] h.slab = None \/ ttl # h.ttl -> Fail("notexact")
          [] OTHER -> subtract(h.slab, n.slab, TRUE)

SubtractedLeft(h, rrs, m) ==
    [slab |-> IF m.result = "success" THEN m.slab ELSE h.slab,
     ttl |-> h.ttl,
     want |-> h.want \ ToSet(rrs)]

Subtracted(h, rrs, m) ==
    [slab |-> IF m.result = "unchanged" THEN h.slab ELSE m.slab,
     ttl |-> IF m.result = "nxrrset" THEN 0 ELSE h.ttl,
     want |-> h.want \ ToSet(rrs)]

(* loading_addrdataset: the zone file lists the RRset in one or two pieces, *)
(* and no piece is refused.                                                 *)
Loaded(h) == {Added(h, rrs, ttl, add(h, rrs, ttl, FALSE)) :
    <<rrs, ttl>> \in {p \in Pieces \X TTLs :
                         add(h, p[1], p[2], FALSE).result \notin Refused}}

Init ==
    /\ current \in Loaded(Nonexistent) \union UNION {Loaded(h) : h \in Loaded(Nonexistent)}
    /\ future = Nonexistent /\ open = "no" /\ failed = FALSE
    /\ scanned = FALSE /\ tracked = FALSE
    /\ last = NoPiece

-----------------------------------------------------------------------------
(* Versions                                                                *)

newversion ==
    /\ open = "no" /\ open' = "shared"
    /\ UNCHANGED <<current, future, failed, scanned, tracked, last>>

(* The header that the open version sees: its own, or the current one       *)
SeenCommitted == current
Seen == IF open = "own" THEN future ELSE current

(* One group of a diff in diff_apply: DNS_R_UNCHANGED and DNS_R_NXRRSET are *)
(* fine, any other failure ends the diff.                                   *)
diff_apply(op, rrs, ttl) ==
    LET m == IF op = "add" THEN add(Seen, rrs, ttl, TRUE)
                           ELSE subtractrdataset(Seen, rrs, ttl)
    IN  /\ open # "no" /\ ~failed
        /\ failed' = (m.result \in Refused)
        /\ IF m.result \in {"success", "nxrrset"}
              THEN /\ open' = "own"
                   /\ future' = IF op = "add" THEN Added(Seen, rrs, ttl, m)
                                              ELSE Subtracted(Seen, rrs, m)
              ELSE UNCHANGED <<open, future>>
        /\ last' = [op |-> op, result |-> m.result,
                    missing |-> ~(ToSet(rrs) \subseteq Contents(Seen)) \/ ttl # Seen.ttl]
        /\ UNCHANGED <<current, scanned, tracked>>

(* closeversion: a commit makes the open version the current one, whose     *)
(* header the profiler does not know; a rollback ignores what was added.    *)
closeversion(commit) ==
    /\ open # "no" /\ open' = "no"
    /\ commit => ~failed
    /\ IF commit /\ open = "own"
          THEN current' = future /\ tracked' = FALSE
          ELSE UNCHANGED <<current, tracked>>
    /\ future' = Nonexistent /\ failed' = FALSE /\ last' = NoPiece
    /\ UNCHANGED scanned

-----------------------------------------------------------------------------
(* The profiler                                                            *)

(* ns_profiler_thread visits the RRset once, transforms its slab if it has  *)
(* more than one record, and keeps it in its list.                          *)
ProfilerScan ==
    /\ ~scanned /\ scanned' = TRUE
    /\ IF current.slab # None /\ Count(current.slab) > 1
          THEN /\ current' = [current EXCEPT !.slab = transformrdataset(@)]
               /\ tracked' = TRUE
          ELSE UNCHANGED <<current, tracked>>
    /\ UNCHANGED <<future, open, failed, last>>

(* ns_profiler_update_addrs sorts the slab it holds, if its records are     *)
(* addresses.  A sort of a slab that a commit has replaced reaches no later *)
(* query.                                                                   *)
ProfilerSort ==
    /\ tracked
    /\ \E stats \in SetToSeqs(DOMAIN current.slab.data) :
          current' = [current EXCEPT !.slab = sort_fromrdataset(@, stats)]
    /\ UNCHANGED <<future, open, failed, scanned, tracked, last>>

Next ==
    \/ newversion
    \/ \E op \in {"add", "delete"}, rrs \in Pieces, ttl \in TTLs : diff_apply(op, rrs, ttl)
    \/ \E commit \in BOOLEAN : closeversion(commit)
    \/ ProfilerScan
    \/ ProfilerSort

Spec == Init /\ [][Next]_vars
-----------------------------------------------------------------------------
(* Properties                                                              *)

Headers == {current, future}

TypeOK ==
    /\ \A h \in Headers :
          /\ h.slab # None =>
                /\ h.slab.data \in Seq(Rdata)
                /\ h.slab.offs \in Seq(DOMAIN h.slab.data)
                /\ h.slab.order \in [DOMAIN h.slab.data -> DOMAIN h.slab.data]
          /\ h.ttl \in TTLs \union {0}
          /\ h.want \subseteq Rdata
    /\ open \in {"no", "shared", "own"}
    /\ failed \in BOOLEAN /\ scanned \in BOOLEAN /\ tracked \in BOOLEAN
    /\ last.result \in {"success", "unchanged", "nxrrset"} \union Refused

(* The records stay in DNSSEC order, which the early exit of rdata_in_slab  *)
(* and the loop of dns_rdataslab_merge rely on, whatever the profiler does  *)
(* to the slab before an update merges it; and no rdata is stored twice     *)
(* ("rdataslabs do not contain duplicates", rdataslab.c:1193).              *)
DnssecOrder ==
    \A h \in Headers : h.slab # None =>
        \A p, q \in DOMAIN h.slab.data : p < q => h.slab.data[p] < h.slab.data[q]

(* The offset table lists every record once and the order field of a record *)
(* names its entry, so that the next merge or subtraction can rebuild the   *)
(* table and does not fail its INSIST(oorder < ocount).                     *)
TableConsistent ==
    /\ TypeOK
    /\ \A h \in Headers : h.slab # None =>
          /\ Len(h.slab.offs) = Count(h.slab)
          /\ \A p \in DOMAIN h.slab.data : h.slab.offs[h.slab.order[p]] = p

(* Each version holds exactly the rdata that the load and the accepted      *)
(* pieces of updates add up to.                                             *)
UpdateMeaning == \A h \in Headers : Contents(h) = h.want

(* An update with rdata that do not all exist, or with another TTL, fails   *)
(* with DNS_R_NOTEXACT when it deletes and is never taken for a no-op when  *)
(* it adds; an addition of what exists already is reported as a no-op.      *)
UpdateVerdict ==
    last.result \notin {"failure", "nospace", "singleton"} =>
        /\ last.op = "delete" => (last.result = "notexact" <=> last.missing)
        /\ last.op = "add" => (last.result = "unchanged" <=> ~last.missing)

(* The RRset implements a list of distinct rdata with atomic updates:       *)
(* pieces append to or delete from the open copy, a commit publishes it     *)
(* whole, a rollback leaves no trace, and the profiler only reorders.       *)
Abstract == INSTANCE RRsetList
                WITH list <- Lists(current), draft <- Lists(Seen),
                     isopen <- (open # "no")
ImplementsList == Abstract!Spec
=============================================================================
