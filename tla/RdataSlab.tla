------------------------------ MODULE RdataSlab ------------------------------
(***************************************************************************)
(* The operations of lib/dns/rdataslab.c on whole slabs, as operators.     *)
(*                                                                         *)
(* An rdata is a number, its place in the DNSSEC order that                *)
(* dns_rdata_compare implements.  A slab is a record:                      *)
(*   data   the rdata of the records in physical order;                    *)
(*   offs   the offset table; an offset is named by the physical position  *)
(*          of the record that starts there;                               *)
(*   order  the order field of each record, counted from 1.                *)
(* Operations that return an isc_result_t give [result, slab], where slab  *)
(* is the new slab on "success" and None otherwise.                        *)
(***************************************************************************)
EXTENDS Integers, SequencesExt

CONSTANTS
    MaxCount,   \* largest record count, 0xffff in the code
    LBBIND,     \* TRUE for a build with -DLBBIND
    None        \* no slab

Succeed(s) == [result |-> "success", slab |-> s]
Fail(r) == [result |-> r, slab |-> None]

Count(s) == Len(s.data)

(* The order in which a load-order walk lists the rdata of a slab           *)
Listing(s) == [k \in 1..Len(s.offs) |-> s.data[s.offs[k]]]

(* fillin_offsets: the temporary table ot has a position or 0 per slot; the *)
(* non-zero slots become the table, and each record learns its entry.       *)
fillin_offsetsInverse(data, ot) ==
    LET t == SelectSeq(ot, LAMBDA p : p # 0)
    IN  [data |-> data, offs |-> t, order |-> t]

fillin_offsets(data, ot) ==
    LET t == SelectSeq(ot, LAMBDA p : p # 0)
    IN  [data |-> data,
         offs |-> t,
         order |-> [p \in DOMAIN data |-> CHOOSE k \in DOMAIN t : t[k] = p]]

(* dns_rdataslab_fromrdataset: the distinct rdata in DNSSEC order; a        *)
(* duplicate keeps the least of its places in the load order.               *)
fromrdataset(rrs, singleton) ==
    LET data == SetToSortSeq(ToSet(rrs), <)
        first(k) == \A j \in 1..(k - 1) : rrs[j] # rrs[k]
        ot == [k \in DOMAIN rrs |->
                  IF first(k) THEN CHOOSE p \in DOMAIN data : data[p] = rrs[k]
                              ELSE 0]
    IN  CASE rrs = << >> -> Fail("failure")
          [] Len(rrs) > MaxCount -> Fail("nospace")
          [] singleton /\ Len(data) > 1 -> Fail("singleton")
          [] OTHER -> Succeed(fillin_offsets(data, ot))

(* rdata_in_slab: walks the records and gives up at the first one that is   *)
(* greater than r.                                                          *)
rdata_in_slab(s, r) ==
    \E p \in DOMAIN s.data :
        s.data[p] = r /\ \A q \in 1..(p - 1) : s.data[q] <= r

(* The copy loop of dns_rdataslab_merge: whether the next record comes from *)
(* o, after a records of o and b of the new records of n                    *)
FromOldFirst(o, n, new, a, b) == b = Len(new) \/ a < Count(o)
FromOld(o, n, new, a, b) ==
    \/ b = Len(new)
    \/ a < Count(o) /\ o.data[a + 1] < n.data[new[b + 1]]

(* dns_rdataslab_merge refuses a count that the count field cannot hold.    *)
TooMany(c) == c > MaxCount

(* dns_rdataslab_merge: the records of o and those of n that are not in o,  *)
(* taken by comparing the heads of the two.  A record of o keeps its slot   *)
(* of the offset table, those of n follow.                                  *)
merge(o, n, singleton, exact, force) ==
    LET new == SelectSeq([p \in DOMAIN n.data |-> p],
                         LAMBDA p : ~rdata_in_slab(o, n.data[p]))
        tcount == Count(o) + Len(new)
        \* what is copied after a records of o and b of the new ones
        rest[a \in 0..Count(o), b \in 0..Len(new)] ==
            IF a = Count(o) /\ b = Len(new) THEN << >>
            ELSE IF FromOld(o, n, new, a, b)
                 THEN <<[rdata |-> o.data[a + 1], slot |-> o.order[a + 1]]>>
                         \o rest[a + 1, b]
                 ELSE <<[rdata |-> n.data[new[b + 1]],
                         slot |-> Count(o) + n.order[new[b + 1]]]>>
                         \o rest[a, b + 1]
        copied == rest[0, 0]
        ot == [k \in 1..(Count(o) + Count(n)) |->
                  SelectLastInSeq(copied, LAMBDA c : c.slot = k)]
    IN  CASE exact /\ tcount # Len(new) + Count(o) -> Fail("notexact")
          [] new = << >> /\ ~force -> Fail("unchanged")
          [] singleton /\ tcount > 1 -> Fail("singleton")
          [] TooMany(tcount) -> Fail("nospace")
          [] OTHER -> Succeed(fillin_offsets(
                         [k \in DOMAIN copied |-> copied[k].rdata], ot))

(* The EXACT check of dns_rdataslab_subtract: not all of s was in m.        *)
InexactNever(rcount, s) == FALSE
Inexact(rcount, s) == rcount # Count(s)

(* dns_rdataslab_subtract: the records of m that are not in s, each in its  *)
(* old slot of the offset table.                                            *)
subtract(m, s, exact) ==
    LET kept == SelectSeq([p \in DOMAIN m.data |-> p],
                          LAMBDA p : m.data[p] \notin ToSet(s.data))
        rcount == Count(m) - Len(kept)
        ot == [k \in 1..Count(m) |->
                  SelectLastInSeq(kept, LAMBDA p : m.order[p] = k)]
    IN  CASE exact /\ Inexact(rcount, s) -> Fail("notexact")
          [] kept = << >> -> Fail("nxrrset")
          [] rcount = 0 -> Fail("unchanged")
          [] OTHER -> Succeed(fillin_offsets(
                         [k \in DOMAIN kept |-> m.data[kept[k]]], ot))

(* dns_rdataslab_transformrdataset: rewrites the slab in the order in which *)
(* the rdataset's methods iterate over it.                                  *)
transformrdataset(s) ==
    LET data == IF LBBIND THEN Listing(s) ELSE s.data
    IN  fillin_offsets(data, [k \in DOMAIN data |-> k])

(* dns_rdataslab_sort_fromrdataset: the table lists the records in the      *)
(* order of the profiler's array, here given by their positions.            *)
sort_fromrdataset(s, stats) ==
    [s EXCEPT !.offs = stats,
              !.order = [p \in DOMAIN s.data |->
                            CHOOSE k \in DOMAIN stats : stats[k] = p]]
=============================================================================
