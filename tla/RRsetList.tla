------------------------------ MODULE RRsetList ------------------------------
(***************************************************************************)
(* What an RRset of the zone promises to those who query and update it: a  *)
(* list of distinct rdata, and at most one open copy of it.  New rdata go  *)
(* to the end of the copy, deletions leave the others in place, a commit   *)
(* publishes the copy at once, and the load balancer may reorder the list. *)
(***************************************************************************)
EXTENDS SequencesExt

CONSTANT Rdata

VARIABLES list, draft, isopen

Distinct(s) == s \in Seq(Rdata) /\ IsInjective(s)

Init == Distinct(list) /\ draft = list /\ isopen = FALSE

Open == ~isopen /\ isopen' = TRUE /\ draft' = list /\ UNCHANGED list

(* Adding appends rdata that are not there yet.                             *)
Add ==
    /\ isopen
    /\ IsPrefix(draft, draft') /\ Distinct(draft')
    /\ UNCHANGED <<list, isopen>>

(* Deleting leaves the rest in its order.                                   *)
Delete ==
    /\ isopen
    /\ draft' = SelectSeq(draft, LAMBDA r : r \in ToSet(draft'))
    /\ UNCHANGED <<list, isopen>>

Commit == isopen /\ isopen' = FALSE /\ list' = draft /\ draft' = draft
Rollback == isopen /\ isopen' = FALSE /\ draft' = list /\ UNCHANGED list

(* The load balancer permutes the list, and the copy as long as it is the   *)
(* same.                                                                    *)
Reorder ==
    /\ Distinct(list') /\ ToSet(list') = ToSet(list)
    /\ draft' = draft \/ (draft = list /\ draft' = list')
    /\ ~isopen => draft' = list'
    /\ UNCHANGED isopen

Next == Open \/ Add \/ Delete \/ Commit \/ Rollback \/ Reorder

Spec == Init /\ [][Next]_<<list, draft, isopen>>
=============================================================================
