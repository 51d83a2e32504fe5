---------------------------- MODULE ZoneVersions ----------------------------
(***************************************************************************)
(* The versions of a zone database (lib/dns/rbtdb.c): readers hold the     *)
(* version that was current when they came, one writer at a time prepares  *)
(* the next, and the headers (rdatasets) that no version can see any more  *)
(* are freed when the last reference to their node is dropped.  The        *)
(* profiler of lb-bind is a reader that keeps the rdatasets it found and   *)
(* never drops its references.                                             *)
(*                                                                         *)
(* A version is named by its serial.  A node has the headers of one type,  *)
(* newest first (topheader and its down list).  A header is freed when it  *)
(* leaves that list.  Each action is one section under rbtdb->lock or a    *)
(* node lock, or one atomic step on a reference count.                     *)
(***************************************************************************)
EXTENDS Integers, Sequences, FiniteSets, SequencesExt

CONSTANTS
    Nodes,
    Readers,        \* the threads that open the current version
    Writers,        \* the threads that open a new version
    MaxSerial,      \* bound: the serial of the last version opened
    MaxHeaders,     \* bound: additions and deletions ever made
    None

ASSUME VersionsAssumption ==
    /\ IsFiniteSet(Readers) /\ IsFiniteSet(Writers)
    /\ MaxSerial \in Nat \ {0} /\ MaxHeaders \in Nat
    /\ None \notin Nodes

VARIABLES
    next_serial, current_version, future_version, least_serial,
    open_versions,  \* the committed versions in use, newest first
    references,     \* version -> references, rbtdb's own to the current one
    changed_list,   \* version -> its changed records [node, dirty]
    data,           \* node -> its headers, newest first
    dirty, noderefs,
    pc, version,    \* thread -> where it is in closeversion(), its version
    rdataset,       \* thread -> the node it refers to and the header bound
    cleanup_list, least, rollback,  \* closeversion()'s local variables
    headers,        \* additions and deletions so far, the next header's name
    snapshot        \* history: version -> node -> header, as written

dbVars == <<next_serial, current_version, future_version, least_serial,
            open_versions, references, changed_list>>
nodeVars == <<data, dirty, noderefs>>
threadVars == <<pc, version, rdataset, cleanup_list, least, rollback>>
vars == <<dbVars, nodeVars, threadVars, headers, snapshot>>

Threads == Readers \cup Writers
Serials == 1..MaxSerial
Header == [serial : Serials, id : 1..MaxHeaders, ignore : BOOLEAN, nonexistent : BOOLEAN]
Changed == [node : Nodes, dirty : BOOLEAN]
Unbound == [node |-> None, id |-> 0]

TypeOK ==
    /\ next_serial \in 2..MaxSerial + 1
    /\ current_version \in Serials /\ least_serial \in Serials
    /\ future_version \in 0..MaxSerial
    /\ open_versions \in Seq(Serials)
    /\ references \in [Serials -> 0..Cardinality(Threads) + 1]
    /\ changed_list \in [Serials -> Seq(Changed)]
    /\ data \in [Nodes -> Seq(Header)]
    /\ dirty \in [Nodes -> BOOLEAN] /\ noderefs \in [Nodes -> Nat]
    /\ pc \in [Threads -> {"idle", "commit", "close", "cleanup"}]
    /\ version \in [Threads -> 0..MaxSerial]
    /\ rdataset \in [Threads -> [node : Nodes \cup {None}, id : 0..MaxHeaders]]
    /\ cleanup_list \in [Threads -> Seq(Changed)]
    /\ least \in [Threads -> 0..MaxSerial] /\ rollback \in [Threads -> 0..MaxSerial]
    /\ headers \in 0..MaxHeaders
    /\ snapshot \in [Serials -> [Nodes -> 0..MaxHeaders]]

\* dns_rbtdb_create(): an empty zone, its first version current and open.
Init ==
    /\ next_serial = 2 /\ current_version = 1 /\ future_version = 0
    /\ least_serial = 1 /\ open_versions = <<1>>
    /\ references = [s \in Serials |-> IF s = 1 THEN 1 ELSE 0]
    /\ changed_list = [s \in Serials |-> <<>>]
    /\ data = [n \in Nodes |-> <<>>]
    /\ dirty = [n \in Nodes |-> FALSE]
    /\ noderefs = [n \in Nodes |-> 0]
    /\ pc = [t \in Threads |-> "idle"]
    /\ version = [t \in Threads |-> 0]
    /\ rdataset = [t \in Threads |-> Unbound]
    /\ cleanup_list = [t \in Threads |-> <<>>]
    /\ least = [t \in Threads |-> 0] /\ rollback = [t \in Threads |-> 0]
    /\ headers = 0
    /\ snapshot = [s \in Serials |-> [n \in Nodes |-> 0]]

-----------------------------------------------------------------------------
(***************************************************************************)
(* Readers.                                                                *)
(***************************************************************************)
currentversion(t) ==
    /\ t \in Readers /\ pc[t] = "idle" /\ version[t] = 0
    /\ version' = [version EXCEPT ![t] = current_version]
    /\ references' = [references EXCEPT ![current_version] = @ + 1]
    /\ UNCHANGED <<next_serial, current_version, future_version, least_serial,
                   open_versions, changed_list, nodeVars, pc, rdataset,
                   cleanup_list, least, rollback, headers, snapshot>>

\* The header a version sees at a node: its newest that is not ignored, unless
\* that says the rdataset does not exist; 0 is no header.
Seen(chain, serial) ==
    LET visible == {i \in DOMAIN chain : chain[i].serial <= serial /\ ~chain[i].ignore}
        first == CHOOSE i \in visible : \A j \in visible : i <= j
    IN  IF visible = {} \/ chain[first].nonexistent THEN 0 ELSE chain[first].id

\* dns_db_findnode() and findrdataset(): a reference, and the header found.
findrdataset(t, n) ==
    /\ pc[t] = "idle" /\ version[t] # 0 /\ rdataset[t] = Unbound
    /\ rdataset' = [rdataset EXCEPT ![t] =
                      [node |-> n, id |-> Seen(data[n], version[t])]]
    /\ noderefs' = [noderefs EXCEPT ![n] = @ + 1]
    /\ UNCHANGED <<dbVars, data, dirty, pc, version, cleanup_list, least,
                   rollback, headers, snapshot>>

(***************************************************************************)
(* clean_zone_node(): among headers of one version keep the newest, drop   *)
(* the ignored ones, and cut the list at the first one older than          *)
(* least_serial; the newest header stays unless it is a last "nonexistent".*)
(***************************************************************************)
CutBelow(least_serial_, chain) ==
    LET old == {i \in 2..Len(chain) : chain[i].serial < least_serial_}
    IN  IF old = {} THEN chain
        ELSE SubSeq(chain, 1, (CHOOSE i \in old : \A j \in old : i <= j) - 1)

OnePerSerial(chain) ==
    LET keep(kept, h) == IF h.serial = Last(kept).serial \/ h.ignore THEN kept
                                                                   ELSE Append(kept, h)
        kept == FoldLeft(keep, <<Head(chain)>>, Tail(chain))
    IN  IF Head(kept).ignore THEN Tail(kept) ELSE kept

clean_zone_node(chain, least_serial_) ==
    LET live == IF chain = <<>> THEN <<>> ELSE OnePerSerial(chain)
        cut == CutBelow(least_serial_, live)
    IN  IF Len(cut) = 1 /\ cut[1].nonexistent THEN <<>> ELSE cut

\* decrement_reference() on node n whose headers are chain: the last reference
\* to a dirty node cleans it.
CleanWhileReferenced(n, chain, isdirty, least_serial_) ==
    LET cleaned == IF isdirty THEN clean_zone_node(chain, least_serial_) ELSE chain
    IN  /\ noderefs' = [noderefs EXCEPT ![n] = @ - 1]
        /\ data' = [data EXCEPT ![n] = cleaned]
        /\ dirty' = [dirty EXCEPT ![n] = Len(cleaned) > 1]
ForgetStillDirty(n, chain, isdirty, least_serial_) ==
    LET last == noderefs[n] = 1 /\ isdirty
    IN  /\ noderefs' = [noderefs EXCEPT ![n] = @ - 1]
        /\ data' = [data EXCEPT ![n] = IF last THEN clean_zone_node(chain, least_serial_)
                                              ELSE chain]
        /\ dirty' = [dirty EXCEPT ![n] = isdirty /\ ~last]
decrement_reference(n, chain, isdirty, least_serial_) ==
    LET last == noderefs[n] = 1 /\ isdirty
        cleaned == clean_zone_node(chain, least_serial_)
    IN  /\ noderefs' = [noderefs EXCEPT ![n] = @ - 1]
        /\ data' = [data EXCEPT ![n] = IF last THEN cleaned ELSE chain]
        /\ dirty' = [dirty EXCEPT ![n] = IF last THEN Len(cleaned) > 1 ELSE isdirty]

\* dns_rdataset_disassociate() and detachnode(), which do not know the least
\* serial and read it.
detachnode(t) ==
    /\ pc[t] = "idle" /\ rdataset[t] # Unbound
    /\ LET n == rdataset[t].node IN decrement_reference(n, data[n], dirty[n], least_serial)
    /\ rdataset' = [rdataset EXCEPT ![t] = Unbound]
    /\ UNCHANGED <<dbVars, pc, version, cleanup_list, least, rollback, headers,
                   snapshot>>

-----------------------------------------------------------------------------
(***************************************************************************)
(* The writer.  While it works on a node it also holds a reference, which  *)
(* the changed record outlives.                                            *)
(***************************************************************************)
newversion(t) ==
    /\ t \in Writers /\ pc[t] = "idle" /\ version[t] = 0
    /\ future_version = 0 /\ next_serial <= MaxSerial
    /\ future_version' = next_serial
    /\ next_serial' = next_serial + 1
    /\ references' = [references EXCEPT ![next_serial] = 1]
    /\ version' = [version EXCEPT ![t] = next_serial]
    /\ snapshot' = [snapshot EXCEPT ![next_serial] = snapshot[current_version]]
    /\ UNCHANGED <<current_version, least_serial, open_versions, changed_list,
                   nodeVars, pc, rdataset, cleanup_list, least, rollback, headers>>

Writing(t) == pc[t] = "idle" /\ version[t] # 0 /\ version[t] = future_version

add_changedClean(s, n, isdirty) ==
    /\ changed_list' = [changed_list EXCEPT ![s] =
                          Append(@, [node |-> n, dirty |-> FALSE])]
    /\ noderefs' = [noderefs EXCEPT ![n] = @ + 1]
add_changedUncounted(s, n, isdirty) ==
    /\ changed_list' = [changed_list EXCEPT ![s] =
                          Append(@, [node |-> n, dirty |-> isdirty])]
    /\ UNCHANGED noderefs
add_changed(s, n, isdirty) ==
    /\ changed_list' = [changed_list EXCEPT ![s] =
                          Append(@, [node |-> n, dirty |-> isdirty])]
    /\ noderefs' = [noderefs EXCEPT ![n] = @ + 1]

\* A header goes on top of the list and makes the node dirty unless the list
\* was empty.
AddHeader(s, n, gone) ==
    /\ data' = [data EXCEPT ![n] =
                  <<[serial |-> s, id |-> headers', ignore |-> FALSE,
                     nonexistent |-> gone]>> \o @]
    /\ dirty' = [dirty EXCEPT ![n] = @ \/ data[n] # <<>>]
    /\ add_changed(s, n, data[n] # <<>>)
    /\ snapshot' = [snapshot EXCEPT ![s][n] = IF gone THEN 0 ELSE headers']

addrdataset(t, n) ==
    /\ Writing(t) /\ headers < MaxHeaders
    /\ headers' = headers + 1
    /\ AddHeader(version[t], n, FALSE)
    /\ UNCHANGED <<next_serial, current_version, future_version, least_serial,
                   open_versions, references, threadVars>>

\* Deleting what does not exist only leaves a changed record.
deleterdataset(t, n) ==
    /\ Writing(t) /\ headers < MaxHeaders
    /\ headers' = headers + 1
    /\ IF Seen(data[n], version[t]) # 0
       THEN AddHeader(version[t], n, TRUE)
       ELSE /\ add_changed(version[t], n, FALSE)
            /\ UNCHANGED <<data, dirty, snapshot>>
    /\ UNCHANGED <<next_serial, current_version, future_version, least_serial,
                   open_versions, references, threadVars>>

-----------------------------------------------------------------------------
(***************************************************************************)
(* closeversion().  The reference is dropped before rbtdb->lock is taken,  *)
(* and the nodes of the cleanup list are cleaned after it is released.     *)
(***************************************************************************)
CloseReference(t, commit) ==
    /\ pc[t] = "idle" /\ version[t] # 0
    /\ commit => version[t] = future_version
    /\ references' = [references EXCEPT ![version[t]] = @ - 1]
    /\ pc' = [pc EXCEPT ![t] = IF references[version[t]] > 1 THEN @
                               ELSE IF commit THEN "commit" ELSE "close"]
    /\ version' = [version EXCEPT ![t] = IF references[version[t]] > 1 THEN 0 ELSE @]
    /\ UNCHANGED <<next_serial, current_version, future_version, least_serial,
                   open_versions, changed_list, nodeVars, rdataset, cleanup_list,
                   least, rollback, headers, snapshot>>

\* What every path does last under the lock: remember least_serial and go on
\* with the list to clean up.
ToCleanup(t, list, undo) ==
    /\ cleanup_list' = [cleanup_list EXCEPT ![t] = list]
    /\ least' = [least EXCEPT ![t] = least_serial']
    /\ rollback' = [rollback EXCEPT ![t] = undo]
    /\ pc' = [pc EXCEPT ![t] = "cleanup"]
    /\ version' = [version EXCEPT ![t] = 0]
    /\ UNCHANGED <<next_serial, nodeVars, rdataset, headers, snapshot>>

Commit(t) ==
    LET v == version[t]
        cur == current_version
        unused == references[cur] = 1
        others == IF unused THEN SelectSeq(open_versions, LAMBDA s : s # cur)
                            ELSE open_versions
        mine == changed_list[v]
        kept == IF others = <<>> THEN <<>> ELSE SelectSeq(mine, LAMBDA c : c.dirty)
        free == IF others = <<>> THEN mine ELSE SelectSeq(mine, LAMBDA c : ~c.dirty)
    IN  /\ pc[t] = "commit"
        /\ least_serial' = IF others = <<>> THEN v ELSE least_serial
        /\ changed_list' = [changed_list EXCEPT
                              ![v] = IF unused THEN kept \o changed_list[cur] ELSE kept,
                              ![cur] = IF unused THEN <<>> ELSE @]
        /\ references' = [references EXCEPT ![cur] = @ - 1, ![v] = 1]
        /\ current_version' = v
        /\ future_version' = 0
        /\ open_versions' = <<v>> \o others
        /\ ToCleanup(t, free, 0)

Rollback(t) ==
    LET v == version[t]
    IN  /\ pc[t] = "close" /\ v = future_version
        /\ changed_list' = [changed_list EXCEPT ![v] = <<>>]
        /\ future_version' = 0
        /\ UNCHANGED <<current_version, least_serial, open_versions, references>>
        /\ ToCleanup(t, changed_list[v], v)

\* The version before v in the open list, which is the next newer one.
LeastGreaterIsCurrent(v) == current_version
LeastGreater(v) ==
    LET at == CHOOSE i \in DOMAIN open_versions : open_versions[i] = v
    IN  IF at = 1 THEN current_version ELSE open_versions[at - 1]

\* The last reader of an old version: its successor in the open list takes its
\* place as the least version, or its changed records.
CloseOld(t) ==
    LET v == version[t]
        least_greater == LeastGreater(v)
        was_least == v = least_serial
    IN  /\ pc[t] = "close" /\ v # future_version
        /\ open_versions' = SelectSeq(open_versions, LAMBDA s : s # v)
        /\ least_serial' = IF was_least THEN least_greater ELSE least_serial
        /\ changed_list' = [changed_list EXCEPT
                              ![least_greater] = IF was_least THEN <<>>
                                                 ELSE @ \o changed_list[v],
                              ![v] = IF was_least THEN @ ELSE <<>>]
        /\ UNCHANGED <<current_version, future_version, references>>
        /\ ToCleanup(t, IF was_least THEN changed_list[least_greater] ELSE <<>>, 0)

\* One node of the cleanup list, under its lock; a rolled-back version's
\* headers become ignored first (rollback_node).
CleanupNode(t) ==
    LET n == Head(cleanup_list[t]).node
        undone == [i \in DOMAIN data[n] |->
                     [data[n][i] EXCEPT !.ignore = @ \/ data[n][i].serial = rollback[t]]]
        hit == \E i \in DOMAIN data[n] : data[n][i].serial = rollback[t]
    IN  /\ pc[t] = "cleanup" /\ cleanup_list[t] # <<>>
        /\ decrement_reference(n, undone, dirty[n] \/ hit, least[t])
        /\ cleanup_list' = [cleanup_list EXCEPT ![t] = Tail(@)]
        /\ UNCHANGED <<dbVars, pc, version, rdataset, least, rollback, headers,
                       snapshot>>

CloseDone(t) ==
    /\ pc[t] = "cleanup" /\ cleanup_list[t] = <<>>
    /\ pc' = [pc EXCEPT ![t] = "idle"]
    /\ least' = [least EXCEPT ![t] = 0]
    /\ rollback' = [rollback EXCEPT ![t] = 0]
    /\ UNCHANGED <<dbVars, nodeVars, version, rdataset, cleanup_list, headers,
                   snapshot>>

-----------------------------------------------------------------------------
Next ==
    \E t \in Threads :
        \/ currentversion(t) \/ newversion(t) \/ detachnode(t)
        \/ \E n \in Nodes : findrdataset(t, n) \/ addrdataset(t, n) \/ deleterdataset(t, n)
        \/ \E commit \in BOOLEAN : CloseReference(t, commit)
        \/ Commit(t) \/ Rollback(t) \/ CloseOld(t) \/ CleanupNode(t) \/ CloseDone(t)

Spec == Init /\ [][Next]_vars

-----------------------------------------------------------------------------
(***************************************************************************)
(* Properties.                                                             *)
(***************************************************************************)
InUse == {s \in Serials : \E t \in Threads : pc[t] = "idle" /\ version[t] = s}

\* Whoever holds a version sees in every node exactly what that version was
\* committed with (the writer: what it has written so far), whatever is
\* committed, rolled back or cleaned meanwhile.  clean_zone_node() cuts below
\* least_serial and may cut what the least version sees; that it never runs
\* too early is the work of the references the changed lists hold.
Snapshots ==
    \A s \in InUse \cup {current_version}, n \in Nodes :
        Seen(data[n], s) = snapshot[s][n]

\* A bound rdataset is not freed before it is disassociated, its version closed
\* or not: the slabs that the profiler keeps, sorts and lists stay in memory.
BoundStays ==
    \A t \in Threads : rdataset[t].id # 0 =>
        \E i \in DOMAIN data[rdataset[t].node] :
            data[rdataset[t].node][i].id = rdataset[t].id

\* The INSISTs of closeversion(): the least version has no cleanup left to do,
\* so the version that is freed owes none, and the open list is in the order
\* of the serials, from the current version down to the least.
LeastIsClean ==
    /\ TypeOK
    /\ changed_list[least_serial] = <<>>
    /\ Head(open_versions) = current_version
    /\ Last(open_versions) = least_serial
    /\ \A i, j \in DOMAIN open_versions : i < j => open_versions[i] > open_versions[j]

\* A node's reference count is the number of its bound rdatasets and of the
\* changed records that name it, in a version or on a list being cleaned up.
NodeReferences ==
    \A n \in Nodes :
        noderefs[n] =
            Cardinality({t \in Threads : rdataset[t].node = n})
          + Cardinality({x \in Serials \X (1..MaxHeaders) :
                           x[2] \in DOMAIN changed_list[x[1]]
                             /\ changed_list[x[1]][x[2]].node = n})
          + Cardinality({x \in Threads \X (1..MaxHeaders) :
                           x[2] \in DOMAIN cleanup_list[x[1]]
                             /\ cleanup_list[x[1]][x[2]].node = n})

\* A header that a newer one hides, or that was rolled back, is on a dirty node:
\* the next release of the last reference will look at it.
HiddenIsDirty ==
    \A n \in Nodes :
        Len(data[n]) > 1 \/ (\E i \in DOMAIN data[n] : data[n][i].ignore) => dirty[n]
=============================================================================
