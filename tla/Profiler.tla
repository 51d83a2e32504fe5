------------------------------- MODULE Profiler -------------------------------
(***************************************************************************)
(* The endless loop of the profiler thread in named                        *)
(* (ns_profiler_update_addrs in bin/named/profiler.c): for every RRset in  *)
(* its list it asks the worker behind each address for its loads, sorts    *)
(* the addresses by them and writes the new order into the offset table.   *)
(* Workers are an environment: at each poll they answer, close the         *)
(* connection, refuse it, reset it or never answer.                        *)
(***************************************************************************)
EXTENDS Integers, Sequences

CONSTANTS
    NAddrs,     \* sequence: naddrs of each list node, 0 if not of type A
    Replies,    \* loads that workers may report: records [cpu, io, net]
    HasTTL,     \* TRUE if the environment variable TTL is set
    CanReset,   \* TRUE if a worker may reset a connection it has accepted
    CanHang     \* TRUE if a worker may keep it open and never answer

ASSUME NAddrsAssumption == NAddrs \in Seq(Nat)
ASSUME RepliesAssumption == Replies \subseteq [cpu : Nat, io : Nat, net : Nat]

VARIABLES
    pc,         \* where the thread is
    node,       \* index of the list node it works on
    i,          \* index of the address it polls
    stats,      \* addr_stats of each node: records [addr, load, down]
    table       \* the addresses in the order of each slab's offset table

vars == <<pc, node, i, stats, table>>

Nodes == DOMAIN NAddrs

(* What ns_profiler_poll_workers stores for a worker it cannot reach        *)
DownLoad == [cpu |-> 255, io |-> 255, net |-> 255]

(* CALC_LOAD with its weights 0.5, 0.25 and 0.25, in quarters               *)
Unit == 4
CALC_LOAD(a) == 2 * a.load.cpu + a.load.io + a.load.net

(* cmp: the difference of two floats, converted to int                      *)
cmpSwapped(a, b) == CALC_LOAD(b) - CALC_LOAD(a)
cmp(a, b) ==
    LET d == CALC_LOAD(a) - CALC_LOAD(b)
    IN  IF d < 0 THEN -((-d) \div Unit) ELSE d \div Unit

(* qsort of the C library: a merge sort that prefers the left on ties       *)
RECURSIVE MergeRuns(_, _)
MergeRuns(a, b) ==
    IF a = << >> \/ b = << >> THEN a \o b
    ELSE IF cmp(Head(a), Head(b)) <= 0
         THEN <<Head(a)>> \o MergeRuns(Tail(a), b)
         ELSE <<Head(b)>> \o MergeRuns(a, Tail(b))

RECURSIVE qsort(_)
qsort(s) ==
    LET half == Len(s) \div 2
    IN  IF Len(s) <= 1 THEN s
        ELSE MergeRuns(qsort(SubSeq(s, 1, half)), qsort(SubSeq(s, half + 1, Len(s))))

Addresses(s) == [k \in DOMAIN s |-> s[k].addr]

(* ns_profiler_thread stored the addresses; their loads are zero (memset).  *)
Init ==
    /\ pc = "start" /\ node = 1 /\ i = 1
    /\ stats = [n \in Nodes |-> [k \in 1..NAddrs[n] |->
                  [addr |-> k, load |-> [cpu |-> 0, io |-> 0, net |-> 0], down |-> FALSE]]]
    /\ table = [n \in Nodes |-> [k \in 1..NAddrs[n] |-> k]]

(* Without the variable TTL, the interval between two polls, EPRINT exits.  *)
UpdateAddrs ==
    /\ pc = "start"
    /\ pc' = IF HasTTL THEN "wait" ELSE "exit"
    /\ UNCHANGED <<node, i, stats, table>>

(* mywait, then the list from its head                                      *)
WaitInPlace ==
    /\ pc = "wait"
    /\ pc' = "node"
    /\ UNCHANGED <<node, i, stats, table>>

Wait ==
    /\ pc = "wait"
    /\ pc' = "node" /\ node' = 1
    /\ UNCHANGED <<i, stats, table>>

(* The loop over the list skips a node without addresses.                   *)
NextNode ==
    /\ pc = "node"
    /\ IF node > Len(NAddrs) THEN pc' = "wait" /\ UNCHANGED <<node, i>>
       ELSE IF NAddrs[node] = 0 THEN node' = node + 1 /\ UNCHANGED <<pc, i>>
       ELSE pc' = "connect" /\ i' = 1 /\ UNCHANGED node
    /\ UNCHANGED <<stats, table>>

(* The poll of address i ends with these loads.                             *)
Polled(load, down) ==
    /\ stats' = [stats EXCEPT ![node][i].load = load, ![node][i].down = down]
    /\ IF i < NAddrs[node] THEN i' = i + 1 /\ pc' = "connect"
                           ELSE pc' = "sort" /\ UNCHANGED i
    /\ UNCHANGED <<node, table>>

connectToServer ==
    /\ pc = "connect"
    /\ \/ pc' = "write" /\ UNCHANGED <<node, i, stats, table>>
       \/ Polled(DownLoad, TRUE)

(* sendMessage: a failing write ends the process with exit(0) ...           *)
SendRequest ==
    /\ pc = "write"
    /\ \/ pc' = "recv"
       \/ CanReset /\ pc' = "exit"
    /\ UNCHANGED <<node, i, stats, table>>

(* ... and recv blocks until there is an answer or the end of the stream;   *)
(* no answer and an answer whose digest is wrong count as a worker that is  *)
(* down.                                                                    *)
ReceiveReply ==
    /\ pc = "recv"
    /\ \/ \E load \in Replies : Polled(load, FALSE)
       \/ Polled(DownLoad, TRUE)
       \/ CanHang /\ pc' = "blocked" /\ UNCHANGED <<node, i, stats, table>>

(* qsort of the node's array, then dns_rdataslab_sort_fromrdataset          *)
SortNodeEarly ==
    /\ pc = "sort"
    /\ stats' = [stats EXCEPT ![node] = qsort(@)]
    /\ table' = [table EXCEPT ![node] = Addresses(stats[node])]
    /\ pc' = "node" /\ node' = node + 1
    /\ UNCHANGED i

SortNode ==
    /\ pc = "sort"
    /\ stats' = [stats EXCEPT ![node] = qsort(@)]
    /\ table' = [table EXCEPT ![node] = Addresses(stats'[node])]
    /\ pc' = "node" /\ node' = node + 1
    /\ UNCHANGED i

Next == UpdateAddrs \/ Wait \/ NextNode \/ connectToServer \/ SendRequest
        \/ ReceiveReply \/ SortNode

Spec == Init /\ [][Next]_vars /\ WF_vars(Next)

-----------------------------------------------------------------------------
(* Properties                                                              *)

TypeOK ==
    /\ pc \in {"start", "wait", "node", "connect", "write", "recv", "sort", "exit", "blocked"}
    /\ node \in 1..(Len(NAddrs) + 1)
    /\ i \in Nat \ {0}
    /\ \A n \in Nodes :
          /\ stats[n] \in Seq([addr : 1..NAddrs[n], load : Replies \union
                  {DownLoad, [cpu |-> 0, io |-> 0, net |-> 0]}, down : BOOLEAN])
          /\ table[n] \in [1..NAddrs[n] -> 1..NAddrs[n]]

Polling(n) == node = n /\ pc \notin {"start", "wait", "node"}

(* The profiler's array and the offset table list the same addresses in the *)
(* same order, each once, however often they are sorted: an array that lost *)
(* or repeated an address would do the same to the answers.                 *)
TableMirrorsStats ==
    /\ TypeOK
    /\ \A n \in Nodes :
          /\ table[n] = Addresses(stats[n])
          /\ \A a \in 1..NAddrs[n] : \E k \in DOMAIN table[n] : table[n][k] = a

(* cmp drops the fraction of a difference, so that loads less than one unit *)
(* apart compare as equal and the comparison is not transitive.  The sort   *)
(* still bounds the damage: an address is listed k places before one with a *)
(* smaller load only if the loads differ by less than k units.              *)
BoundedInversion ==
    \A n \in Nodes : ~Polling(n) =>
        \A a, b \in DOMAIN stats[n] : a < b =>
            CALC_LOAD(stats[n][a]) - CALC_LOAD(stats[n][b]) < (b - a) * Unit

(* A worker that is down is last in the list (profiler.c:381: "The worker   *)
(* is down put it last in the list").                                       *)
DownLast ==
    \A n \in Nodes : ~Polling(n) =>
        \A a, b \in DOMAIN stats[n] : a < b /\ stats[n][a].down => stats[n][b].down

(* Every RRset of addresses is polled and sorted again and again, unless a  *)
(* worker resets a connection or keeps one open and never answers.          *)
KeepsSorting ==
    \A n \in Nodes : NAddrs[n] > 0 =>
        []<>((pc = "sort" /\ node = n) \/ pc \in {"exit", "blocked"})
=============================================================================
