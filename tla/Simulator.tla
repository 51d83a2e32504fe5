------------------------------ MODULE Simulator ------------------------------
(***************************************************************************)
(* The worker simulator (worker/simulator.rb): one process that stands for *)
(* all workers.  It keeps the jobs and the loads of each in a hash that    *)
(* four threads share: one ages the jobs, one writes the loads to files,   *)
(* one takes new jobs from the benchmark, and the others answer the        *)
(* profiler.  Every entry of the hash has its own lock, the hash has none. *)
(*                                                                         *)
(* Loads are whole numbers here; the code adds and subtracts floats.       *)
(***************************************************************************)
EXTENDS Integers, SequencesExt

CONSTANTS
    Preset,     \* addresses in the hash from the start
    Ips,        \* addresses that DNS answers may contain
    Jobs,       \* the jobs that the benchmark may send
    Limit,      \* 255.00 in the code
    MaxJobs     \* bound: jobs of one worker at a time

Kinds == {"cpu", "io", "net"}
Zero == [k \in Kinds |-> 0]

ASSUME JobsAssumption == Jobs \subseteq [cpu : Nat \ {0}, io : Nat \ {0},
                                        net : Nat \ {0}, life : Nat \ {0}]
ASSUME PresetAssumption == Preset \subseteq Ips

VARIABLES
    workers,    \* $workers: address -> [loads_num, loads, total]
    tick,       \* aging thread: [at, todo], todo the entries it has not visited
    dump,       \* dumping thread, likewise
    bench       \* the thread that serves the benchmark: "serve" or "dead"

vars == <<workers, tick, dump, bench>>

(* The job that every preset worker starts with                             *)
Phantom == [cpu |-> 0, io |-> 0, net |-> 0, life |-> 0]

Init ==
    /\ workers = [ip \in Preset |->
                     [loads_num |-> 1, loads |-> <<Phantom>>, total |-> Zero]]
    /\ tick = [at |-> "sleep", todo |-> {}]
    /\ dump = [at |-> "sleep", todo |-> {}]
    /\ bench = "serve"

-----------------------------------------------------------------------------
(* The aging thread                                                        *)

(* liveness_period - 1; below zero all values behave alike.                 *)
Older(j) == [j EXCEPT !.life = IF @ < 0 THEN @ ELSE @ - 1]

(* The loads of a worker that loses job j: its last job zeroes them.        *)
ReleasedNot(w, j) == IF w.loads_num = 1 THEN Zero ELSE w.total
Released(w, j) ==
    IF w.loads_num = 1 THEN Zero ELSE [k \in Kinds |-> w.total[k] - j[k]]

(* The body of each_index: a finished job is deleted at once, so that the   *)
(* next index skips the job that takes its place.                           *)
AgeJob(w, i) ==
    LET j == Older(w.loads[i])
    IN  IF j.life = 0
        THEN [loads_num |-> w.loads_num - 1,
              loads |-> RemoveAt(w.loads, i),
              total |-> Released(w, j)]
        ELSE [w EXCEPT !.loads[i] = j]

Age(w) == FoldLeft(LAMBDA u, i : IF i <= Len(u.loads) THEN AgeJob(u, i) ELSE u,
                   w, [i \in 1..Len(w.loads) |-> i])

TickBegin ==
    /\ tick.at = "sleep"
    /\ tick' = [at |-> "each", todo |-> DOMAIN workers]
    /\ UNCHANGED <<workers, dump, bench>>

TickWorker(ip) ==
    /\ tick.at = "each" /\ ip \in tick.todo
    /\ tick' = [tick EXCEPT !.todo = @ \ {ip}]
    /\ workers' = [workers EXCEPT ![ip] = IF @.loads_num > 0 THEN Age(@) ELSE @]
    /\ UNCHANGED <<dump, bench>>

TickEnd ==
    /\ tick.at = "each" /\ tick.todo = {}
    /\ tick' = [tick EXCEPT !.at = "sleep"]
    /\ UNCHANGED <<workers, dump, bench>>

-----------------------------------------------------------------------------
(* The dumping thread                                                      *)

(* Before it writes them, it zeroes loads of which one is not positive.     *)
CleanedNot(total) == total
Cleaned(total) == IF \E k \in Kinds : total[k] <= 0 THEN Zero ELSE total

DumpBegin ==
    /\ dump.at = "sleep"
    /\ dump' = [at |-> "each", todo |-> DOMAIN workers]
    /\ UNCHANGED <<workers, tick, bench>>

DumpWorker(ip) ==
    /\ dump.at = "each" /\ ip \in dump.todo
    /\ dump' = [dump EXCEPT !.todo = @ \ {ip}]
    /\ workers' = [workers EXCEPT ![ip].total = Cleaned(@)]
    /\ UNCHANGED <<tick, bench>>

(* It then walks the hash again to write worker_loads.csv.                  *)
DumpSave ==
    /\ \/ dump.at = "each" /\ dump.todo = {} /\ dump' = [dump EXCEPT !.at = "open"]
       \/ dump.at = "open" /\ dump' = [dump EXCEPT !.at = "save"]
       \/ dump.at = "save" /\ dump' = [dump EXCEPT !.at = "sleep"]
    /\ UNCHANGED <<workers, tick, bench>>

-----------------------------------------------------------------------------
(* The servers                                                             *)

Iterating == tick.at = "each" \/ dump.at \in {"each", "save"}

(* The loads after job j was added; beyond the limit only cpu_usage is      *)
(* reset, three times.                                                      *)
Charged(total, j) ==
    LET sum == [k \in Kinds |-> total[k] + j[k]]
    IN  IF \E k \in Kinds : sum[k] > Limit THEN [sum EXCEPT !.cpu = 0] ELSE sum

(* loads_num counts the new job, and is its place in the array.             *)
CountedLate(w) == w.loads_num
Counted(w) == w.loads_num + 1

(* proc_workload_message.  A hash that some thread iterates over takes no   *)
(* new key: Ruby raises an error, which ends this thread.                   *)
proc_workload_message(ip, j) ==
    /\ bench = "serve"
    /\ \/ /\ ip \notin DOMAIN workers /\ ~Iterating
          /\ workers' = [a \in DOMAIN workers \union {ip} |->
                 IF a = ip THEN [loads_num |-> 1, loads |-> <<j>>,
                                 total |-> [k \in Kinds |-> j[k]]]
                           ELSE workers[a]]
          /\ UNCHANGED bench
       \/ /\ ip \notin DOMAIN workers /\ Iterating
          /\ bench' = "dead" /\ UNCHANGED workers
       \/ /\ ip \in DOMAIN workers /\ Len(workers[ip].loads) < MaxJobs
          /\ workers' = [workers EXCEPT ![ip] =
                 [loads_num |-> Counted(@),
                  loads |-> Append(@.loads, j),
                  total |-> Charged(@.total, j)]]
          /\ UNCHANGED bench
    /\ UNCHANGED <<tick, dump>>

(* What a REQSTATS session answers: an unknown address has no load.         *)
reqstats(ip) == IF ip \in DOMAIN workers THEN workers[ip].total ELSE Zero

Tick == TickBegin \/ (\E ip \in Ips : TickWorker(ip)) \/ TickEnd
Dump == DumpBegin \/ (\E ip \in Ips : DumpWorker(ip)) \/ DumpSave

Next == Tick \/ Dump \/ \E ip \in Ips, j \in Jobs : proc_workload_message(ip, j)

Spec == Init /\ [][Next]_vars /\ WF_vars(Tick) /\ WF_vars(Dump)

-----------------------------------------------------------------------------
(* Properties                                                              *)

Load(w, k) == FoldLeft(LAMBDA sum, j : sum + j[k], 0, w.loads)
Idle(ip) == ip \in DOMAIN workers /\ \A i \in DOMAIN workers[ip].loads :
                                        workers[ip].loads[i].life <= 0

TypeOK ==
    /\ Preset \subseteq DOMAIN workers /\ DOMAIN workers \subseteq Ips
    /\ \A ip \in DOMAIN workers :
          /\ Len(workers[ip].loads) <= MaxJobs
          /\ workers[ip].loads_num \in 0..MaxJobs
          /\ \A k \in Kinds : workers[ip].total[k] \in Int
    /\ tick.at \in {"sleep", "each"} /\ tick.todo \subseteq DOMAIN workers
    /\ dump.at \in {"sleep", "each", "open", "save"}
    /\ dump.todo \subseteq DOMAIN workers
    /\ bench \in {"serve", "dead"}

(* The counter and the array agree after any interleaving of the threads: a *)
(* new job goes to index loads_num of the array, so that a counter that is  *)
(* off would overwrite a job or leave a hole that kills the aging thread.   *)
LoadsNumCounts ==
    TypeOK /\ \A ip \in DOMAIN workers : workers[ip].loads_num = Len(workers[ip].loads)

(* A worker never reports more load than its jobs put on it, in spite of    *)
(* resets, deletions while iterating, and the cleaning by the dumping       *)
(* thread: the load balancer never avoids a worker without reason.          *)
NeverOverReports ==
    \A ip \in Ips : \A k \in Kinds :
        reqstats(ip)[k] <= IF ip \in DOMAIN workers THEN Load(workers[ip], k) ELSE 0

(* Once no more jobs come, every job finishes and every worker reports that *)
(* it has no load, whatever drift the resets have left in its totals.       *)
DrainsToZero ==
    bench = "dead" ~> \A ip \in Ips : reqstats(ip) = Zero

(* A worker whose jobs have all finished reports no load from some time on, *)
(* unless a new job comes.                                                  *)
IdleReportsZero ==
    \A ip \in Ips : Idle(ip) ~> (reqstats(ip) = Zero \/ ~Idle(ip))
=============================================================================
