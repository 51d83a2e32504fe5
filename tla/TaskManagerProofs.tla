------------------------- MODULE TaskManagerProofs -------------------------
(***************************************************************************)
(* For any tasks, workers, clients and calls: while a handler has          *)
(* exclusive access no other task runs.  The inductive invariant adds what *)
(* the code relies on and no variable says: exclusive_requested is set     *)
(* from the request to the end, so that one handler at a time asks, and no *)
(* worker takes a task meanwhile.                                          *)
(***************************************************************************)
EXTENDS TaskManager, FiniteSetTheorems, TLAPS

Busy == {"start", "action", "granting", "grantwait", "exclusive", "finish", "park"}
Asking == {"granting", "grantwait", "exclusive"}

(* What matters of a program point.                                         *)
Role(p) == <<p \in Busy, p \in Asking, p = "exclusive">>

IndInv ==
    /\ DOMAIN pc = Threads
    /\ exclusive_requested \in BOOLEAN /\ pause_requested \in BOOLEAN
    /\ \A w \in Workers : pc[w] \in Asking => exclusive_requested
    /\ \A v, w \in Workers : pc[v] \in Asking /\ pc[w] \in Asking => v = w
    /\ Exclusion

(* tasks_running counts a finite set. *)
LEMMA ActiveFinite == IsFiniteSet(Active) /\ Cardinality(Active) \in Nat
BY TasksAssumption, FS_Subset, FS_CardinalityType DEF Active

(* A step that moves no worker into another role, and asks for nothing,    *)
(* preserves the invariant.                                                *)
LEMMA QuietStep ==
    ASSUME IndInv, DOMAIN pc' = Threads,
           \A w \in Workers : Role(pc'[w]) = Role(pc[w]),
           UNCHANGED <<tasks_running, exclusive_requested>>,
           pause_requested' \in BOOLEAN, pause_requested' => pause_requested
    PROVE  IndInv'
<1>1. \A w \in Workers : /\ pc'[w] \in Busy <=> pc[w] \in Busy
                         /\ pc'[w] \in Asking <=> pc[w] \in Asking
                         /\ pc'[w] = "exclusive" <=> pc[w] = "exclusive"
  BY DEF Role
<1>2. Active' = Active
  BY <1>1 DEF Active, Busy
<1>3. Exclusion'
  BY <1>1, <1>2 DEF IndInv, Exclusion
<1> QED
  BY <1>1, <1>3 DEF IndInv

(* Waking sleepers moves none of them into another role. *)
LEMMA WakeIsQuiet ==
    ASSUME NEW S, \A c \in S : pc[c] \in {"wait", "grantwait", "pausewait"}
    PROVE  /\ DOMAIN Wake(S) = Threads
           /\ \A c \in Threads : Role(Wake(S)[c]) = Role(pc[c])
<1>1. DOMAIN Wake(S) = Threads
  BY DEF Wake
<1>2. ASSUME NEW c \in Threads PROVE Role(Wake(S)[c]) = Role(pc[c])
  <2>1. CASE c \notin S
    BY <2>1 DEF Wake
  <2>2. CASE c \in S
    <3>1. Wake(S)[c] = Awake[pc[c]]
      BY <2>2 DEF Wake
    <3>2. \/ pc[c] = "wait" /\ Awake[pc[c]] = "loop"
          \/ pc[c] = "grantwait" /\ Awake[pc[c]] = "granting"
          \/ pc[c] = "pausewait" /\ Awake[pc[c]] = "pausing"
      BY <2>2 DEF Awake
    <3> QED
      BY <3>1, <3>2 DEF Role, Busy, Asking
  <2> QED
    BY <2>1, <2>2
<1> QED
  BY <1>1, <1>2

Sleepers(S) == \A c \in S : pc[c] \in {"wait", "grantwait", "pausewait"}

(* A thread moves within its role, alone or while it wakes others. *)
LEMMA MoveIsQuiet ==
    ASSUME DOMAIN pc = Threads, NEW c \in Threads, NEW to, NEW S, Sleepers(S),
           Role(to) = Role(pc[c]) \/ c \in Clients,
           pc' \in {[pc EXCEPT ![c] = to], [Wake(S) EXCEPT ![c] = to]}
    PROVE  DOMAIN pc' = Threads /\ \A w \in Workers : Role(pc'[w]) = Role(pc[w])
<1>1. DOMAIN Wake(S) = Threads /\ \A u \in Threads : Role(Wake(S)[u]) = Role(pc[u])
  BY WakeIsQuiet DEF Sleepers
<1>2. DOMAIN pc' = Threads
  BY <1>1
<1>3. ASSUME NEW w \in Workers PROVE Role(pc'[w]) = Role(pc[w])
  <2>1. w \in Threads
    BY DEF Threads
  <2>2. CASE w = c
    <3>1. pc'[w] = to /\ c \notin Clients
      BY <1>1, <2>1, <2>2, TasksAssumption
    <3> QED
      BY <2>2, <3>1
  <2>3. CASE w # c
    <3>1. pc'[w] \in {pc[w], Wake(S)[w]}
      BY <1>1, <2>1, <2>3
    <3> QED
      BY <1>1, <2>1, <3>1
  <2> QED
    BY <2>2, <2>3
<1> QED
  BY <1>2, <1>3

(* The calls on tasks, and the steps that only change a task, move nobody. *)
LEMMA CallsAreQuiet ==
    ASSUME IndInv, NEW c \in Threads,
           \/ \E t \in Tasks : Call(c, t) \/ DestroyTask(c, t)
           \/ isc__taskmgr_setmode(c)
    PROVE  IndInv'
<1>1. UNCHANGED <<pc, tasks_running, exclusive_requested, pause_requested>>
  BY DEF Call, isc__task_create, isc__task_attach, isc__task_detach, isc__task_send,
         isc__task_sendanddetach, isc__task_purge, isc__task_onshutdown,
         isc__task_shutdown, DestroyTask, isc__taskmgr_setmode, queueVars, gateVars,
         threadVars
<1> QED
  BY <1>1, QuietStep DEF IndInv

(* A signal or broadcast by a step that moves nobody else. *)
LEMMA WakesAreQuiet ==
    ASSUME IndInv, NEW c \in Threads, task_ready(c) \/ SpuriousWakeup(c)
    PROVE  IndInv'
<1>1. UNCHANGED <<tasks_running, exclusive_requested, pause_requested>>
  BY DEF task_ready, SpuriousWakeup, queueVars, gateVars
<1>2. PICK S : Sleepers(S) /\ pc' \in {pc, Wake(S)}
  <2>1. CASE task_ready(c)
    <3>1. CASE pc' = pc
      <4>1. Sleepers({})
        BY DEF Sleepers
      <4> QED
        BY <3>1, <4>1
    <3>2. CASE \E S \in Signal(Asleep("wait")) : pc' = Wake(S)
      <4>1. \A S \in Signal(Asleep("wait")) : Sleepers(S)
        BY DEF Sleepers, Signal, Asleep
      <4> QED
        BY <3>2, <4>1
    <3> QED
      BY <2>1, <3>1, <3>2 DEF task_ready
  <2>2. CASE SpuriousWakeup(c)
    <3>1. pc' = Wake({c}) /\ pc[c] \in {"wait", "grantwait", "pausewait"}
      BY <2>2 DEF SpuriousWakeup, Awake
    <3> QED
      BY <3>1 DEF Sleepers
  <2> QED
    BY <2>1, <2>2
<1>3. DOMAIN pc' = Threads /\ \A w \in Workers : Role(pc'[w]) = Role(pc[w])
  BY <1>2, WakeIsQuiet DEF IndInv, Sleepers, Threads
<1> QED
  BY <1>1, <1>3, QuietStep DEF IndInv

(* The steps of the worker loop that neither take nor give back a task, and *)
(* the steps of a client.                                                   *)
LEMMA MovesAreQuiet ==
    ASSUME IndInv, NEW c \in Threads,
           \/ c \in Workers /\ \/ WorkerWait(c) \/ WorkerExit(c) \/ StartTask(c)
                               \/ EndAction(c) \/ task_finished(c)
           \/ c \in Clients /\ \/ isc__taskmgr_resume(c) \/ DestroyDone(c)
                               \/ Join(c) \/ Destroy(c)
    PROVE  IndInv'
<1>1. /\ UNCHANGED <<tasks_running, exclusive_requested>>
      /\ pause_requested' \in BOOLEAN /\ (pause_requested' => pause_requested)
  <2>1. CASE \/ WorkerWait(c) \/ WorkerExit(c) \/ StartTask(c) \/ EndAction(c)
             \/ task_finished(c) \/ DestroyDone(c) \/ Join(c) \/ Destroy(c)
    <3>1. UNCHANGED <<tasks_running, exclusive_requested, pause_requested>>
      BY <2>1 DEF WorkerWait, WorkerExit, StartTask, EndAction, task_finished,
                  NextEvent, DestroyDone, Join, Destroy, queueVars, gateVars
    <3> QED
      BY <3>1 DEF IndInv
  <2>2. CASE isc__taskmgr_resume(c)
    BY <2>2 DEF isc__taskmgr_resume, queueVars
  <2> QED
    BY <2>1, <2>2
<1>2. \E to, S : /\ Sleepers(S)
                 /\ Role(to) = Role(pc[c]) \/ c \in Clients
                 /\ pc' \in {[pc EXCEPT ![c] = to], [Wake(S) EXCEPT ![c] = to]}
  <2>1. Sleepers({}) /\ Sleepers(Asleep("wait"))
    BY DEF Sleepers, Asleep
  <2>2. CASE WorkerWait(c)
    <3>1. pc[c] = "loop" /\ Role("loop") = Role("wait")
      BY <2>2 DEF WorkerWait, Role, Busy, Asking
    <3> QED
      BY <2>1, <2>2, <3>1 DEF WorkerWait
  <2>3. CASE WorkerExit(c)
    <3>1. pc[c] = "loop" /\ Role("loop") = Role("exit")
      BY <2>3 DEF WorkerExit, Role, Busy, Asking
    <3> QED
      BY <2>1, <2>3, <3>1 DEF WorkerExit
  <2>4. CASE StartTask(c) \/ EndAction(c)
    <3>1. pc[c] \in {"start", "action"}
      BY <2>4 DEF StartTask, EndAction
    <3>2. \E to \in {"finish", "park", "action"} : pc' = [pc EXCEPT ![c] = to]
      BY <2>4 DEF StartTask, EndAction, NextEvent
    <3>3. \A p \in {"finish", "park", "action"} : Role(p) = Role(pc[c])
      BY <3>1 DEF Role, Busy, Asking
    <3> QED
      BY <2>1, <3>2, <3>3
  <2>5. CASE task_finished(c)
    <3>1. pc[c] = "finish" /\ Role("finish") = Role("park")
      BY <2>5 DEF task_finished, Role, Busy, Asking
    <3>2. \E S \in {{}, Asleep("wait")} : pc' = [Wake(S) EXCEPT ![c] = "park"]
      BY <2>5 DEF task_finished
    <3> QED
      BY <2>1, <3>1, <3>2
  <2>6. CASE c \in Clients /\ isc__taskmgr_resume(c)
    <3>1. \E S \in {{}, Asleep("wait")} : pc' = [Wake(S) EXCEPT ![c] = "client"]
      BY <2>6 DEF isc__taskmgr_resume
    <3> QED
      BY <2>1, <2>6, <3>1
  <2>7. CASE c \in Clients /\ DestroyDone(c)
    BY <2>1, <2>7 DEF DestroyDone
  <2>8. CASE c \in Clients /\ (Join(c) \/ Destroy(c))
    BY <2>1, <2>8 DEF Join, Destroy
  <2> QED
    BY <2>2, <2>3, <2>4, <2>5, <2>6, <2>7, <2>8
<1>3. DOMAIN pc' = Threads /\ \A w \in Workers : Role(pc'[w]) = Role(pc[w])
  BY <1>2, MoveIsQuiet DEF IndInv
<1> QED
  BY <1>1, <1>3, QuietStep

(* A worker takes a task: nobody has or awaits exclusive access, and the    *)
(* manager is not paused.                                                   *)
LEMMA TakeTask ==
    ASSUME IndInv, NEW w \in Workers, pop_readyq(w)
    PROVE  IndInv'
<1>1. /\ ~exclusive_requested /\ ~pause_requested
      /\ UNCHANGED <<exclusive_requested, pause_requested>>
      /\ tasks_running' = tasks_running + 1
      /\ pc[w] = "loop" /\ pc' = [pc EXCEPT ![w] = "start"]
  BY DEF pop_readyq, NoWork
<1>2. DOMAIN pc' = Threads /\ w \in Threads /\ Workers \subseteq Threads
  BY <1>1 DEF IndInv, Threads
<1>3. \A v \in Workers : pc'[v] = IF v = w THEN "start" ELSE pc[v]
  BY <1>1, <1>2 DEF IndInv
<1>4. Active' = Active \cup {w} /\ w \notin Active
  BY <1>1, <1>3 DEF Active
<1>5. tasks_running' = Cardinality(Active')
  BY <1>1, <1>4, ActiveFinite, FS_AddElement DEF IndInv, Exclusion
<1>6. \A v \in Workers : pc'[v] \notin Asking
  BY <1>1, <1>3 DEF IndInv, Asking
<1>7. \A v \in Workers : pc'[v] # "exclusive"
  BY <1>6 DEF Asking
<1>8. Exclusion'
  BY <1>1, <1>5, <1>7 DEF Exclusion
<1> QED
  BY <1>1, <1>2, <1>6, <1>8 DEF IndInv

(* A worker gives its task back.  It had no exclusive access, and since it  *)
(* was active, nobody else had.                                             *)
LEMMA GiveBack ==
    ASSUME IndInv, NEW w \in Workers, Park(w)
    PROVE  IndInv'
<1>1. /\ pc[w] = "park" /\ tasks_running' = tasks_running - 1
      /\ UNCHANGED <<exclusive_requested, pause_requested>>
  BY DEF Park
<1>2. PICK S : Sleepers(S) /\ pc' = [Wake(S) EXCEPT ![w] = "loop"]
  <2>1. PICK T \in {{{}}, Signal(Asleep("grantwait")), Signal(Asleep("pausewait"))},
             U \in {{}, Asleep("wait")} :
            \E S \in T : pc' = [Wake(S \cup U) EXCEPT ![w] = "loop"]
    BY DEF Park
  <2>2. PICK S \in T : pc' = [Wake(S \cup U) EXCEPT ![w] = "loop"]
    BY <2>1
  <2>3. Sleepers(S)
    BY <2>2 DEF Sleepers, Signal, Asleep
  <2>4. Sleepers(U)
    BY DEF Sleepers, Asleep
  <2>5. Sleepers(S \cup U)
    BY <2>3, <2>4 DEF Sleepers
  <2> QED
    BY <2>2, <2>5
<1>3. DOMAIN Wake(S) = Threads /\ \A c \in Threads : Role(Wake(S)[c]) = Role(pc[c])
  BY <1>2, WakeIsQuiet DEF Sleepers
<1>4. DOMAIN pc' = Threads /\ w \in Threads /\ Workers \subseteq Threads
  BY <1>2, <1>3 DEF Threads
<1>5. pc'[w] = "loop" /\ \A v \in Workers : v # w => Role(pc'[v]) = Role(pc[v])
  BY <1>2, <1>3, <1>4
<1>6. \A v \in Workers : v # w => /\ pc'[v] \in Busy <=> pc[v] \in Busy
                                  /\ pc'[v] \in Asking <=> pc[v] \in Asking
                                  /\ pc'[v] = "exclusive" <=> pc[v] = "exclusive"
  BY <1>5 DEF Role
<1>7. Active' = Active \ {w} /\ w \in Active
  BY <1>1, <1>5, <1>6 DEF Active, Busy
<1>8. tasks_running' = Cardinality(Active')
  BY <1>1, <1>7, ActiveFinite, FS_RemoveElement DEF IndInv, Exclusion
<1>9. \A v \in Workers : pc'[v] # "exclusive"
  <2>1. \A v \in Workers : pc[v] = "exclusive" => v = w
    BY <1>7 DEF IndInv, Exclusion
  <2> QED
    BY <1>1, <1>5, <1>6, <2>1
<1>10. \A v \in Workers : pc'[v] \in Asking => pc[v] \in Asking
  BY <1>5, <1>6 DEF Asking
<1>11. Exclusion'
  BY <1>1, <1>7, <1>8, <1>9 DEF IndInv, Exclusion
<1> QED
  BY <1>1, <1>4, <1>10, <1>11 DEF IndInv

(* Request, grant and end of exclusive access.  The grant is the step that  *)
(* needs tasks_running to be exact: one active worker is the one that asks. *)
LEMMA ExclusiveSteps ==
    ASSUME IndInv, NEW w \in Workers,
           isc__task_beginexclusive(w) \/ Grant(w) \/ isc__task_endexclusive(w)
    PROVE  IndInv'
<1>1. w \in Threads /\ Workers \subseteq Threads /\ DOMAIN pc = Threads
  BY DEF Threads, IndInv
<1>2. CASE isc__task_beginexclusive(w)
  <2>1. /\ ~exclusive_requested /\ exclusive_requested' = TRUE
        /\ UNCHANGED <<tasks_running, pause_requested>>
        /\ pc[w] = "action" /\ pc' = [pc EXCEPT ![w] = "granting"]
    BY <1>2 DEF isc__task_beginexclusive, queueVars
  <2>2. \A v \in Workers : pc'[v] = IF v = w THEN "granting" ELSE pc[v]
    BY <1>1, <2>1
  <2>3. \A v \in Workers : pc[v] \notin Asking
    BY <2>1 DEF IndInv
  <2>4. Active' = Active
    BY <2>1, <2>2 DEF Active
  <2>5. \A v \in Workers : pc'[v] # "exclusive"
    BY <2>2, <2>3 DEF Asking
  <2>6. \A v \in Workers : pc'[v] \in Asking => v = w
    BY <2>2, <2>3
  <2>7. Exclusion'
    BY <2>1, <2>4, <2>5 DEF IndInv, Exclusion
  <2>8. DOMAIN pc' = Threads
    BY <1>1, <2>1
  <2> QED
    BY <2>1, <2>6, <2>7, <2>8 DEF IndInv
<1>3. CASE Grant(w)
  <2>1. /\ UNCHANGED <<tasks_running, exclusive_requested, pause_requested>>
        /\ pc[w] = "granting"
        /\ pc' = [pc EXCEPT ![w] = IF tasks_running > 1 THEN "grantwait"
                                                        ELSE "exclusive"]
    BY <1>3 DEF Grant, queueVars, gateVars
  <2>2. \A v \in Workers : pc'[v] = IF v # w THEN pc[v] ELSE
                                    IF tasks_running > 1 THEN "grantwait" ELSE "exclusive"
    BY <1>1, <2>1
  <2>3. \A v \in Workers : pc'[v] \in Asking <=> pc[v] \in Asking
    BY <2>1, <2>2 DEF Asking
  <2>4. Active' = Active /\ w \in Active
    BY <2>1, <2>2 DEF Active
  <2>5. ASSUME NEW v \in Workers, pc'[v] = "exclusive" PROVE Active = {v}
    <3>1. CASE v # w
      BY <2>2, <2>5, <3>1 DEF IndInv, Exclusion
    <3>2. CASE v = w
      <4>1. ~(Cardinality(Active) > 1)
        BY <2>2, <2>5, <3>2 DEF IndInv, Exclusion
      <4>2. Cardinality(Active \ {w}) = Cardinality(Active) - 1
        BY <2>4, ActiveFinite, FS_RemoveElement
      <4>3. IsFiniteSet(Active \ {w}) /\ Cardinality(Active \ {w}) \in Nat
        BY ActiveFinite, FS_Subset, FS_CardinalityType
      <4>4. Cardinality(Active \ {w}) = 0
        BY <4>1, <4>2, <4>3, ActiveFinite
      <4>5. Active \ {w} = {}
        BY <4>3, <4>4, FS_EmptySet
      <4> QED
        BY <2>4, <3>2, <4>5
    <3> QED
      BY <3>1, <3>2
  <2>6. Exclusion'
    BY <2>1, <2>4, <2>5 DEF IndInv, Exclusion
  <2>7. DOMAIN pc' = Threads
    BY <1>1, <2>1
  <2> QED
    BY <2>1, <2>3, <2>6, <2>7 DEF IndInv
<1>4. CASE isc__task_endexclusive(w)
  <2>1. /\ exclusive_requested' = FALSE /\ UNCHANGED <<tasks_running, pause_requested>>
        /\ pc[w] = "exclusive"
        /\ pc' = [Wake(Asleep("wait")) EXCEPT ![w] = "action"]
    BY <1>4 DEF isc__task_endexclusive, queueVars
  <2>2. \A c \in Threads : Wake(Asleep("wait"))[c] = IF pc[c] = "wait" THEN "loop" ELSE pc[c]
    BY DEF Wake, Asleep, Awake
  <2>3. DOMAIN Wake(Asleep("wait")) = Threads
    BY DEF Wake
  <2>4. \A v \in Workers : pc'[v] = IF v = w THEN "action" ELSE
                                    IF pc[v] = "wait" THEN "loop" ELSE pc[v]
    BY <1>1, <2>1, <2>2, <2>3
  <2>5. \A v \in Workers : pc[v] \in Asking => v = w
    BY <2>1 DEF IndInv, Asking
  <2>6. \A v \in Workers : pc'[v] \notin Asking
    BY <2>4, <2>5 DEF Asking
  <2>7. \A v \in Workers : pc'[v] # "exclusive"
    BY <2>6 DEF Asking
  <2>8. Active' = Active
    BY <2>1, <2>4 DEF Active
  <2>9. Exclusion'
    BY <2>1, <2>7, <2>8 DEF IndInv, Exclusion
  <2>10. DOMAIN pc' = Threads
    BY <2>1, <2>3
  <2> QED
    BY <2>1, <2>6, <2>9, <2>10 DEF IndInv
<1> QED
  BY <1>2, <1>3, <1>4

(* A pause begins when tasks_running is zero, which is when nobody is       *)
(* active.                                                                  *)
LEMMA PauseStep ==
    ASSUME IndInv, NEW c \in Clients, isc__taskmgr_pause(c)
    PROVE  IndInv'
<1>1. /\ UNCHANGED <<tasks_running, exclusive_requested>>
      /\ pause_requested' = (pause_requested \/ tasks_running = 0)
      /\ pc' = [pc EXCEPT ![c] = IF tasks_running > 0 THEN "pausewait" ELSE "paused"]
  BY DEF isc__taskmgr_pause, queueVars
<1>2. DOMAIN pc' = Threads /\ \A w \in Workers : pc'[w] = pc[w]
  BY <1>1, TasksAssumption DEF IndInv, Threads
<1>3. Active' = Active
  BY <1>2 DEF Active
<1>4. tasks_running = 0 => Active = {}
  BY ActiveFinite, FS_EmptySet DEF IndInv, Exclusion
<1>5. pause_requested' \in BOOLEAN /\ (pause_requested' => Active = {})
  BY <1>1, <1>4 DEF IndInv, Exclusion
<1>6. Exclusion'
  BY <1>1, <1>2, <1>3, <1>5 DEF IndInv, Exclusion
<1> QED
  BY <1>1, <1>2, <1>5, <1>6 DEF IndInv

(* At the start no worker has a task. *)
LEMMA InitExclusion == Init => IndInv
<1> SUFFICES ASSUME Init PROVE IndInv
  OBVIOUS
<1>1. DOMAIN pc = Threads /\ \A w \in Workers : pc[w] = "loop"
  BY DEF Init, Threads
<1>2. Active = {}
  BY <1>1 DEF Active
<1>3. Cardinality(Active) = 0
  BY <1>2, FS_EmptySet
<1>4. Exclusion
  BY <1>1, <1>2, <1>3 DEF Init, Exclusion
<1> QED
  BY <1>1, <1>4 DEF Init, IndInv, Asking

(* Every step of the manager preserves the invariant. *)
LEMMA NextExclusion == IndInv /\ [Next]_vars => IndInv'
<1> SUFFICES ASSUME IndInv, [Next]_vars PROVE IndInv'
  OBVIOUS
<1>1. Workers \subseteq Threads /\ Clients \subseteq Threads
  BY DEF Threads
<1>2. CASE \E c \in Threads, t \in Tasks : Call(c, t)
  BY <1>2, CallsAreQuiet
<1>3. CASE \E c \in Threads : task_ready(c) \/ isc__taskmgr_setmode(c) \/ SpuriousWakeup(c)
  BY <1>3, CallsAreQuiet, WakesAreQuiet
<1>4. CASE \E w \in Workers : WorkerStep(w) \/ isc__task_beginexclusive(w)
  BY <1>1, <1>4, MovesAreQuiet, TakeTask, GiveBack, ExclusiveSteps DEF WorkerStep
<1>5. CASE \E c \in Clients : ClientStep(c) \/ isc__taskmgr_pause(c) \/ Destroy(c)
  BY <1>1, <1>5, MovesAreQuiet, CallsAreQuiet, PauseStep DEF ClientStep
<1>6. CASE UNCHANGED vars
  <2>1. UNCHANGED <<pc, tasks_running, exclusive_requested, pause_requested>>
    BY <1>6 DEF vars, queueVars, gateVars, threadVars
  <2> QED
    BY <2>1, QuietStep DEF IndInv
<1> QED
  BY <1>2, <1>3, <1>4, <1>5, <1>6 DEF Next

(* While a handler has exclusive access (isc_task_beginexclusive) no other  *)
(* task runs, while the manager is paused none does, and tasks_running is   *)
(* the number of workers with a task: what load_zones and every             *)
(* reconfiguration rely on, for any number of tasks, workers and clients.   *)
THEOREM ExclusiveAccess == Spec => []Exclusion
<1>1. IndInv => Exclusion
  BY DEF IndInv
<1> QED
  BY <1>1, InitExclusion, NextExclusion, PTL DEF Spec
=============================================================================
