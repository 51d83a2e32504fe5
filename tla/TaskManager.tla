---------------------------- MODULE TaskManager ----------------------------
(***************************************************************************)
(* The task manager of lib/isc/task.c, built with worker threads: the      *)
(* scheduler every part of named runs on, zone loading included.  A task   *)
(* is a queue of events that at most one worker executes at a time; a task *)
(* with work to do is on the manager's ready queue.                        *)
(*                                                                         *)
(* Each action is one section under one lock.  task->lock and              *)
(* manager->lock are never held together except in isc__taskmgr_destroy,   *)
(* so a task changes state in one step and is queued in a later one        *)
(* (pending).  manager->lock is a variable only because dispatch() keeps   *)
(* it from the end of one task to the choice of the next and destroy keeps *)
(* it over the whole task list; every other section is a single step.      *)
(* Events are counted: which action an event carries is up to the caller.  *)
(***************************************************************************)
EXTENDS Integers, Sequences, FiniteSets

CONSTANTS
    Tasks, Workers, Clients,    \* clients: the threads that are not workers
    Privileged,                 \* the tasks flagged TASK_F_PRIVILEGED
    Quantum,                    \* task->quantum
    Calls,                      \* the calls on tasks each thread makes
    MaxEvents,                  \* bound: events ever sent or registered
    MaxRefs,                    \* bound: references held on a task
    None

ASSUME TasksAssumption ==
    /\ IsFiniteSet(Workers) /\ Workers \cap Clients = {}
    /\ Privileged \subseteq Tasks
    /\ None \notin Tasks \cup Workers \cup Clients

ASSUME CallsAssumption ==
    Calls \in [Workers \cup Clients ->
                 SUBSET {"create", "attach", "detach", "send", "sendanddetach",
                         "purge", "onshutdown", "shutdown"}]

ASSUME BoundsAssumption ==
    Quantum \in Nat \ {0} /\ MaxEvents \in Nat /\ MaxRefs \in Nat \ {0}

VARIABLES
    state, references, events, on_shutdown, shutting,   \* the tasks
    tasks, ready_tasks, ready_priority, mode, tasks_running,
    exclusive_requested, pause_requested, exiting, lock,  \* the manager
    pc, task, dispatch_count,   \* the threads and, for workers, their task
    pending,        \* the task a thread made ready and has still to queue
    sent            \* events sent or registered so far, against MaxEvents

taskVars == <<state, references, events, on_shutdown, shutting>>
queueVars == <<tasks, ready_tasks, ready_priority, mode, tasks_running>>
gateVars == <<exclusive_requested, pause_requested, exiting, lock>>
threadVars == <<pc, task, dispatch_count, pending>>
vars == <<taskVars, queueVars, gateVars, threadVars, sent>>

Threads == Workers \cup Clients

TypeOK ==
    /\ state \in [Tasks -> {"none", "idle", "ready", "running", "done"}]
    /\ references \in [Tasks -> 0..MaxRefs]
    /\ events \in [Tasks -> 0..MaxEvents]
    /\ on_shutdown \in [Tasks -> 0..MaxEvents]
    /\ shutting \in [Tasks -> BOOLEAN]
    /\ tasks \subseteq Tasks
    /\ ready_tasks \in Seq(Tasks) /\ ready_priority \in Seq(Privileged)
    /\ mode \in {"normal", "privileged"}
    /\ tasks_running \in 0..Cardinality(Workers)
    /\ exclusive_requested \in BOOLEAN /\ pause_requested \in BOOLEAN
    /\ exiting \in BOOLEAN /\ lock \in Threads \cup {None}
    /\ pc \in [Threads -> {"loop", "wait", "start", "action", "granting",
                           "grantwait", "exclusive", "finish", "park", "exit",
                           "client", "pausing", "pausewait", "paused",
                           "destroying", "joining", "destroyed"}]
    /\ task \in [Workers -> Tasks \cup {None}]
    /\ dispatch_count \in [Workers -> 0..Quantum]
    /\ pending \in [Threads -> Tasks \cup {None}]
    /\ sent \in 0..MaxEvents

Init ==
    /\ state = [t \in Tasks |-> "none"]
    /\ references = [t \in Tasks |-> 0]
    /\ events = [t \in Tasks |-> 0]
    /\ on_shutdown = [t \in Tasks |-> 0]
    /\ shutting = [t \in Tasks |-> FALSE]
    /\ tasks = {} /\ ready_tasks = <<>> /\ ready_priority = <<>>
    /\ mode = "normal" /\ tasks_running = 0
    /\ exclusive_requested = FALSE /\ pause_requested = FALSE
    /\ exiting = FALSE /\ lock = None
    /\ pc = [c \in Threads |-> IF c \in Workers THEN "loop" ELSE "client"]
    /\ task = [w \in Workers |-> None]
    /\ dispatch_count = [w \in Workers |-> 0]
    /\ pending = [c \in Threads |-> None]
    /\ sent = 0

(***************************************************************************)
(* Condition variables and queues.                                         *)
(***************************************************************************)
\* Where a thread asleep on a condition goes on: it tests its condition again.
Awake == [wait |-> "loop", grantwait |-> "granting", pausewait |-> "pausing"]

Asleep(where) == {c \in Threads : pc[c] = where}

\* A SIGNAL wakes one sleeper, if there is one; a BROADCAST wakes them all.
Signal(sleepers) == IF sleepers = {} THEN {{}} ELSE {{c} : c \in sleepers}

Wake(S) == [c \in Threads |-> IF c \in S THEN Awake[pc[c]] ELSE pc[c]]

\* empty_readyq() and pop_readyq() look at the queue of the current mode.
ReadyQueue(m) == IF m = "normal" THEN ready_tasks ELSE ready_priority

Without(q, t) == SelectSeq(q, LAMBDA u : u # t)

push_readyq(t) ==
    /\ ready_tasks' = Append(ready_tasks, t)
    /\ ready_priority' = IF t \in Privileged THEN Append(ready_priority, t)
                                             ELSE ready_priority

FINISHED == exiting /\ tasks = {}

(***************************************************************************)
(* The calls on a task.  A caller is an event handler (a worker at         *)
(* "action" or "exclusive") or a client; it holds a reference on the task  *)
(* or is its handler.                                                      *)
(***************************************************************************)
Calling(c) ==
    pending[c] = None /\ pc[c] \in {"action", "exclusive", "client", "paused"}

Knows(c, t) == references[t] > 0 \/ (c \in Workers /\ task[c] = t)

\* Under task->lock: the task becomes ready if it was idle, and then the
\* caller owes it a place on the ready queue.
MakeReadyIfRunning(c, t) ==
    /\ state' = [state EXCEPT ![t] = IF @ = "running" THEN "ready" ELSE @]
    /\ pending' = [pending EXCEPT ![c] = IF state[t] = "running" THEN t ELSE @]
MakeReady(c, t) ==
    /\ state' = IF state[t] = "idle" THEN [state EXCEPT ![t] = "ready"] ELSE state
    /\ pending' = IF state[t] = "idle" THEN [pending EXCEPT ![c] = t] ELSE pending

isc__task_create(c, t) ==
    /\ Calling(c) /\ lock = None
    /\ state[t] = "none" /\ ~exiting
    /\ state' = [state EXCEPT ![t] = "idle"]
    /\ references' = [references EXCEPT ![t] = 1]
    /\ tasks' = tasks \cup {t}
    /\ UNCHANGED <<events, on_shutdown, shutting, ready_tasks, ready_priority,
                   mode, tasks_running, gateVars, threadVars, sent>>

isc__task_attach(c, t) ==
    /\ Calling(c) /\ references[t] \in 1..MaxRefs - 1
    /\ references' = [references EXCEPT ![t] = @ + 1]
    /\ UNCHANGED <<state, events, on_shutdown, shutting, queueVars, gateVars,
                   threadVars, sent>>

\* The last detach of an idle task makes it ready, so that a worker finds it
\* unreferenced and finishes it.
LastDetachQueues(c, t) ==
    /\ Calling(c) /\ references[t] > 0
    /\ references' = [references EXCEPT ![t] = @ - 1]
    /\ pending' = [pending EXCEPT ![c] = IF references[t] = 1 THEN t ELSE @]
    /\ UNCHANGED <<state, events, on_shutdown, shutting, queueVars, gateVars, pc,
                   task, dispatch_count, sent>>
isc__task_detach(c, t) ==
    /\ Calling(c) /\ references[t] > 0
    /\ references' = [references EXCEPT ![t] = @ - 1]
    /\ IF references[t] = 1 THEN MakeReady(c, t) ELSE UNCHANGED <<state, pending>>
    /\ UNCHANGED <<events, on_shutdown, shutting, queueVars, gateVars, pc, task,
                   dispatch_count, sent>>

isc__task_send(c, t) ==
    /\ Calling(c) /\ Knows(c, t) /\ sent < MaxEvents
    /\ events' = [events EXCEPT ![t] = @ + 1]
    /\ MakeReady(c, t)
    /\ sent' = sent + 1
    /\ UNCHANGED <<references, on_shutdown, shutting, queueVars, gateVars, pc,
                   task, dispatch_count>>

isc__task_sendanddetach(c, t) ==
    /\ Calling(c) /\ references[t] > 0 /\ sent < MaxEvents
    /\ events' = [events EXCEPT ![t] = @ + 1]
    /\ references' = [references EXCEPT ![t] = @ - 1]
    /\ MakeReady(c, t)
    /\ sent' = sent + 1
    /\ UNCHANGED <<on_shutdown, shutting, queueVars, gateVars, pc, task,
                   dispatch_count>>

isc__task_purge(c, t) ==
    /\ Calling(c) /\ Knows(c, t)
    /\ \E n \in 0..events[t] - 1 : events' = [events EXCEPT ![t] = n]
    /\ UNCHANGED <<state, references, on_shutdown, shutting, queueVars, gateVars,
                   threadVars, sent>>

isc__task_onshutdown(c, t) ==
    /\ Calling(c) /\ Knows(c, t) /\ ~shutting[t] /\ sent < MaxEvents
    /\ on_shutdown' = [on_shutdown EXCEPT ![t] = @ + 1]
    /\ sent' = sent + 1
    /\ UNCHANGED <<state, references, events, shutting, queueVars, gateVars,
                   threadVars>>

\* task_shutdown(): the first shutdown posts the registered events.
task_shutdown(t) ==
    /\ shutting' = [shutting EXCEPT ![t] = TRUE]
    /\ events' = [events EXCEPT ![t] =
                    IF shutting[t] THEN @ ELSE @ + on_shutdown[t]]
    /\ on_shutdown' = [on_shutdown EXCEPT ![t] = IF shutting[t] THEN @ ELSE 0]

isc__task_shutdown(c, t) ==
    /\ Calling(c) /\ Knows(c, t) /\ ~shutting[t]
    /\ task_shutdown(t)
    /\ MakeReady(c, t)
    /\ UNCHANGED <<references, queueVars, gateVars, pc, task, dispatch_count,
                   sent>>

\* task_ready(), under manager->lock.  No worker is signalled for a task the
\* current mode does not allow to run.
task_readySilent(c) ==
    /\ pending[c] # None /\ pc[c] # "park" /\ lock = None
    /\ push_readyq(pending[c])
    /\ pending' = [pending EXCEPT ![c] = None]
    /\ UNCHANGED <<taskVars, tasks, mode, tasks_running, gateVars, pc, task,
                   dispatch_count, sent>>
task_ready(c) ==
    /\ pending[c] # None /\ pc[c] # "park" /\ lock = None
    /\ push_readyq(pending[c])
    /\ pending' = [pending EXCEPT ![c] = None]
    /\ IF mode = "normal" \/ pending[c] \in Privileged
       THEN \E S \in Signal(Asleep("wait")) : pc' = Wake(S)
       ELSE pc' = pc
    /\ UNCHANGED <<taskVars, tasks, mode, tasks_running, gateVars, task,
                   dispatch_count, sent>>

(***************************************************************************)
(* dispatch(), the loop of a worker.                                       *)
(***************************************************************************)
HasLock(w) == lock \in {w, None}

NoWorkEvenExclusive == ReadyQueue(mode) = <<>> \/ pause_requested
NoWork == ReadyQueue(mode) = <<>> \/ pause_requested \/ exclusive_requested

WorkerWait(w) ==
    /\ pc[w] = "loop" /\ HasLock(w)
    /\ ~FINISHED /\ NoWork
    /\ pc' = [pc EXCEPT ![w] = "wait"]
    /\ lock' = None
    /\ UNCHANGED <<taskVars, queueVars, exclusive_requested, pause_requested,
                   exiting, task, dispatch_count, pending, sent>>

WorkerExit(w) ==
    /\ pc[w] = "loop" /\ HasLock(w)
    /\ FINISHED
    /\ pc' = [pc EXCEPT ![w] = "exit"]
    /\ lock' = None
    /\ UNCHANGED <<taskVars, queueVars, exclusive_requested, pause_requested,
                   exiting, task, dispatch_count, pending, sent>>

pop_readyq(w) ==
    /\ pc[w] = "loop" /\ HasLock(w)
    /\ ~FINISHED /\ ~NoWork
    /\ LET t == Head(ReadyQueue(mode))
       IN  /\ ready_tasks' = Without(ready_tasks, t)
           /\ ready_priority' = Without(ready_priority, t)
           /\ task' = [task EXCEPT ![w] = t]
    /\ tasks_running' = tasks_running + 1
    /\ dispatch_count' = [dispatch_count EXCEPT ![w] = 0]
    /\ pc' = [pc EXCEPT ![w] = "start"]
    /\ lock' = None
    /\ UNCHANGED <<taskVars, tasks, mode, exclusive_requested, pause_requested,
                   exiting, pending, sent>>

\* A task is over once it is shutting down and nobody refers to it.
TaskOverUnlessReferenced(t, down) == down
TaskOver(t, down) == references[t] = 0 /\ down

QuantumOver(n) == n >= Quantum

\* The part of the event loop after an event, still under task->lock: shut an
\* unreferenced task down, then finish it, leave it idle, requeue it or take
\* its next event.  n events have been executed.
NextEvent(w, t, n) ==
    LET dying == references[t] = 0 /\ events[t] = 0 /\ ~shutting[t]
        left == IF dying THEN on_shutdown[t] ELSE events[t]
        over == TaskOver(t, shutting[t] \/ dying)
    IN  /\ shutting' = [shutting EXCEPT ![t] = @ \/ dying]
        /\ on_shutdown' = [on_shutdown EXCEPT ![t] = IF dying THEN 0 ELSE @]
        /\ dispatch_count' = [dispatch_count EXCEPT ![w] = n]
        /\ \/ /\ left = 0
              /\ events' = [events EXCEPT ![t] = 0]
              /\ state' = [state EXCEPT ![t] = IF over THEN "done" ELSE "idle"]
              /\ pc' = [pc EXCEPT ![w] = IF over THEN "finish" ELSE "park"]
              /\ pending' = pending
           \/ /\ left > 0 /\ QuantumOver(n)
              /\ events' = [events EXCEPT ![t] = left]
              /\ state' = [state EXCEPT ![t] = "ready"]
              /\ pc' = [pc EXCEPT ![w] = "park"]
              /\ pending' = [pending EXCEPT ![w] = t]
           \/ /\ left > 0 /\ ~QuantumOver(n)
              /\ events' = [events EXCEPT ![t] = left - 1]
              /\ state' = [state EXCEPT ![t] = "running"]
              /\ pc' = [pc EXCEPT ![w] = "action"]
              /\ pending' = pending
        /\ UNCHANGED <<references, queueVars, gateVars, task, sent>>

StartTask(w) == pc[w] = "start" /\ NextEvent(w, task[w], 0)

EndAction(w) ==
    /\ pc[w] = "action" /\ pending[w] = None
    /\ NextEvent(w, task[w], dispatch_count[w] + 1)

task_finishedSilently(w) ==
    /\ pc[w] = "finish" /\ lock = None
    /\ tasks' = tasks \ {task[w]}
    /\ pc' = [pc EXCEPT ![w] = "park"]
    /\ UNCHANGED <<taskVars, ready_tasks, ready_priority, mode, tasks_running,
                   gateVars, task, dispatch_count, pending, sent>>
task_finished(w) ==
    /\ pc[w] = "finish" /\ lock = None
    /\ tasks' = tasks \ {task[w]}
    /\ LET woken == IF exiting /\ tasks' = {} THEN Asleep("wait") ELSE {}
       IN  pc' = [Wake(woken) EXCEPT ![w] = "park"]
    /\ UNCHANGED <<taskVars, ready_tasks, ready_priority, mode, tasks_running,
                   gateVars, task, dispatch_count, pending, sent>>

\* The last other task has stopped: the handler that waits may go on.
LastOtherStopped(running) == exclusive_requested /\ running = 0
OthersStopped(running) == exclusive_requested /\ running = 1

\* Back under manager->lock, which the worker keeps until it has looked for
\* its next task: tell whoever waits for the tasks to stop, requeue, and drop
\* the privileged mode when nothing privileged is left.
Park(w) ==
    /\ pc[w] = "park" /\ lock = None
    /\ lock' = w
    /\ tasks_running' = tasks_running - 1
    /\ IF pending[w] # None THEN push_readyq(pending[w])
                            ELSE UNCHANGED <<ready_tasks, ready_priority>>
    /\ LET queue == IF mode = "normal" THEN ready_tasks' ELSE ready_priority'
           drop == tasks_running' = 0 /\ queue = <<>>
           signalled ==
             IF OthersStopped(tasks_running')
             THEN Signal(Asleep("grantwait"))
             ELSE IF pause_requested /\ tasks_running' = 0
             THEN Signal(Asleep("pausewait")) ELSE {{}}
           more == IF drop /\ ready_tasks' # <<>> THEN Asleep("wait") ELSE {}
       IN  /\ mode' = IF drop THEN "normal" ELSE mode
           /\ \E S \in signalled : pc' = [Wake(S \cup more) EXCEPT ![w] = "loop"]
    /\ pending' = [pending EXCEPT ![w] = None]
    /\ task' = [task EXCEPT ![w] = None]
    /\ dispatch_count' = [dispatch_count EXCEPT ![w] = 0]
    /\ UNCHANGED <<taskVars, tasks, exclusive_requested, pause_requested,
                   exiting, sent>>

\* A condition wait may also return without a signal.
SpuriousWakeup(c) ==
    /\ pc[c] \in DOMAIN Awake /\ lock = None
    /\ pc' = Wake({c})
    /\ UNCHANGED <<taskVars, queueVars, gateVars, task, dispatch_count, pending,
                   sent>>

(***************************************************************************)
(* Exclusive access, pausing and the privileged mode.                      *)
(***************************************************************************)
isc__task_beginexclusive(w) ==
    /\ pc[w] = "action" /\ pending[w] = None /\ lock = None
    /\ ~exclusive_requested
    /\ exclusive_requested' = TRUE
    /\ pc' = [pc EXCEPT ![w] = "granting"]
    /\ UNCHANGED <<taskVars, queueVars, pause_requested, exiting, lock, task,
                   dispatch_count, pending, sent>>

Grant(w) ==
    /\ pc[w] = "granting" /\ lock = None
    /\ pc' = [pc EXCEPT ![w] = IF tasks_running > 1 THEN "grantwait" ELSE "exclusive"]
    /\ UNCHANGED <<taskVars, queueVars, gateVars, task, dispatch_count, pending,
                   sent>>

isc__task_endexclusive(w) ==
    /\ pc[w] = "exclusive" /\ pending[w] = None /\ lock = None
    /\ exclusive_requested' = FALSE
    /\ pc' = [Wake(Asleep("wait")) EXCEPT ![w] = "action"]
    /\ UNCHANGED <<taskVars, queueVars, pause_requested, exiting, lock, task,
                   dispatch_count, pending, sent>>

\* Called in exclusive mode by load_zones, and by a client that has paused the
\* manager with a privileged task on the ready queue.
SetModeAnytime(c) ==
    /\ Calling(c) /\ lock = None
    /\ pc[c] \in {"action", "exclusive"}
    /\ mode' = "privileged"
    /\ UNCHANGED <<taskVars, tasks, ready_tasks, ready_priority, tasks_running,
                   gateVars, threadVars, sent>>
isc__taskmgr_setmode(c) ==
    /\ Calling(c) /\ lock = None
    /\ pc[c] = "exclusive" \/ (pc[c] = "paused" /\ ready_priority # <<>>)
    /\ mode' = "privileged"
    /\ UNCHANGED <<taskVars, tasks, ready_tasks, ready_priority, tasks_running,
                   gateVars, threadVars, sent>>

\* isc__taskmgr_pause() asks for the pause only once no task runs.
isc__taskmgr_pause(c) ==
    /\ \/ pc[c] = "client" /\ pending[c] = None
       \/ pc[c] = "pausing"
    /\ lock = None
    /\ pause_requested' = (pause_requested \/ tasks_running = 0)
    /\ pc' = [pc EXCEPT ![c] = IF tasks_running > 0 THEN "pausewait" ELSE "paused"]
    /\ UNCHANGED <<taskVars, queueVars, exclusive_requested, exiting, lock, task,
                   dispatch_count, pending, sent>>

ResumeSilently(c) ==
    /\ pc[c] = "paused" /\ pending[c] = None /\ lock = None
    /\ pause_requested' = FALSE
    /\ pc' = [pc EXCEPT ![c] = "client"]
    /\ UNCHANGED <<taskVars, queueVars, exclusive_requested, exiting, lock, task,
                   dispatch_count, pending, sent>>
isc__taskmgr_resume(c) ==
    /\ pc[c] = "paused" /\ pending[c] = None /\ lock = None
    /\ pause_requested' = FALSE
    /\ pc' = [Wake(IF pause_requested THEN Asleep("wait") ELSE {})
                EXCEPT ![c] = "client"]
    /\ UNCHANGED <<taskVars, queueVars, exclusive_requested, exiting, lock, task,
                   dispatch_count, pending, sent>>

(***************************************************************************)
(* isc__taskmgr_destroy(): under manager->lock, shut down every task, one  *)
(* task->lock at a time, then wait for the workers to exit.                *)
(***************************************************************************)
Destroy(c) ==
    /\ pc[c] = "client" /\ pending[c] = None /\ lock = None
    /\ ~exiting
    /\ exiting' = TRUE
    /\ mode' = "normal"
    /\ lock' = c
    /\ pc' = [pc EXCEPT ![c] = "destroying"]
    /\ UNCHANGED <<taskVars, tasks, ready_tasks, ready_priority, tasks_running,
                   exclusive_requested, pause_requested, task, dispatch_count,
                   pending, sent>>

\* The list is walked from its head: the tasks not yet shut down, in any order.
DestroyTask(c, t) ==
    /\ pc[c] = "destroying" /\ t \in tasks /\ ~shutting[t]
    /\ task_shutdown(t)
    /\ IF state[t] = "idle"
       THEN push_readyq(t) /\ state' = [state EXCEPT ![t] = "ready"]
       ELSE UNCHANGED <<state, ready_tasks, ready_priority>>
    /\ UNCHANGED <<references, tasks, mode, tasks_running, gateVars, threadVars,
                   sent>>

DestroyDone(c) ==
    /\ pc[c] = "destroying" /\ \A t \in tasks : shutting[t]
    /\ lock' = None
    /\ pc' = [Wake(Asleep("wait")) EXCEPT ![c] = "joining"]
    /\ UNCHANGED <<taskVars, queueVars, exclusive_requested, pause_requested,
                   exiting, task, dispatch_count, pending, sent>>

Join(c) ==
    /\ pc[c] = "joining" /\ \A w \in Workers : pc[w] = "exit"
    /\ pc' = [pc EXCEPT ![c] = "destroyed"]
    /\ UNCHANGED <<taskVars, queueVars, gateVars, task, dispatch_count, pending,
                   sent>>

(***************************************************************************)
(* The manager.  A worker's own steps, and the returns of the handlers and *)
(* clients from what they began, are what fairness speaks of.              *)
(***************************************************************************)
Call(c, t) ==
    \/ "create" \in Calls[c] /\ isc__task_create(c, t)
    \/ "attach" \in Calls[c] /\ isc__task_attach(c, t)
    \/ "detach" \in Calls[c] /\ isc__task_detach(c, t)
    \/ "send" \in Calls[c] /\ isc__task_send(c, t)
    \/ "sendanddetach" \in Calls[c] /\ isc__task_sendanddetach(c, t)
    \/ "purge" \in Calls[c] /\ isc__task_purge(c, t)
    \/ "onshutdown" \in Calls[c] /\ isc__task_onshutdown(c, t)
    \/ "shutdown" \in Calls[c] /\ isc__task_shutdown(c, t)

WorkerStep(w) ==
    \/ WorkerWait(w) \/ WorkerExit(w) \/ pop_readyq(w) \/ StartTask(w)
    \/ EndAction(w) \/ task_finished(w) \/ Park(w) \/ Grant(w)
    \/ isc__task_endexclusive(w)

ClientStep(c) ==
    \/ isc__taskmgr_resume(c) \/ (\E t \in Tasks : DestroyTask(c, t))
    \/ DestroyDone(c) \/ Join(c)

Next ==
    \/ \E c \in Threads, t \in Tasks : Call(c, t)
    \/ \E c \in Threads : task_ready(c) \/ isc__taskmgr_setmode(c) \/ SpuriousWakeup(c)
    \/ \E w \in Workers : WorkerStep(w) \/ isc__task_beginexclusive(w)
    \/ \E c \in Clients : ClientStep(c) \/ isc__taskmgr_pause(c) \/ Destroy(c)

Fairness ==
    /\ \A c \in Threads : WF_vars(task_ready(c))
    /\ \A w \in Workers : WF_vars(WorkerStep(w)) /\ SF_vars(EndAction(w))
    /\ \A c \in Clients : WF_vars(ClientStep(c))

Spec == Init /\ [][Next]_vars /\ Fairness

(***************************************************************************)
(* Properties.                                                             *)
(***************************************************************************)
\* The workers that have taken a task and not yet given it back.
Active == {w \in Workers : pc[w] \in {"start", "action", "granting", "grantwait",
                                      "exclusive", "finish", "park"}}

\* How many threads have yet to put t on the ready queue.
Owing(t) == Cardinality({c \in Threads : pending[c] = t})

Queued(q, t) == Cardinality({i \in DOMAIN q : q[i] = t})

\* The priority queue holds the privileged tasks of the ready queue, in the
\* ready queue's order, whichever mode tasks are taken off in.
PriorityMirrors ==
    ready_priority = SelectSeq(ready_tasks, LAMBDA t : t \in Privileged)

\* A task is ready exactly when one place on the ready queue is its own: it is
\* queued, or one thread is about to queue it, or one worker has just taken it
\* off.  This is what makes it safe to change the state under task->lock and
\* the queue under manager->lock (isc__task_send's comment, and dispatch's
\* INSIST that the task it takes is ready).  The priority queue agrees.
ReadyOnce ==
    /\ TypeOK /\ PriorityMirrors
    /\ \A t \in Tasks :
          Queued(ready_tasks, t) + Owing(t)
            + Cardinality({w \in Workers : pc[w] = "start" /\ task[w] = t})
          = IF state[t] = "ready" THEN 1 ELSE 0

\* The events of a task are executed by one worker at a time, and a worker
\* between two sections of a task finds it still running: what every handler
\* in named relies on instead of locking.
OneWorkerPerTask ==
    /\ \A v, w \in Active : task[v] = task[w] =>
           v = w \/ pc[v] = "park" \/ pc[w] = "park"
    /\ \A w \in Active : pc[w] \in {"action", "granting", "grantwait", "exclusive"} =>
           state[task[w]] = "running"

\* While a handler has exclusive access no other task runs, and while the
\* manager is paused none does; tasks_running counts the workers with a task.
Exclusion ==
    /\ tasks_running = Cardinality(Active)
    /\ \A w \in Workers : pc[w] = "exclusive" => Active = {w}
    /\ pause_requested => Active = {}

\* In privileged mode at most one task without the privilege is running, the
\* one that turned the mode on: "no other tasks will be able to run except for
\* the ones that are loading zones" (load_zones).
LoadersOnly ==
    mode = "privileged" => Cardinality({w \in Active : task[w] \notin Privileged}) <= 1

\* When manager->lock is free, a task on the ready queue is never left with every
\* worker asleep, unless the manager is paused or a handler has asked for
\* exclusive access: no wakeup is lost between two sections under the lock, to
\* the end of exclusive access, or to the privileged mode.
NoStall ==
    lock = None /\ ready_tasks # <<>> /\ ~pause_requested /\ ~exclusive_requested
      => \E w \in Workers : pc[w] \notin {"wait", "exit"}

\* A task that is done has nothing left to do and nobody to ask it: no
\* reference, no event, no shutdown event, no place on a queue.
DoneIsFinal ==
    \A t \in Tasks : state[t] = "done" =>
        /\ references[t] = 0 /\ events[t] = 0 /\ on_shutdown[t] = 0
        /\ Queued(ready_tasks, t) = 0 /\ Owing(t) = 0

\* Every event sent to a task is executed or purged, if the manager is not
\* paused again and again.
EventsDelivered ==
    <>[]~pause_requested => \A t \in Tasks : events[t] > 0 ~> events[t] = 0

\* A handler that asks for exclusive access gets it.
ExclusiveGranted ==
    \A w \in Workers : pc[w] = "granting" ~> pc[w] = "exclusive"

\* Once the references on all tasks are dropped, isc_taskmgr_destroy() returns:
\* every task reaches its end and every worker leaves its loop.
DestroyReturns ==
    <>[](\A t \in Tasks : references[t] = 0) =>
        \A c \in Clients : pc[c] = "destroying" ~> pc[c] = "destroyed"
=============================================================================
