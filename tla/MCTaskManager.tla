--------------------------- MODULE MCTaskManager ---------------------------
(* A small task manager: a privileged and an ordinary task, two workers and *)
(* one client thread.                                                       *)
EXTENDS TaskManager, TLC

CONSTANTS loader, other, w1, w2, c1

MCTasks == {loader, other}
MCPrivileged == {loader}
MCWorkers == {w1, w2}
MCClients == {c1}

\* Every call is made by a client or a handler; the handlers of w1 and of w2
\* make different ones.
MCCalls == c1 :> {"create", "send", "onshutdown"}
        @@ w1 :> {"send", "purge"}
        @@ w2 :> {"attach", "sendanddetach", "shutdown", "detach"}
=============================================================================
