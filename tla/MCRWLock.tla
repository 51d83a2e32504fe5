------------------------------ MODULE MCRWLock ------------------------------
(* An instance of RWLock for TLC. *)
EXTENDS RWLock, TLC

CONSTANTS t1, t2, t3

ThreeThreads == {t1, t2, t3}

(* A reader that upgrades, a writer that queues, and a thread like the one *)
(* that cleans a node of the tree: it tries, queues and downgrades.        *)
AllCalls == t1 :> {"read", "upgrade"} @@ t2 :> {"write"}
            @@ t3 :> {"tryread", "trywrite", "write", "downgrade"}
=============================================================================
