--------------------------- MODULE ReadersWriter ---------------------------
(***************************************************************************)
(* What a reader-writer lock promises to its callers (lib/isc/include/isc/ *)
(* rwlock.h), with nothing said about how: who holds it, and how.          *)
(***************************************************************************)
CONSTANT Threads
VARIABLE holder                 \* holder[t]: "none", "read" or "write"

Init == holder = [t \in Threads |-> "none"]

Lock(t) ==
    /\ holder[t] = "none"
    /\ \/ /\ \A u \in Threads : holder[u] # "write"
          /\ holder' = [holder EXCEPT ![t] = "read"]
       \/ /\ \A u \in Threads : holder[u] = "none"
          /\ holder' = [holder EXCEPT ![t] = "write"]

Upgrade(t) ==
    /\ holder[t] = "read"
    /\ \A u \in Threads \ {t} : holder[u] = "none"
    /\ holder' = [holder EXCEPT ![t] = "write"]

Downgrade(t) ==
    /\ holder[t] = "write"
    /\ holder' = [holder EXCEPT ![t] = "read"]

Unlock(t) ==
    /\ holder[t] # "none"
    /\ holder' = [holder EXCEPT ![t] = "none"]

Next == \E t \in Threads : Lock(t) \/ Upgrade(t) \/ Downgrade(t) \/ Unlock(t)

Spec == Init /\ [][Next]_holder
=============================================================================
