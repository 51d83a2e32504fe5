------------------------------- MODULE RWLock -------------------------------
(***************************************************************************)
(* The reader-writer lock under every node bucket, tree and zone table of  *)
(* named (lib/isc/rwlock.c, the version built on atomic operations).  A    *)
(* step is one atomic access, or one section under the internal mutex:     *)
(* such a section makes at most one test of the atomics, nobody else can   *)
(* signal meanwhile, and the mutex is free again at its end (or in WAIT).  *)
(* A test made without the mutex only to be repeated under it is folded    *)
(* into the repetition, unless it is not the same test: reading two        *)
(* counters is two steps outside the mutex.                                *)
(*                                                                         *)
(* cnt_and_flag is the pair reader_count, writer_flag, changed together.   *)
(* Tickets wrap at Wrap where the code wraps at 2^32; they are only        *)
(* compared for equality.  write_granted is only compared with the quota   *)
(* and saturates there.                                                    *)
(***************************************************************************)
EXTENDS Integers, FiniteSets

CONSTANTS Threads, Quota, Wrap,
          Calls        \* Calls[t]: the operations thread t ever starts

ASSUME ThreadsAssumption == IsFiniteSet(Threads)
ASSUME CallsAssumption ==
    Calls \in [Threads -> SUBSET {"read", "write", "tryread", "trywrite", "upgrade", "downgrade"}]
ASSUME QuotaAssumption == Quota \in Nat \ {0}
ASSUME WrapAssumption == Wrap \in Nat /\ Wrap > Cardinality(Threads)

VARIABLES write_requests, write_completions, reader_count, writer_flag,
          readers_waiting, write_granted,
          pc,          \* where each thread is
          loaded       \* its prev_writer, or the counter it read first

tickets == <<write_requests, write_completions>>
cnt_and_flag == <<reader_count, writer_flag>>
counts == <<readers_waiting, write_granted>>
vars == <<tickets, cnt_and_flag, counts, pc, loaded>>

ReadPcs == {"r_test", "r_lock", "r_asleep1", "r_awake1", "r_add", "r_flag",
            "r_asleep2", "r_awake2", "r_reset", "reading"}
WritePcs == {"w_turn", "w_asleep1", "w_cas", "w_asleep2", "w_grant", "writing"}
UnlockPcs == {"ur_load", "ur_test", "ur_wake", "uw_done", "uw_quota", "uw_idle",
              "uw_readers", "uw_lock", "uw_load", "uw_test", "uw_wake"}
TryPcs == {"tr_test", "tr_add", "tr_cancel", "tw_jump", "up_jump"}
DownPcs == {"dg_flag", "dg_done", "dg_wake"}
Pcs == {"idle"} \cup ReadPcs \cup WritePcs \cup UnlockPcs \cup TryPcs \cup DownPcs

Init ==
    /\ write_requests = 0
    /\ write_completions = 0
    /\ reader_count = 0
    /\ writer_flag = 0
    /\ readers_waiting = 0
    /\ write_granted = 0
    /\ pc = [t \in Threads |-> "idle"]
    /\ loaded = [t \in Threads |-> 0]

-----------------------------------------------------------------------------
Goto(t, from, to) == pc[t] = from /\ pc' = [pc EXCEPT ![t] = to]

(* Load one counter, to compare it with the other one in the next step;    *)
(* a local variable that is not read again is 0.                           *)
Load(t, counter) == loaded' = [loaded EXCEPT ![t] = counter]
Forget(t) == Load(t, 0)

(* BROADCAST on a condition: everyone asleep on it goes on from its WAIT,  *)
(* and the thread t that signals goes to its next step.                    *)
Woken(p) == CASE p = "r_asleep1" -> "r_awake1" [] p = "r_asleep2" -> "r_awake2"
              [] p = "w_asleep1" -> "w_turn"   [] p = "w_asleep2" -> "w_cas"
OnReadable == {"r_asleep1", "r_asleep2"}
OnWriteable == {"w_asleep1", "w_asleep2"}
Broadcast(t, asleep, from, to) ==
    /\ pc[t] = from
    /\ pc' = [u \in Threads |-> IF u = t THEN to
                                ELSE IF pc[u] \in asleep THEN Woken(pc[u])
                                ELSE pc[u]]

(* A condition variable may also wake a thread unasked. *)
SpuriousWakeup(t) ==
    /\ pc[t] \in OnReadable \cup OnWriteable
    /\ pc' = [pc EXCEPT ![t] = Woken(@)]
    /\ UNCHANGED <<tickets, cnt_and_flag, counts, loaded>>

-----------------------------------------------------------------------------
(* isc_rwlock_lock(read) *)
ReadLoad(t) ==
    /\ Goto(t, "idle", "r_test")
    /\ Load(t, write_requests)
    /\ UNCHANGED <<tickets, cnt_and_flag, counts>>

ReadTest(t) ==
    /\ Goto(t, "r_test", IF loaded[t] = write_completions THEN "r_add" ELSE "r_lock")
    /\ Forget(t)
    /\ UNCHANGED <<tickets, cnt_and_flag, counts>>

ReadLock(t) ==
    /\ IF write_requests = write_completions
         THEN Goto(t, "r_lock", "r_add") /\ UNCHANGED readers_waiting
         ELSE Goto(t, "r_lock", "r_asleep1") /\ readers_waiting' = readers_waiting + 1
    /\ UNCHANGED <<tickets, cnt_and_flag, write_granted, loaded>>

(* Back from the first WAIT the reader does not look again. *)
ReadWoken(t) ==
    /\ Goto(t, "r_awake1", "r_add")
    /\ readers_waiting' = readers_waiting - 1
    /\ UNCHANGED <<tickets, cnt_and_flag, write_granted, loaded>>

ReadAdd(t) ==
    /\ Goto(t, "r_add", "r_flag")
    /\ reader_count' = reader_count + 1
    /\ UNCHANGED <<tickets, writer_flag, counts, loaded>>

ReadFlagIgnored(t) ==
    /\ Goto(t, "r_flag", "r_reset")
    /\ UNCHANGED <<tickets, cnt_and_flag, counts, loaded>>
ReadFlag(t) ==
    /\ IF writer_flag = 0
         THEN Goto(t, "r_flag", "r_reset") /\ UNCHANGED readers_waiting
         ELSE Goto(t, "r_flag", "r_asleep2") /\ readers_waiting' = readers_waiting + 1
    /\ UNCHANGED <<tickets, cnt_and_flag, write_granted, loaded>>

ReadLoopUncounted(t) ==
    /\ Goto(t, "r_awake2", "r_flag")
    /\ UNCHANGED <<tickets, cnt_and_flag, counts, loaded>>
ReadLoop(t) ==
    /\ Goto(t, "r_awake2", "r_flag")
    /\ readers_waiting' = readers_waiting - 1
    /\ UNCHANGED <<tickets, cnt_and_flag, write_granted, loaded>>

ReadReset(t) ==
    /\ Goto(t, "r_reset", "reading")
    /\ write_granted' = 0
    /\ UNCHANGED <<tickets, cnt_and_flag, readers_waiting, loaded>>

-----------------------------------------------------------------------------
(* isc_rwlock_lock(write) *)
WriteRequest(t) ==
    /\ Goto(t, "idle", "w_turn")
    /\ Load(t, write_requests)
    /\ write_requests' = (write_requests + 1) % Wrap
    /\ UNCHANGED <<write_completions, cnt_and_flag, counts>>

WriteTurnAtOnce(t) ==
    /\ Goto(t, "w_turn", "w_cas")
    /\ UNCHANGED <<tickets, cnt_and_flag, counts, loaded>>
WriteTurn(t) ==
    /\ Goto(t, "w_turn", IF write_completions = loaded[t] THEN "w_cas" ELSE "w_asleep1")
    /\ UNCHANGED <<tickets, cnt_and_flag, counts, loaded>>

(* isc_atomic_cmpxchg(&cnt_and_flag, 0, WRITER_ACTIVE); when it fails the  *)
(* thread tests again under the mutex, and sleeps.                         *)
WriteCas(t) ==
    /\ IF reader_count = 0 /\ writer_flag = 0
         THEN Goto(t, "w_cas", "w_grant") /\ writer_flag' = 1 /\ Forget(t)
         ELSE Goto(t, "w_cas", "w_asleep2") /\ UNCHANGED <<writer_flag, loaded>>
    /\ UNCHANGED <<tickets, reader_count, counts>>

WriteGrant(t) ==
    /\ Goto(t, "w_grant", "writing")
    /\ write_granted' = IF write_granted < Quota THEN write_granted + 1 ELSE Quota
    /\ UNCHANGED <<tickets, cnt_and_flag, readers_waiting, loaded>>

-----------------------------------------------------------------------------
(* isc_rwlock_unlock(read); a trylock that gives up ends the same way. *)
ReadUnlockAs(t, from) ==
    /\ Goto(t, from, IF reader_count = 1 /\ writer_flag = 0 THEN "ur_load" ELSE "idle")
    /\ reader_count' = reader_count - 1
    /\ UNCHANGED <<tickets, writer_flag, counts, loaded>>

ReadUnlock(t) == ReadUnlockAs(t, "reading")

ReadUnlockLoad(t) ==
    /\ Goto(t, "ur_load", "ur_test")
    /\ Load(t, write_completions)
    /\ UNCHANGED <<tickets, cnt_and_flag, counts>>

ReadUnlockSilent(t) ==
    /\ Goto(t, "ur_test", "idle")
    /\ Forget(t)
    /\ UNCHANGED <<tickets, cnt_and_flag, counts>>
ReadUnlockTest(t) ==
    /\ Goto(t, "ur_test", IF loaded[t] # write_requests THEN "ur_wake" ELSE "idle")
    /\ Forget(t)
    /\ UNCHANGED <<tickets, cnt_and_flag, counts>>

ReadUnlockWake(t) ==
    /\ Broadcast(t, OnWriteable, "ur_wake", "idle")
    /\ UNCHANGED <<tickets, cnt_and_flag, counts, loaded>>

-----------------------------------------------------------------------------
(* isc_rwlock_unlock(write) *)
WriteUnlock(t) ==
    /\ Goto(t, "writing", "uw_done")
    /\ writer_flag' = 0
    /\ UNCHANGED <<tickets, reader_count, counts, loaded>>

Complete == write_completions' = (write_completions + 1) % Wrap

WriteUnlockDone(t) ==
    /\ Goto(t, "uw_done", "uw_quota")
    /\ Complete
    /\ UNCHANGED <<write_requests, cnt_and_flag, counts, loaded>>

WriteUnlockQuota(t) ==
    /\ IF write_granted >= Quota
         THEN Goto(t, "uw_quota", "uw_lock") /\ UNCHANGED loaded
         ELSE Goto(t, "uw_quota", "uw_idle") /\ Load(t, write_requests)
    /\ UNCHANGED <<tickets, cnt_and_flag, counts>>

WriteUnlockIdle(t) ==
    /\ Goto(t, "uw_idle", IF loaded[t] = write_completions THEN "uw_lock" ELSE "uw_readers")
    /\ Forget(t)
    /\ UNCHANGED <<tickets, cnt_and_flag, counts>>

WriteUnlockReaders(t) ==
    /\ Goto(t, "uw_readers", IF reader_count # 0 THEN "uw_lock" ELSE "uw_load")
    /\ UNCHANGED <<tickets, cnt_and_flag, counts, loaded>>

(* With a reader to wake, wakeup_writers becomes false and that is all. *)
WriteUnlockLock(t) ==
    /\ IF readers_waiting > 0 THEN Broadcast(t, OnReadable, "uw_lock", "idle")
                              ELSE Goto(t, "uw_lock", "uw_load")
    /\ UNCHANGED <<tickets, cnt_and_flag, counts, loaded>>

WriteUnlockLoad(t) ==
    /\ Goto(t, "uw_load", "uw_test")
    /\ Load(t, write_requests)
    /\ UNCHANGED <<tickets, cnt_and_flag, counts>>

WriteUnlockSilent(t) ==
    /\ Goto(t, "uw_test", "idle")
    /\ Forget(t)
    /\ UNCHANGED <<tickets, cnt_and_flag, counts>>
WriteUnlockTest(t) ==
    /\ Goto(t, "uw_test", IF loaded[t] # write_completions THEN "uw_wake" ELSE "idle")
    /\ Forget(t)
    /\ UNCHANGED <<tickets, cnt_and_flag, counts>>

WriteUnlockWake(t) ==
    /\ Broadcast(t, OnWriteable, "uw_wake", "idle")
    /\ UNCHANGED <<tickets, cnt_and_flag, counts, loaded>>

-----------------------------------------------------------------------------
(* isc_rwlock_trylock *)
TryReadLoad(t) ==
    /\ Goto(t, "idle", "tr_test")
    /\ Load(t, write_requests)
    /\ UNCHANGED <<tickets, cnt_and_flag, counts>>

TryReadTest(t) ==
    /\ Goto(t, "tr_test", IF loaded[t] = write_completions THEN "tr_add" ELSE "idle")
    /\ Forget(t)
    /\ UNCHANGED <<tickets, cnt_and_flag, counts>>

TryReadAdd(t) ==
    /\ Goto(t, "tr_add", IF writer_flag = 0 THEN "reading" ELSE "tr_cancel")
    /\ reader_count' = reader_count + 1
    /\ UNCHANGED <<tickets, writer_flag, counts, loaded>>

TryReadCancel(t) == ReadUnlockAs(t, "tr_cancel")

TryWriteOverReaders(t) ==
    /\ writer_flag = 0
    /\ Goto(t, "idle", "tw_jump")
    /\ writer_flag' = 1
    /\ UNCHANGED <<tickets, reader_count, counts, loaded>>
TryWrite(t) ==
    /\ reader_count = 0 /\ writer_flag = 0
    /\ Goto(t, "idle", "tw_jump")
    /\ writer_flag' = 1
    /\ UNCHANGED <<tickets, reader_count, counts, loaded>>

(* "jump into the queue": one completion fewer *)
Jump == write_completions' = (write_completions + Wrap - 1) % Wrap

TryWriteJump(t) ==
    /\ Goto(t, "tw_jump", "w_grant")
    /\ Jump
    /\ UNCHANGED <<write_requests, cnt_and_flag, counts, loaded>>

-----------------------------------------------------------------------------
(* isc_rwlock_tryupgrade; one that fails changes nothing *)
TryUpgrade(t) ==
    /\ reader_count = 1 /\ writer_flag = 0
    /\ Goto(t, "reading", "up_jump")
    /\ reader_count' = 0
    /\ writer_flag' = 1
    /\ UNCHANGED <<tickets, counts, loaded>>

UpgradeJump(t) ==
    /\ Goto(t, "up_jump", "writing")
    /\ Jump
    /\ UNCHANGED <<write_requests, cnt_and_flag, counts, loaded>>

(* isc_rwlock_downgrade *)
Downgrade(t) ==
    /\ Goto(t, "writing", "dg_flag")
    /\ reader_count' = reader_count + 1
    /\ UNCHANGED <<tickets, writer_flag, counts, loaded>>

DowngradeFlag(t) ==
    /\ Goto(t, "dg_flag", "dg_done")
    /\ writer_flag' = 0
    /\ UNCHANGED <<tickets, reader_count, counts, loaded>>

DowngradeDone(t) ==
    /\ Goto(t, "dg_done", "dg_wake")
    /\ Complete
    /\ UNCHANGED <<write_requests, cnt_and_flag, counts, loaded>>

DowngradeWake(t) ==
    /\ IF readers_waiting > 0 THEN Broadcast(t, OnReadable, "dg_wake", "reading")
                              ELSE Goto(t, "dg_wake", "reading")
    /\ UNCHANGED <<tickets, cnt_and_flag, counts, loaded>>

-----------------------------------------------------------------------------
(* What a caller starts when it pleases ... *)
Begin(t) ==
    \/ "read" \in Calls[t] /\ ReadLoad(t)
    \/ "write" \in Calls[t] /\ WriteRequest(t)
    \/ "tryread" \in Calls[t] /\ TryReadLoad(t)
    \/ "trywrite" \in Calls[t] /\ TryWrite(t)
    \/ "upgrade" \in Calls[t] /\ TryUpgrade(t)
    \/ "downgrade" \in Calls[t] /\ Downgrade(t)

(* ... the unlock it owes, and what runs to its end by itself. *)
Unlock(t) == ReadUnlock(t) \/ WriteUnlock(t)

Continue(t) ==
    \/ ReadTest(t) \/ ReadLock(t) \/ ReadWoken(t) \/ ReadAdd(t)
    \/ ReadFlag(t) \/ ReadLoop(t) \/ ReadReset(t)
    \/ WriteTurn(t) \/ WriteCas(t) \/ WriteGrant(t)
    \/ ReadUnlockLoad(t) \/ ReadUnlockTest(t) \/ ReadUnlockWake(t)
    \/ WriteUnlockDone(t) \/ WriteUnlockQuota(t) \/ WriteUnlockIdle(t)
    \/ WriteUnlockReaders(t) \/ WriteUnlockLock(t) \/ WriteUnlockLoad(t)
    \/ WriteUnlockTest(t) \/ WriteUnlockWake(t)
    \/ TryReadTest(t) \/ TryReadAdd(t) \/ TryReadCancel(t) \/ TryWriteJump(t)
    \/ UpgradeJump(t) \/ DowngradeFlag(t) \/ DowngradeDone(t) \/ DowngradeWake(t)

Next == \E t \in Threads : Begin(t) \/ Unlock(t) \/ Continue(t) \/ SpuriousWakeup(t)

(* A thread that is in the middle of an operation is scheduled again, and  *)
(* every caller releases the lock it holds.                                *)
Fairness == \A t \in Threads : WF_vars(Continue(t)) /\ WF_vars(Unlock(t))

Spec == Init /\ [][Next]_vars /\ Fairness

-----------------------------------------------------------------------------
Writing == {"w_grant", "writing", "tw_jump", "up_jump", "dg_flag"}
Reading == {"r_reset", "reading", "dg_done", "dg_wake"}
Counted == {"r_flag", "r_asleep2", "r_awake2", "tr_cancel", "dg_flag"} \cup Reading
Asleep == OnReadable \cup OnWriteable
Waiting == OnReadable \cup {"r_awake1", "r_awake2"}
Queued == {"w_turn", "w_asleep1", "w_cas", "w_asleep2"}
Uncompleted == Queued \cup {"w_grant", "writing", "uw_done", "dg_flag", "dg_done"}
At(pcs) == {t \in Threads : pc[t] \in pcs}

(* Every variable stays in its type. *)
TypeOK ==
    /\ tickets \in (0 .. Wrap - 1) \X (0 .. Wrap - 1)
    /\ reader_count \in Nat
    /\ writer_flag \in {0, 1}
    /\ readers_waiting \in Nat
    /\ write_granted \in 0 .. Quota
    /\ pc \in [Threads -> Pcs]
    /\ loaded \in [Threads -> 0 .. Wrap - 1]

holder == [t \in Threads |-> IF pc[t] \in Writing THEN "write"
                             ELSE IF pc[t] \in Reading THEN "read" ELSE "none"]
RW == INSTANCE ReadersWriter

(* The lock is a reader-writer lock: every lock, trylock, upgrade,         *)
(* downgrade and unlock of rwlock.c takes effect at one step, from a state *)
(* in which a writer excludes everyone and readers exclude writers.        *)
ImplementsLock == RW!Spec

(* A writer excludes every other holder, whatever readers are counted in   *)
(* reader_count meanwhile (rwlock.c:263, 326, 419).                        *)
MutualExclusion ==
    \A t, u \in Threads : pc[t] \in Writing /\ u # t => pc[u] \notin Writing \cup Reading

(* The counters mean what their readers take them for: reader_count is the *)
(* number of readers "currently working or almost ready for working"       *)
(* (rwlock.c:198), readers_waiting the number to be woken, and the flag is *)
(* set exactly while a writer holds the lock.                              *)
CountersCount ==
    /\ reader_count = Cardinality(At(Counted))
    /\ readers_waiting = Cardinality(At(Waiting))
    /\ (writer_flag = 1) <=> (At(Writing) # {})

(* write_requests and write_completions differ by the number of writers    *)
(* "now working or waiting" (rwlock.c:191), also when an upgraded or       *)
(* try-locking writer has jumped the queue; so they can be compared for    *)
(* equality, and every jump is undone by the unlock.                       *)
TicketsCount ==
    write_requests = (write_completions + Cardinality(At(Uncompleted))) % Wrap

(* No wakeup is lost: when a thread sleeps, some thread is awake that holds *)
(* the lock or is in the middle of an operation, and so will wake it       *)
(* (rwlock.c:217: the ordering "can be very sensitive").                   *)
NoLostWakeup == At(Asleep) # {} => At(Pcs \ (Asleep \cup {"idle"})) # {}

(* Writers that queue get the lock in the order in which they took their   *)
(* tickets (rwlock.c:185: "in order to ensure the FIFO order"): the one    *)
(* whose turn has come is the oldest, jumps into the queue or not; the     *)
(* tickets count the writers.                                              *)
Age(t) == (write_requests + Wrap - loaded[t]) % Wrap
WriterOrder ==
    /\ TypeOK /\ TicketsCount
    /\ \A t \in At({"w_cas", "w_asleep2"}), u \in At(Queued) : u # t => Age(t) > Age(u)

(* From some point on nobody jumps the queue, and no wakeup is spurious. *)
Undisturbed ==
    /\ <>[](At(TryPcs) = {})
    /\ <>[][\A t \in Threads : ~SpuriousWakeup(t)]_vars

(* Every writer that queues gets the lock, unless others jump the queue    *)
(* for ever: each unlock that leaves a writer asleep wakes the writers, or *)
(* wakes readers the last of which does (rwlock.c:482, 510, 517).          *)
WriterGranted ==
    Undisturbed => \A t \in Threads : pc[t] = "w_turn" ~> pc[t] = "writing"
=============================================================================
