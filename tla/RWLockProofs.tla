---------------------------- MODULE RWLockProofs ----------------------------
(***************************************************************************)
(* For any finite set of threads, any quota and any ticket width: rwlock.c *)
(* is a reader-writer lock.  The inductive invariant adds to mutual        *)
(* exclusion what the atomic counter means; an atomic step that finds it   *)
(* zero then knows that nobody holds the lock.                             *)
(***************************************************************************)
EXTENDS RWLock, FiniteSetTheorems, TLAPS

IndInv == TypeOK /\ CountersCount /\ MutualExclusion

(* The other threads stay where they are, or wake up inside the same group *)
(* of program points.                                                      *)
Group(p) == <<p \in Counted, p \in Waiting, p \in Writing, p \in Reading>>
OthersStay(t) == \A u \in Threads : u # t => Group(pc'[u]) = Group(pc[u])

(* When one thread moves, the number of threads in a group changes by one  *)
(* if that thread enters or leaves it, and not otherwise.                  *)
LEMMA CountMove ==
    ASSUME NEW S, NEW t \in Threads,
           \A u \in Threads : u # t => (pc'[u] \in S <=> pc[u] \in S)
    PROVE  /\ Cardinality(At(S)) \in Nat
           /\ Cardinality(At(S)') =
                IF pc[t] \notin S /\ pc'[t] \in S THEN Cardinality(At(S)) + 1
                ELSE IF pc[t] \in S /\ pc'[t] \notin S THEN Cardinality(At(S)) - 1
                ELSE Cardinality(At(S))
<1>1. IsFiniteSet(At(S))
  BY ThreadsAssumption, FS_Subset DEF At
<1>2. Cardinality(At(S)) \in Nat
  BY <1>1, FS_CardinalityType
<1>3. CASE pc[t] \notin S /\ pc'[t] \in S
  <2>1. At(S)' = At(S) \cup {t} /\ t \notin At(S)
    BY <1>3 DEF At
  <2> QED
    BY <1>1, <1>2, <1>3, <2>1, FS_AddElement
<1>4. CASE pc[t] \in S /\ pc'[t] \notin S
  <2>1. At(S)' = At(S) \ {t} /\ t \in At(S)
    BY <1>4 DEF At
  <2> QED
    BY <1>1, <1>2, <1>4, <2>1, FS_RemoveElement
<1>5. CASE pc[t] \in S <=> pc'[t] \in S
  <2>1. At(S)' = At(S)
    BY <1>5 DEF At
  <2> QED
    BY <1>2, <1>5, <2>1
<1> QED
  BY <1>3, <1>4, <1>5

(* A thread that moves alone leaves the others where they are. *)
LEMMA GotoMoves ==
    ASSUME TypeOK, NEW t \in Threads, NEW from, NEW to \in Pcs, Goto(t, from, to)
    PROVE  /\ pc[t] = from /\ pc'[t] = to /\ OthersStay(t)
           /\ pc' \in [Threads -> Pcs]
BY DEF TypeOK, Goto, OthersStay, Group

(* A broadcast moves sleepers, and none of them into another group. *)
LEMMA BroadcastMoves ==
    ASSUME TypeOK, NEW t \in Threads, NEW from, NEW to \in Pcs,
           NEW asleep \in {OnReadable, OnWriteable}, Broadcast(t, asleep, from, to)
    PROVE  /\ pc[t] = from /\ pc'[t] = to /\ OthersStay(t)
           /\ pc' \in [Threads -> Pcs]
<1> USE DEF OnReadable, OnWriteable, Woken
<1>1. pc[t] = from /\ pc'[t] = to
  BY DEF Broadcast
<1>2. ASSUME NEW u \in Threads, u # t
      PROVE  pc'[u] \in Pcs /\ Group(pc'[u]) = Group(pc[u])
  <2>1. pc'[u] = IF pc[u] \in asleep THEN Woken(pc[u]) ELSE pc[u]
    BY <1>2 DEF Broadcast
  <2>2. CASE pc[u] \in asleep
    <3>1. pc[u] \in {"r_asleep1", "r_asleep2", "w_asleep1", "w_asleep2"}
      BY <2>2
    <3>2. \/ pc[u] = "r_asleep1" /\ pc'[u] = "r_awake1"
          \/ pc[u] = "r_asleep2" /\ pc'[u] = "r_awake2"
          \/ pc[u] = "w_asleep1" /\ pc'[u] = "w_turn"
          \/ pc[u] = "w_asleep2" /\ pc'[u] = "w_cas"
      BY <2>1, <2>2, <3>1
    <3> QED
      BY <3>2 DEF Group, Counted, Waiting, Writing, Reading, Pcs, ReadPcs, WritePcs
  <2>3. CASE pc[u] \notin asleep
    BY <2>1, <2>3 DEF TypeOK
  <2> QED
    BY <2>2, <2>3
<1>3. pc' \in [Threads -> Pcs]
  BY <1>1, <1>2 DEF Broadcast
<1> QED
  BY <1>1, <1>2, <1>3 DEF OthersStay

(* Counting stays exact when each counter moves as its thread does. *)
LEMMA CountersKept ==
    ASSUME IndInv, NEW t \in Threads, OthersStay(t),
           reader_count' = reader_count + (IF pc'[t] \in Counted THEN 1 ELSE 0)
                                        - (IF pc[t] \in Counted THEN 1 ELSE 0),
           readers_waiting' = readers_waiting + (IF pc'[t] \in Waiting THEN 1 ELSE 0)
                                              - (IF pc[t] \in Waiting THEN 1 ELSE 0)
    PROVE  /\ reader_count' \in Nat /\ reader_count' = Cardinality(At(Counted)')
           /\ readers_waiting' \in Nat /\ readers_waiting' = Cardinality(At(Waiting)')
<1>1. \A u \in Threads : u # t => /\ pc'[u] \in Counted <=> pc[u] \in Counted
                                  /\ pc'[u] \in Waiting <=> pc[u] \in Waiting
  BY DEF OthersStay, Group
<1>2. /\ Cardinality(At(Counted)) \in Nat
      /\ Cardinality(At(Counted)') =
            IF pc[t] \notin Counted /\ pc'[t] \in Counted THEN Cardinality(At(Counted)) + 1
            ELSE IF pc[t] \in Counted /\ pc'[t] \notin Counted THEN Cardinality(At(Counted)) - 1
            ELSE Cardinality(At(Counted))
  BY <1>1, CountMove
<1>3. /\ Cardinality(At(Waiting)) \in Nat
      /\ Cardinality(At(Waiting)') =
            IF pc[t] \notin Waiting /\ pc'[t] \in Waiting THEN Cardinality(At(Waiting)) + 1
            ELSE IF pc[t] \in Waiting /\ pc'[t] \notin Waiting THEN Cardinality(At(Waiting)) - 1
            ELSE Cardinality(At(Waiting))
  BY <1>1, CountMove
<1>4. IsFiniteSet(At(Counted)') /\ IsFiniteSet(At(Waiting)')
  BY ThreadsAssumption, FS_Subset DEF At
<1>5. Cardinality(At(Counted)') \in Nat /\ Cardinality(At(Waiting)') \in Nat
  BY <1>4, FS_CardinalityType
<1> QED
  BY <1>2, <1>3, <1>5 DEF IndInv, CountersCount

(* A count of zero, or of the thread itself, says who else can hold it. *)
LEMMA CountSays ==
    ASSUME IndInv
    PROVE  /\ reader_count = 0 => At(Counted) = {}
           /\ \A t \in Threads : reader_count = 1 /\ pc[t] \in Counted => At(Counted) = {t}
<1>1. IsFiniteSet(At(Counted))
  BY ThreadsAssumption, FS_Subset DEF At
<1>2. reader_count = 0 => At(Counted) = {}
  BY <1>1, FS_EmptySet DEF IndInv, CountersCount
<1>3. ASSUME NEW t \in Threads, reader_count = 1, pc[t] \in Counted
      PROVE  At(Counted) = {t}
  <2>1. t \in At(Counted)
    BY <1>3 DEF At
  <2>2. Cardinality(At(Counted)) = 1
    BY <1>3 DEF IndInv, CountersCount
  <2>3. PICK x : At(Counted) = {x}
    BY <1>1, <2>2, FS_Singleton
  <2> QED
    BY <2>1, <2>3
<1> QED
  BY <1>2, <1>3

(* Exclusion survives a step that lets nobody in, ...                      *)
LEMMA NobodyEnters ==
    ASSUME IndInv, NEW t \in Threads, OthersStay(t),
           pc'[t] \in Writing => pc[t] \in Writing,
           pc'[t] \in Reading => pc[t] \in Reading \cup Writing,
           writer_flag' = IF pc[t] \in Writing /\ pc'[t] \notin Writing THEN 0 ELSE writer_flag
    PROVE  MutualExclusion' /\ ((writer_flag = 1) <=> (At(Writing) # {}))'
<1>1. \A u \in Threads : u # t => /\ pc'[u] \in Writing <=> pc[u] \in Writing
                                  /\ pc'[u] \in Reading <=> pc[u] \in Reading
  BY DEF OthersStay, Group
<1>2. ASSUME NEW a \in Threads, NEW b \in Threads, pc'[a] \in Writing, b # a
      PROVE  pc'[b] \notin Writing \cup Reading
  <2>1. pc[a] \in Writing
    BY <1>1, <1>2
  <2>2. pc[b] \notin Writing \cup Reading
    BY <1>2, <2>1 DEF IndInv, MutualExclusion
  <2> QED
    BY <1>1, <2>2
<1>3. MutualExclusion'
  BY <1>2 DEF MutualExclusion
<1>4. CASE pc[t] \in Writing /\ pc'[t] \notin Writing
  <2>1. \A u \in Threads : pc'[u] \notin Writing
    BY <1>1, <1>4 DEF IndInv, MutualExclusion
  <2> QED
    BY <1>3, <1>4, <2>1 DEF At
<1>5. CASE ~(pc[t] \in Writing /\ pc'[t] \notin Writing)
  <2>1. At(Writing)' = At(Writing)
    BY <1>1, <1>5 DEF At
  <2> QED
    BY <1>3, <1>5, <2>1 DEF IndInv, CountersCount
<1> QED
  BY <1>4, <1>5

(* ... one that lets a reader in while the flag is clear, ...              *)
LEMMA ReaderEnters ==
    ASSUME IndInv, NEW t \in Threads, OthersStay(t), writer_flag = 0,
           pc'[t] \in Reading, writer_flag' = 0
    PROVE  MutualExclusion' /\ ((writer_flag = 1) <=> (At(Writing) # {}))'
<1>1. \A u \in Threads : pc[u] \notin Writing
  BY DEF IndInv, CountersCount, At
<1>2. \A u \in Threads : pc'[u] \notin Writing
  BY <1>1 DEF OthersStay, Group, Reading, Writing
<1> QED
  BY <1>2 DEF MutualExclusion, At

(* ... and one that lets a writer in when nobody else is counted.          *)
LEMMA WriterEnters ==
    ASSUME IndInv, NEW t \in Threads, OthersStay(t), writer_flag = 0,
           At(Counted) \subseteq {t}, pc'[t] \in Writing, writer_flag' = 1
    PROVE  MutualExclusion' /\ ((writer_flag = 1) <=> (At(Writing) # {}))'
<1>1. \A u \in Threads : u # t => pc[u] \notin Writing \cup Reading
  BY DEF IndInv, CountersCount, At, Counted
<1>2. \A u \in Threads : u # t => pc'[u] \notin Writing \cup Reading
  BY <1>1 DEF OthersStay, Group
<1> QED
  BY <1>2 DEF MutualExclusion, At

-----------------------------------------------------------------------------
(* Each step preserves the invariant: one step of the proof per action,    *)
(* and under it what the moving thread does to the counters and who gets   *)
(* in.  The numbers that only the fairness of the lock depends on are      *)
(* dealt with first.                                                       *)
LEMMA NumbersTyped ==
    ASSUME IndInv, Next
    PROVE  /\ write_granted' \in 0 .. Quota
           /\ tickets' \in (0 .. Wrap - 1) \X (0 .. Wrap - 1)
           /\ loaded' \in [Threads -> 0 .. Wrap - 1]
<1>1. Wrap \in Nat \ {0}
  BY ThreadsAssumption, WrapAssumption, FS_CardinalityType
<1>2. \A n \in Nat : n % Wrap \in 0 .. Wrap - 1
  BY <1>1
<1> QED
  BY <1>1, <1>2, QuotaAssumption, SMTT(60) DEF IndInv, TypeOK, Next, Begin, Unlock, Continue, tickets, cnt_and_flag, counts,
     Goto, Load, Forget, Broadcast, Jump, Complete, SpuriousWakeup, ReadLoad, ReadTest, ReadLock, ReadWoken, ReadAdd, ReadFlag,
     ReadLoop, ReadReset, WriteRequest, WriteTurn, WriteCas, WriteGrant, ReadUnlockAs, ReadUnlock, ReadUnlockLoad,
     ReadUnlockTest, ReadUnlockWake, WriteUnlock, WriteUnlockDone, WriteUnlockQuota, WriteUnlockIdle,
     WriteUnlockReaders, WriteUnlockLock, WriteUnlockLoad, WriteUnlockTest, WriteUnlockWake, TryReadLoad,
     TryReadTest, TryReadAdd, TryReadCancel, TryWrite, TryWriteJump, TryUpgrade, UpgradeJump, Downgrade,
     DowngradeFlag, DowngradeDone, DowngradeWake

(* The part of the invariant that mutual exclusion rests on. *)
Core == /\ pc \in [Threads -> Pcs]
        /\ reader_count \in Nat /\ readers_waiting \in Nat /\ writer_flag \in {0, 1}
        /\ CountersCount /\ MutualExclusion

(* A thread that stays in its group and leaves the counters alone. *)
LEMMA QuietMove ==
    ASSUME IndInv, NEW t \in Threads, OthersStay(t), Group(pc'[t]) = Group(pc[t]),
           pc' \in [Threads -> Pcs], UNCHANGED cnt_and_flag, UNCHANGED readers_waiting
    PROVE  Core'
<1>1. /\ pc'[t] \in Counted <=> pc[t] \in Counted
      /\ pc'[t] \in Waiting <=> pc[t] \in Waiting
      /\ pc'[t] \in Writing <=> pc[t] \in Writing
      /\ pc'[t] \in Reading <=> pc[t] \in Reading
  BY DEF Group
<1>2. /\ reader_count' = reader_count /\ readers_waiting' = readers_waiting
      /\ writer_flag' = writer_flag
      /\ reader_count \in Nat /\ readers_waiting \in Nat /\ writer_flag \in {0, 1}
  BY DEF IndInv, TypeOK, cnt_and_flag
<1>3. /\ reader_count' \in Nat /\ reader_count' = Cardinality(At(Counted)')
      /\ readers_waiting' \in Nat /\ readers_waiting' = Cardinality(At(Waiting)')
  BY <1>1, <1>2, CountersKept
<1>4. MutualExclusion' /\ ((writer_flag = 1) <=> (At(Writing) # {}))'
  BY <1>1, <1>2, NobodyEnters
<1> QED
  BY <1>2, <1>3, <1>4 DEF Core, CountersCount

(* The steps after which the counters still say the same. *)
Quiet(t) ==
    \/ ReadLoad(t) \/ ReadTest(t) \/ ReadReset(t)
    \/ WriteRequest(t) \/ WriteTurn(t) \/ WriteGrant(t)
    \/ ReadUnlockLoad(t) \/ ReadUnlockTest(t)
    \/ WriteUnlockDone(t) \/ WriteUnlockQuota(t) \/ WriteUnlockIdle(t)
    \/ WriteUnlockReaders(t) \/ WriteUnlockLoad(t) \/ WriteUnlockTest(t)
    \/ TryReadLoad(t) \/ TryReadTest(t) \/ TryWriteJump(t) \/ UpgradeJump(t)
    \/ DowngradeDone(t)

Waking(t) == ReadUnlockWake(t) \/ WriteUnlockLock(t) \/ WriteUnlockWake(t) \/ DowngradeWake(t)

(* The steps that only test and move on keep the invariant, ...            *)
LEMMA QuietKeeps ==
    ASSUME IndInv, NEW t \in Threads, Quiet(t)
    PROVE  Core'
<1>1. UNCHANGED cnt_and_flag /\ UNCHANGED readers_waiting
  BY DEF Quiet, ReadLoad, ReadTest, ReadReset, WriteRequest, WriteTurn, WriteGrant,
         ReadUnlockLoad, ReadUnlockTest, WriteUnlockDone, WriteUnlockQuota, WriteUnlockIdle,
         WriteUnlockReaders, WriteUnlockLoad, WriteUnlockTest, TryReadLoad, TryReadTest,
         TryWriteJump, UpgradeJump, DowngradeDone, cnt_and_flag, counts
<1>2. \E from, to \in Pcs : Goto(t, from, to) /\ Group(to) = Group(from)
  BY DEF Quiet, ReadLoad, ReadTest, ReadReset, WriteRequest, WriteTurn, WriteGrant,
         ReadUnlockLoad, ReadUnlockTest, WriteUnlockDone, WriteUnlockQuota, WriteUnlockIdle,
         WriteUnlockReaders, WriteUnlockLoad, WriteUnlockTest, TryReadLoad, TryReadTest,
         TryWriteJump, UpgradeJump, DowngradeDone, Group, Counted, Waiting, Writing, Reading,
         OnReadable, Pcs, ReadPcs, WritePcs, UnlockPcs, TryPcs, DownPcs
<1>3. OthersStay(t) /\ Group(pc'[t]) = Group(pc[t]) /\ pc' \in [Threads -> Pcs]
  BY <1>2, GotoMoves DEF IndInv
<1> QED
  BY <1>1, <1>3, QuietMove

(* ... so do the steps that wake sleepers, ...                             *)
LEMMA WakingKeeps ==
    ASSUME IndInv, NEW t \in Threads, Waking(t)
    PROVE  Core'
<1>1. UNCHANGED cnt_and_flag /\ UNCHANGED readers_waiting
  BY DEF Waking, ReadUnlockWake, WriteUnlockLock, WriteUnlockWake, DowngradeWake, counts
<1>2. \E from, to \in Pcs :
        /\ Goto(t, from, to) \/ Broadcast(t, OnReadable, from, to) \/ Broadcast(t, OnWriteable, from, to)
        /\ Group(to) = Group(from)
  BY DEF Waking, ReadUnlockWake, WriteUnlockLock, WriteUnlockWake, DowngradeWake,
         Group, Counted, Waiting, Writing, Reading, OnReadable, OnWriteable,
         Pcs, ReadPcs, WritePcs, UnlockPcs, DownPcs
<1>3. OthersStay(t) /\ Group(pc'[t]) = Group(pc[t]) /\ pc' \in [Threads -> Pcs]
  BY <1>2, GotoMoves, BroadcastMoves DEF IndInv
<1> QED
  BY <1>1, <1>3, QuietMove

(* The counters after a thread has moved alone from one point to another,  *)
(* given who gets in by that move.                                         *)
LEMMA LoudMove ==
    ASSUME IndInv, NEW t \in Threads, NEW from, NEW to \in Pcs, Goto(t, from, to),
           reader_count' = reader_count + (IF to \in Counted THEN 1 ELSE 0)
                                        - (IF from \in Counted THEN 1 ELSE 0),
           readers_waiting' = readers_waiting + (IF to \in Waiting THEN 1 ELSE 0)
                                              - (IF from \in Waiting THEN 1 ELSE 0),
           \/ /\ to \in Writing => from \in Writing
              /\ to \in Reading => from \in Reading \cup Writing
              /\ writer_flag' = IF from \in Writing /\ to \notin Writing THEN 0 ELSE writer_flag
           \/ /\ writer_flag = 0 /\ writer_flag' = 0
              /\ to \in Reading
           \/ /\ writer_flag = 0 /\ writer_flag' = 1
              /\ to \in Writing
              /\ At(Counted) \subseteq {t}
    PROVE  Core'
<1>1. pc[t] = from /\ pc'[t] = to /\ OthersStay(t) /\ pc' \in [Threads -> Pcs]
  BY GotoMoves DEF IndInv
<1>2. /\ reader_count' \in Nat /\ reader_count' = Cardinality(At(Counted)')
      /\ readers_waiting' \in Nat /\ readers_waiting' = Cardinality(At(Waiting)')
  BY <1>1, CountersKept
<1>3. MutualExclusion' /\ ((writer_flag = 1) <=> (At(Writing) # {}))'
  BY <1>1, NobodyEnters, ReaderEnters, WriterEnters
<1>4. writer_flag' \in {0, 1}
  BY DEF IndInv, TypeOK
<1> QED
  BY <1>1, <1>2, <1>3, <1>4 DEF Core, CountersCount

(* ... a wakeup that nobody asked for, ...                                 *)
LEMMA SpuriousKeeps ==
    ASSUME IndInv, NEW t \in Threads, SpuriousWakeup(t)
    PROVE  Core'
<1>1. UNCHANGED cnt_and_flag /\ UNCHANGED readers_waiting
  BY DEF SpuriousWakeup, counts
<1>2. \E from, to \in Pcs : Goto(t, from, to) /\ Group(to) = Group(from)
  <2>1. \/ Goto(t, "r_asleep1", "r_awake1")
        \/ Goto(t, "r_asleep2", "r_awake2")
        \/ Goto(t, "w_asleep1", "w_turn")
        \/ Goto(t, "w_asleep2", "w_cas")
    BY DEF SpuriousWakeup, Woken, OnReadable, OnWriteable, Goto
  <2>2. /\ Group("r_awake1") = Group("r_asleep1") /\ Group("r_awake2") = Group("r_asleep2")
        /\ Group("w_turn") = Group("w_asleep1") /\ Group("w_cas") = Group("w_asleep2")
    BY DEF Group, Counted, Waiting, Writing, Reading, OnReadable
  <2> QED
    BY <2>1, <2>2 DEF Pcs, ReadPcs, WritePcs
<1>3. OthersStay(t) /\ Group(pc'[t]) = Group(pc[t]) /\ pc' \in [Threads -> Pcs]
  BY <1>2, GotoMoves DEF IndInv
<1> QED
  BY <1>1, <1>3, QuietMove

(* ... the steps by which a thread counts itself in or takes the flag, ... *)
LEMMA LockingKeeps ==
    ASSUME IndInv, NEW t \in Threads,
           \/ ReadLock(t) \/ ReadWoken(t) \/ ReadAdd(t) \/ ReadFlag(t) \/ ReadLoop(t)
           \/ WriteCas(t) \/ TryReadAdd(t) \/ TryWrite(t)
    PROVE  Core'
<1> USE DEF Counted, Waiting, Writing, Reading, OnReadable, Pcs, ReadPcs, WritePcs, UnlockPcs, TryPcs, DownPcs
<1>1. /\ reader_count \in Nat /\ readers_waiting \in Nat /\ writer_flag \in {0, 1}
      /\ reader_count = 0 => At(Counted) \subseteq {t}
  BY CountSays DEF IndInv, TypeOK
<1>2. CASE ReadLock(t)
  BY <1>1, <1>2, LoudMove DEF ReadLock, cnt_and_flag
<1>3. CASE ReadWoken(t)
  BY <1>1, <1>3, LoudMove DEF ReadWoken, cnt_and_flag
<1>4. CASE ReadAdd(t)
  BY <1>1, <1>4, LoudMove DEF ReadAdd, counts
<1>5. CASE ReadFlag(t)
  BY <1>1, <1>5, LoudMove DEF ReadFlag, cnt_and_flag
<1>6. CASE ReadLoop(t)
  BY <1>1, <1>6, LoudMove DEF ReadLoop, cnt_and_flag
<1>7. CASE WriteCas(t)
  BY <1>1, <1>7, LoudMove DEF WriteCas, counts
<1>8. CASE TryReadAdd(t)
  BY <1>1, <1>8, LoudMove DEF TryReadAdd, counts
<1>9. CASE TryWrite(t)
  BY <1>1, <1>9, LoudMove DEF TryWrite, counts
<1> QED
  BY <1>2, <1>3, <1>4, <1>5, <1>6, <1>7, <1>8, <1>9

(* ... and those by which it counts itself out or clears the flag.         *)
LEMMA ReleasingKeeps ==
    ASSUME IndInv, NEW t \in Threads,
           \/ ReadUnlock(t) \/ TryReadCancel(t) \/ WriteUnlock(t)
           \/ TryUpgrade(t) \/ Downgrade(t) \/ DowngradeFlag(t)
    PROVE  Core'
<1> USE DEF Counted, Waiting, Writing, Reading, OnReadable, Pcs, ReadPcs, WritePcs, UnlockPcs, TryPcs, DownPcs
<1>1. /\ reader_count \in Nat /\ readers_waiting \in Nat /\ writer_flag \in {0, 1}
      /\ reader_count = 1 /\ pc[t] \in Counted => At(Counted) \subseteq {t}
  BY CountSays DEF IndInv, TypeOK
<1>2. CASE ReadUnlock(t)
  BY <1>1, <1>2, LoudMove DEF ReadUnlock, ReadUnlockAs, counts
<1>3. CASE TryReadCancel(t)
  BY <1>1, <1>3, LoudMove DEF TryReadCancel, ReadUnlockAs, counts
<1>4. CASE WriteUnlock(t)
  BY <1>1, <1>4, LoudMove DEF WriteUnlock, counts
<1>5. CASE TryUpgrade(t)
  <2>1. pc[t] = "reading"
    BY <1>5 DEF TryUpgrade, Goto
  <2> QED
    BY <1>1, <1>5, <2>1, LoudMove DEF TryUpgrade, counts
<1>6. CASE Downgrade(t)
  BY <1>1, <1>6, LoudMove DEF Downgrade, counts
<1>7. CASE DowngradeFlag(t)
  BY <1>1, <1>7, LoudMove DEF DowngradeFlag, counts
<1> QED
  BY <1>2, <1>3, <1>4, <1>5, <1>6, <1>7

(* Every step and every stutter preserves the invariant. *)
LEMMA Inductive ==
    ASSUME IndInv, [Next]_vars
    PROVE  IndInv'
<1>1. CASE UNCHANGED vars
  BY <1>1 DEF vars, tickets, cnt_and_flag, counts, IndInv, TypeOK, CountersCount, MutualExclusion, At
<1>2. CASE Next
  <2>1. PICK t \in Threads : Begin(t) \/ Unlock(t) \/ Continue(t) \/ SpuriousWakeup(t)
    BY <1>2 DEF Next
  <2>2. Core'
    BY <2>1, QuietKeeps, WakingKeeps, SpuriousKeeps, LockingKeeps, ReleasingKeeps
       DEF Begin, Unlock, Continue, Quiet, Waking
  <2>3. TypeOK'
    BY <1>2, <2>2, NumbersTyped DEF Core, TypeOK, tickets
  <2> QED
    BY <2>2, <2>3 DEF Core, IndInv
<1> QED
  BY <1>1, <1>2

(* A new lock has nobody counted. *)
LEMMA InitInv == Init => IndInv
<1> SUFFICES ASSUME Init PROVE IndInv
  OBVIOUS
<1>1. Wrap \in Nat \ {0}
  BY ThreadsAssumption, WrapAssumption, FS_CardinalityType
<1>2. \A S \in {Counted, Waiting, Writing} : At(S) = {}
  BY DEF Init, At, Counted, Waiting, Writing, Reading, OnReadable
<1>3. CountersCount
  BY <1>2, FS_EmptySet DEF Init, CountersCount
<1>4. TypeOK
  BY <1>1, QuotaAssumption DEF Init, TypeOK, tickets, Pcs
<1>5. MutualExclusion
  BY DEF Init, MutualExclusion, Writing
<1> QED
  BY <1>3, <1>4, <1>5 DEF IndInv

(* The inductive invariant holds in every behaviour. *)
LEMMA Invariance == Spec => []IndInv
BY InitInv, Inductive, PTL DEF Spec

(* For any number of threads, a thread that rwlock.c lets write is alone,  *)
(* and no thread reads while another writes.                               *)
THEOREM WritersAreAlone == Spec => []MutualExclusion
<1>1. IndInv => MutualExclusion
  BY DEF IndInv
<1> QED
  BY <1>1, Invariance, PTL

(* For any number of threads, cnt_and_flag and readers_waiting count what  *)
(* the code that tests them takes them to count.                           *)
THEOREM CountersAreExact == Spec => [](TypeOK /\ CountersCount)
<1>1. IndInv => TypeOK /\ CountersCount
  BY DEF IndInv
<1> QED
  BY <1>1, Invariance, PTL

-----------------------------------------------------------------------------
(* Only the thread that takes the step can enter or leave the lock. *)
LEMMA OneThreadMoves ==
    ASSUME IndInv, NEW t \in Threads, Begin(t) \/ Unlock(t) \/ Continue(t) \/ SpuriousWakeup(t)
    PROVE  OthersStay(t)
<1>1. CASE SpuriousWakeup(t)
  BY <1>1 DEF SpuriousWakeup, OthersStay, IndInv, TypeOK
<1>2. CASE Waking(t)
  <2>1. \E from, to \in Pcs :
          Goto(t, from, to) \/ Broadcast(t, OnReadable, from, to) \/ Broadcast(t, OnWriteable, from, to)
    BY <1>2 DEF Waking, ReadUnlockWake, WriteUnlockLock, WriteUnlockWake, DowngradeWake,
                Pcs, ReadPcs, UnlockPcs, DownPcs
  <2> QED
    BY <2>1, GotoMoves, BroadcastMoves DEF IndInv
<1>3. CASE ~SpuriousWakeup(t) /\ ~Waking(t)
  <2> DEFINE Moves == \E from, to \in Pcs : Goto(t, from, to)
  <2>1. CASE Begin(t)
    <3>1. Moves
      BY <2>1 DEF Begin, ReadLoad, WriteRequest, TryReadLoad, TryWrite, TryUpgrade, Downgrade,
                  Pcs, ReadPcs, WritePcs, TryPcs, DownPcs
    <3> QED
      BY <3>1, GotoMoves DEF IndInv
  <2>2. CASE Unlock(t)
    <3>1. Moves
      BY <2>2 DEF Unlock, ReadUnlock, ReadUnlockAs, WriteUnlock, Pcs, ReadPcs, WritePcs, UnlockPcs
    <3> QED
      BY <3>1, GotoMoves DEF IndInv
  <2>3. CASE \/ ReadTest(t) \/ ReadLock(t) \/ ReadWoken(t) \/ ReadAdd(t)
             \/ ReadFlag(t) \/ ReadLoop(t) \/ ReadReset(t)
    <3>1. Moves
      BY <2>3 DEF ReadTest, ReadLock, ReadWoken, ReadAdd, ReadFlag, ReadLoop, ReadReset, Pcs, ReadPcs
    <3> QED
      BY <3>1, GotoMoves DEF IndInv
  <2>4. CASE WriteTurn(t) \/ WriteCas(t) \/ WriteGrant(t)
    <3>1. Moves
      BY <2>4 DEF WriteTurn, WriteCas, WriteGrant, Pcs, WritePcs
    <3> QED
      BY <3>1, GotoMoves DEF IndInv
  <2>5. CASE \/ ReadUnlockLoad(t) \/ ReadUnlockTest(t) \/ WriteUnlockDone(t) \/ WriteUnlockQuota(t)
             \/ WriteUnlockIdle(t) \/ WriteUnlockReaders(t) \/ WriteUnlockLoad(t) \/ WriteUnlockTest(t)
    <3>1. Moves
      BY <2>5 DEF ReadUnlockLoad, ReadUnlockTest, WriteUnlockDone, WriteUnlockQuota, WriteUnlockIdle,
                  WriteUnlockReaders, WriteUnlockLoad, WriteUnlockTest, Pcs, UnlockPcs
    <3> QED
      BY <3>1, GotoMoves DEF IndInv
  <2>6. CASE \/ TryReadTest(t) \/ TryReadAdd(t) \/ TryReadCancel(t) \/ TryWriteJump(t)
             \/ UpgradeJump(t) \/ DowngradeFlag(t) \/ DowngradeDone(t)
    <3>1. Moves
      BY <2>6 DEF TryReadTest, TryReadAdd, TryReadCancel, ReadUnlockAs, TryWriteJump, UpgradeJump,
                  DowngradeFlag, DowngradeDone, Pcs, ReadPcs, WritePcs, UnlockPcs, TryPcs, DownPcs
    <3> QED
      BY <3>1, GotoMoves DEF IndInv
  <2> QED
    BY <1>3, <2>1, <2>2, <2>3, <2>4, <2>5, <2>6 DEF Waking, Continue
<1> QED
  BY <1>1, <1>2, <1>3

(* A step from one exclusive state to another, in which only one thread    *)
(* enters or leaves, is a step of the abstract lock.                       *)
LEMMA StepRefines ==
    ASSUME IndInv, IndInv', [Next]_vars
    PROVE  [RW!Next]_holder
<1>1. CASE UNCHANGED vars
  BY <1>1 DEF vars, holder
<1>2. CASE Next
  <2>1. PICK t \in Threads : OthersStay(t)
    BY <1>2, OneThreadMoves DEF Next
  <2>2. holder \in [Threads -> {"none", "read", "write"}] /\ holder' \in [Threads -> {"none", "read", "write"}]
    BY DEF holder
  <2>3. \A u \in Threads : u # t => holder'[u] = holder[u]
    BY <2>1 DEF OthersStay, Group, holder
  <2>4. holder' = [holder EXCEPT ![t] = holder'[t]]
    BY <2>2, <2>3
  <2>5. \A a, b \in Threads : /\ holder[a] = "write" /\ b # a => holder[b] = "none"
                              /\ holder'[a] = "write" /\ b # a => holder'[b] = "none"
    BY DEF IndInv, MutualExclusion, holder
  <2>6. CASE holder'[t] = holder[t]
    BY <2>2, <2>4, <2>6
  <2>7. CASE holder'[t] = "none" /\ holder[t] # "none"
    BY <2>4, <2>7 DEF RW!Next, RW!Unlock
  <2>8. CASE holder'[t] = "read" /\ holder[t] = "none"
    BY <2>3, <2>4, <2>5, <2>8 DEF RW!Next, RW!Lock
  <2>9. CASE holder'[t] = "write" /\ holder[t] = "none"
    BY <2>3, <2>4, <2>5, <2>9 DEF RW!Next, RW!Lock
  <2>10. CASE holder'[t] = "write" /\ holder[t] = "read"
    BY <2>3, <2>4, <2>5, <2>10 DEF RW!Next, RW!Upgrade
  <2>11. CASE holder'[t] = "read" /\ holder[t] = "write"
    BY <2>4, <2>11 DEF RW!Next, RW!Downgrade
  <2> QED
    BY <2>2, <2>6, <2>7, <2>8, <2>9, <2>10, <2>11
<1> QED
  BY <1>1, <1>2

(* rwlock.c implements the abstract lock, for any number of threads. *)
THEOREM LockIsImplemented == Spec => ImplementsLock
<1>1. Init => RW!Init
  BY DEF Init, RW!Init, holder, Writing, Reading
<1>2. IndInv /\ IndInv' /\ [Next]_vars => [RW!Next]_holder
  BY StepRefines
<1> QED
  BY <1>1, <1>2, Invariance, PTL DEF Spec, ImplementsLock, RW!Spec
=============================================================================
