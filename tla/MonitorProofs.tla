---------------------------- MODULE MonitorProofs ----------------------------
(***************************************************************************)
(* Safety of the monitor of pa2_2 for any numbers of producers and         *)
(* consumers, any buffer length and any number of writes.                  *)
(***************************************************************************)
EXTENDS Monitor, ThreadCounting, TLAPS

Labels == InMonitor \cup Outside

-----------------------------------------------------------------------------
(* The parts of the inductive invariant                                    *)

\* What the proof of mutual exclusion needs of the types.
LockType ==
    /\ sem \in [Semaphores -> Nat]
    /\ pc \in [Threads -> Labels]
    /\ main \in {"create", "join", "poll_lock", "poll", "poll_unlock",
                 "returned"}

\* A producer is in monitor_insert only while it has something left to write.
Idle == {"unborn", "start", "exit"}
LoopInv ==
    \A p \in Producers :
        /\ pc[p] \in {"unborn", "start"} => written[p] = 0
        /\ pc[p] = "exit" => written[p] = NumberOfWrites
        /\ pc[p] \notin Idle => written[p] < NumberOfWrites

\* Each kind of thread keeps to its own function.
Inserting == {"i_enter", "i_lock", "i_test", "i_block", "i_block_leave",
    "i_blocked", "i_go", "i_store", "i_flag_lock", "i_flag", "i_flag_unlock",
    "i_num_lock", "i_num", "i_num_unlock", "i_signal_lock", "i_signal",
    "i_uncount", "i_signal_unlock", "i_full", "i_full_lock", "i_full_set",
    "i_full_unlock", "i_leave"}
RoleInv ==
    /\ \A p \in Producers : pc[p] \in Inserting \cup Idle
    /\ \A c \in Consumers : pc[c] \notin Inserting /\ pc[c] # "exit"

\* A producer about to uncount a consumer finds one counted: what it read is
\* still true, as it is alone in the monitor.
SignalInv ==
    \A p \in Producers :
        /\ pc[p] = "i_num_unlock" => num[p] = emptyCount
        /\ pc[p] \in {"i_signal_lock", "i_signal", "i_uncount"} => emptyCount > 0

\* Where the thread in the monitor may have left a flag behind the buffer.
Stored == {"i_flag_lock", "i_flag"}
Signalling == {"i_flag_unlock", "i_num_lock", "i_num", "i_num_unlock",
    "i_signal_lock", "i_signal", "i_uncount", "i_signal_unlock", "i_full"}
Filled == {"i_full_lock", "i_full_set"}
Loaded == {"r_num_lock", "r_num", "r_num_unlock", "r_signal_lock", "r_signal",
    "r_signal_unlock", "r_flag_lock", "r_flag"}
Cleared == {"r_flag_unlock", "r_empty"}
Emptied == {"r_empty_lock", "r_empty_set"}
Inexact == Stored \cup Signalling \cup Filled \cup Loaded \cup Cleared \cup Emptied

\* The flags and the index at each line of the monitor.
FlagInv ==
    /\ empty_blocked \in BOOLEAN /\ full_blocked \in BOOLEAN
    /\ buffer_index \in -1..(BufferLength - 1)
    /\ (\A t \in Threads : pc[t] \notin Inexact) =>
          /\ empty_blocked <=> buffer_index = -1
          /\ full_blocked <=> buffer_index = BufferLength - 1
    /\ \A t \in Threads :
          /\ pc[t] \in {"i_go", "i_store"} =>
                ~full_blocked /\ buffer_index < BufferLength - 1
          /\ pc[t] \in {"r_go", "r_load"} => ~empty_blocked /\ buffer_index >= 0
          /\ pc[t] \in Stored => ~full_blocked /\ buffer_index >= 0
          /\ pc[t] \in Signalling =>
                ~empty_blocked /\ ~full_blocked /\ buffer_index >= 0
          /\ pc[t] \in Filled => ~empty_blocked /\ buffer_index = BufferLength - 1
          /\ pc[t] \in Loaded => ~empty_blocked /\ buffer_index < BufferLength - 1
          /\ pc[t] \in Cleared =>
                ~empty_blocked /\ ~full_blocked /\ buffer_index < BufferLength - 1
          /\ pc[t] \in Emptied => ~full_blocked /\ buffer_index = -1

\* All consumers are counted only while the buffer is empty, or while a producer
\* is on its way to signal one of them.
Waking == {"i_flag_lock", "i_flag", "i_flag_unlock", "i_num_lock", "i_num",
           "i_num_unlock", "i_signal_lock", "i_signal", "i_uncount"}
WakeInv ==
    /\ emptyCount <= Cardinality(Consumers)
    /\ emptyCount = Cardinality(Consumers) =>
          buffer_index = -1 \/ \E p \in Producers : pc[p] \in Waking

\* The writes done: the k-th of producer p is when its loop is past k, or is at
\* k and has stored the character.
PastStore == Stored \cup Signalling \cup Filled \cup {"i_full_unlock", "i_leave"}
Writes == Producers \X (1..NumberOfWrites)
Done == {w \in Writes :
            \/ w[2] <= written[w[1]]
            \/ w[2] = written[w[1]] + 1 /\ pc[w[1]] \in PastStore}
WriteInv ==
    /\ inserted = Cardinality(Done)
    /\ buffer_index + 1 = inserted - removed

\* What main knows when it has found every consumer blocked.
Blocked == {"r_block", "r_block_leave", "r_blocked"}
AllBlocked ==
    /\ \A c \in Consumers : pc[c] \in Blocked
    /\ sem["cond_empty"] = 0
    /\ buffer_index = -1
JoinInv ==
    /\ main \notin {"create", "join", "returned"} =>
          \A p \in Producers : pc[p] = "exit"
    /\ main = "poll_unlock" /\ mainNum = Cardinality(Consumers) => AllBlocked
    /\ main = "returned" /\ rval = 0 =>
          AllBlocked /\ \A p \in Producers : pc[p] = "exit"
    /\ main # "returned" => rval = 0

-----------------------------------------------------------------------------
(* Mutual exclusion: a step moves one thread between labels, and posts or  *)
(* takes a mutex exactly when the labels are on different sides of it.     *)

Count(S, f, L) == Cardinality(AtLabels(S, f, L))

\* How many threads of S are at L changes by what thread t does.
Shift(S, t, from, to, L) ==
    /\ Count(S, pc, L) \in Nat
    /\ Count(S, pc', L) = Count(S, pc, L)
           + (IF t \in S THEN In(to, L) - In(from, L) ELSE 0)

LEMMA CountsMove ==
    ASSUME pc \in [Threads -> Labels], NEW t \in Threads, NEW to,
           pc' = [pc EXCEPT ![t] = to], NEW S \in SUBSET Threads, NEW L
    PROVE  Shift(S, t, pc[t], to, L)
<1> USE DEF Shift
<1>1. /\ \A u \in Threads \ {t} : pc'[u] = pc[u]
      /\ pc'[t] = to
  OBVIOUS
<1>2. IsFiniteSet(S)
  <2>1. IsFiniteSet(Threads)
    BY MonitorAssumption, FS_Union DEF Threads
  <2>2. S \in SUBSET Threads  OBVIOUS
  <2> QED  BY <2>1, <2>2, FS_Subset
<1>3. Count(S, pc, L) \in Nat
  BY <1>2, CountType DEF Count
<1>4. CASE t \in S
  <2>1. CountChange(S, pc, pc', t, L)
    BY <1>1, <1>2, <1>4, CountMoved
  <2>2. In(to, L) \in Int /\ In(pc[t], L) \in Int  BY DEF In
  <2> QED  BY <1>1, <1>3, <1>4, <2>1, <2>2 DEF CountChange, Count
<1>5. CASE t \notin S
  <2>1. \A u \in S : pc'[u] = pc[u]  BY <1>1, <1>5
  <2>2. AtLabels(S, pc', L) = AtLabels(S, pc, L)
    BY <2>1, CountSame
  <2> QED  BY <1>3, <1>5, <2>2 DEF Count
<1> QED  BY <1>3, <1>4, <1>5

LEMMA CountIsNat ==
    ASSUME NEW S \in SUBSET Threads, NEW L
    PROVE  Cardinality(At(S, L)) \in Nat
<1>1. IsFiniteSet(Threads)  BY MonitorAssumption, FS_Union DEF Threads
<1>2. IsFiniteSet(S)  BY <1>1, FS_Subset
<1>3. At(S, L) = AtLabels(S, pc, L)  BY DEF At, AtLabels
<1> QED  BY <1>2, <1>3, CountType

LocksMove(from, to) ==
    \A L \in {InMonitor, InProducerLock, InConsumerLock} :
        /\ Count(Threads, pc, L) \in Nat
        /\ Count(Threads, pc', L) = Count(Threads, pc, L) + In(to, L) - In(from, L)

LEMMA LocksMoved ==
    ASSUME LockType, NEW t \in Threads, NEW from, NEW to,
           pc[t] = from, pc' = [pc EXCEPT ![t] = to]
    PROVE  LocksMove(from, to)
<1> SUFFICES ASSUME NEW L
             PROVE  /\ Count(Threads, pc, L) \in Nat
                    /\ Count(Threads, pc', L) =
                          Count(Threads, pc, L) + In(to, L) - In(from, L)
  BY DEF LocksMove
<1>1. pc \in [Threads -> Labels] /\ Threads \in SUBSET Threads  BY DEF LockType
<1>2. Shift(Threads, t, pc[t], to, L)
  BY <1>1, CountsMove
<1>3. In(to, L) \in Int /\ In(from, L) \in Int  BY DEF In
<1> QED  BY <1>2, <1>3 DEF Shift

\* LocksExclusive in terms of Count.
LEMMA ExclusiveCounts ==
    /\ LocksExclusive <=>
         /\ sem["monitor"] + Count(Threads, pc, InMonitor) = 1
         /\ sem["producer"] + Count(Threads, pc, InProducerLock) = 1
         /\ main # "returned" =>
              sem["consumer"] + Count(Threads, pc, InConsumerLock)
                + (IF main \in {"poll", "poll_unlock"} THEN 1 ELSE 0) = 1
    /\ LocksExclusive' <=>
         /\ sem'["monitor"] + Count(Threads, pc', InMonitor) = 1
         /\ sem'["producer"] + Count(Threads, pc', InProducerLock) = 1
         /\ main' # "returned" =>
              sem'["consumer"] + Count(Threads, pc', InConsumerLock)
                + (IF main' \in {"poll", "poll_unlock"} THEN 1 ELSE 0) = 1
BY DEF LocksExclusive, At, AtLabels, Count

\* The semaphores change as the locks that labels "from" and "to" stand for.
Balanced(from, to) ==
    /\ sem' \in [Semaphores -> Nat]
    /\ sem'["monitor"] - sem["monitor"] = In(from, InMonitor) - In(to, InMonitor)
    /\ sem'["producer"] - sem["producer"] =
          In(from, InProducerLock) - In(to, InProducerLock)
    /\ sem'["consumer"] - sem["consumer"] =
          In(from, InConsumerLock) - In(to, InConsumerLock)

LockInv == LockType /\ LocksExclusive

Moves(t, from, to) ==
    from \in Labels /\ to \in Labels /\ Goto(t, from, to) /\ Balanced(from, to)

LEMMA MovesKeepLocks ==
    ASSUME LockInv, NEW t \in Threads, NEW from, NEW to, Moves(t, from, to)
    PROVE  LockInv'
<1> USE DEF Moves
<1>1. LocksMove(from, to)
  BY LocksMoved DEF Goto, LockInv
<1>2. LockType'
  BY DEF LockInv, LockType, Goto, process, Balanced
<1>3. /\ sem["monitor"] \in Nat /\ sem'["monitor"] \in Nat
      /\ sem["producer"] \in Nat /\ sem'["producer"] \in Nat
      /\ sem["consumer"] \in Nat /\ sem'["consumer"] \in Nat
      /\ main' = main
  BY DEF Balanced, LockInv, LockType, Goto, process, Semaphores
<1>4. \A x \in {from, to} : \A L : In(x, L) \in Int  BY DEF In
<1> QED
  BY <1>1, <1>2, <1>3, <1>4, ExclusiveCounts DEF LocksMove, LockInv, Balanced

LEMMA InsertMoves ==
    ASSUME LockInv, NEW p \in Producers, Insert(p)
    PROVE  \E from, to : Moves(p, from, to)
<1> USE DEF LockInv, LockType, Semaphores, Threads, Moves, Balanced, In, InMonitor,
        InProducerLock, InConsumerLock, Labels, Outside
<1>1. SemWait(p, "monitor", "i_enter", "i_lock")
      => Moves(p, "i_enter", "i_lock")
  BY DEF SemWait
<1>2. SemWait(p, "producer", "i_lock", "i_test")
      => Moves(p, "i_lock", "i_test")
  BY DEF SemWait
<1>3. InsertTest(p)
      => Moves(p, "i_test", IF full_blocked THEN "i_block" ELSE "i_go")
  BY DEF InsertTest
<1>4. SemPost(p, "producer", "i_block", "i_block_leave")
      => Moves(p, "i_block", "i_block_leave")
  BY DEF SemPost
<1>5. SemPost(p, "monitor", "i_block_leave", "i_blocked")
      => Moves(p, "i_block_leave", "i_blocked")
  BY DEF SemPost
<1>6. SemWait(p, "cond_full", "i_blocked", "i_enter")
      => Moves(p, "i_blocked", "i_enter")
  BY DEF SemWait
<1>7. SemPost(p, "producer", "i_go", "i_store")
      => Moves(p, "i_go", "i_store")
  BY DEF SemPost
<1>8. InsertStore(p)
      => Moves(p, "i_store", "i_flag_lock")
  BY DEF InsertStore
<1>9. SemWait(p, "consumer", "i_flag_lock", "i_flag")
      => Moves(p, "i_flag_lock", "i_flag")
  BY DEF SemWait
<1>10. InsertNotEmpty(p)
      => Moves(p, "i_flag", "i_flag_unlock")
  BY DEF InsertNotEmpty
<1>11. SemPost(p, "consumer", "i_flag_unlock", "i_num_lock")
      => Moves(p, "i_flag_unlock", "i_num_lock")
  BY DEF SemPost
<1>12. SemWait(p, "consumer", "i_num_lock", "i_num")
      => Moves(p, "i_num_lock", "i_num")
  BY DEF SemWait
<1>13. ReadCount(p, emptyCount, "i_num", "i_num_unlock")
      => Moves(p, "i_num", "i_num_unlock")
  BY DEF ReadCount
<1>14. PostAndTest(p, "consumer", "i_num_unlock", "i_signal_lock", "i_full")
      => Moves(p, "i_num_unlock", IF num[p] > 0 THEN "i_signal_lock" ELSE "i_full")
  BY DEF PostAndTest, SemPost
<1>15. SemWait(p, "consumer", "i_signal_lock", "i_signal")
      => Moves(p, "i_signal_lock", "i_signal")
  BY DEF SemWait
<1>16. SemPost(p, "cond_empty", "i_signal", "i_uncount")
      => Moves(p, "i_signal", "i_uncount")
  BY DEF SemPost
<1>17. InsertUncount(p)
      => Moves(p, "i_uncount", "i_signal_unlock")
  BY DEF InsertUncount
<1>18. SemPost(p, "consumer", "i_signal_unlock", "i_full")
      => Moves(p, "i_signal_unlock", "i_full")
  BY DEF SemPost
<1>19. InsertIsFull(p)
      => Moves(p, "i_full", IF buffer_index = BufferLength - 1 THEN "i_full_lock" ELSE "i_leave")
  BY DEF InsertIsFull
<1>20. SemWait(p, "producer", "i_full_lock", "i_full_set")
      => Moves(p, "i_full_lock", "i_full_set")
  BY DEF SemWait
<1>21. InsertFull(p)
      => Moves(p, "i_full_set", "i_full_unlock")
  BY DEF InsertFull
<1>22. SemPost(p, "producer", "i_full_unlock", "i_leave")
      => Moves(p, "i_full_unlock", "i_leave")
  BY DEF SemPost
<1>23. InsertLeave(p)
      => Moves(p, "i_leave", LoopHead(written[p] + 1))
  BY DEF InsertLeave, LoopHead
<1> HIDE DEF Moves
<1> QED
  BY <1>1, <1>2, <1>3, <1>4, <1>5, <1>6, <1>7, <1>8, <1>9, <1>10, <1>11, <1>12,
     <1>13, <1>14, <1>15, <1>16, <1>17, <1>18, <1>19, <1>20, <1>21, <1>22, <1>23
     DEF Insert

LEMMA RemoveMoves ==
    ASSUME LockInv, NEW c \in Consumers, Remove(c)
    PROVE  \E from, to : Moves(c, from, to)
<1> USE DEF LockInv, LockType, Semaphores, Threads, Moves, Balanced, In, InMonitor,
        InProducerLock, InConsumerLock, Labels, Outside
<1>1. SemWait(c, "monitor", "r_enter", "r_lock")
      => Moves(c, "r_enter", "r_lock")
  BY DEF SemWait
<1>2. SemWait(c, "consumer", "r_lock", "r_test")
      => Moves(c, "r_lock", "r_test")
  BY DEF SemWait
<1>3. RemoveTest(c)
      => Moves(c, "r_test", IF empty_blocked THEN "r_block" ELSE "r_go")
  BY DEF RemoveTest
<1>4. SemPost(c, "consumer", "r_block", "r_block_leave")
      => Moves(c, "r_block", "r_block_leave")
  BY DEF SemPost
<1>5. SemPost(c, "monitor", "r_block_leave", "r_blocked")
      => Moves(c, "r_block_leave", "r_blocked")
  BY DEF SemPost
<1>6. SemWait(c, "cond_empty", "r_blocked", "r_enter")
      => Moves(c, "r_blocked", "r_enter")
  BY DEF SemWait
<1>7. SemPost(c, "consumer", "r_go", "r_load")
      => Moves(c, "r_go", "r_load")
  BY DEF SemPost
<1>8. RemoveLoad(c)
      => Moves(c, "r_load", "r_num_lock")
  BY DEF RemoveLoad
<1>9. SemWait(c, "producer", "r_num_lock", "r_num")
      => Moves(c, "r_num_lock", "r_num")
  BY DEF SemWait
<1>10. ReadCount(c, fullCount, "r_num", "r_num_unlock")
      => Moves(c, "r_num", "r_num_unlock")
  BY DEF ReadCount
<1>11. PostAndTest(c, "producer", "r_num_unlock", "r_signal_lock", "r_flag_lock")
      => Moves(c, "r_num_unlock", IF num[c] > 0 THEN "r_signal_lock" ELSE "r_flag_lock")
  BY DEF PostAndTest, SemPost
<1>12. SemWait(c, "consumer", "r_signal_lock", "r_signal")
      => Moves(c, "r_signal_lock", "r_signal")
  BY DEF SemWait
<1>13. SemPost(c, "cond_full", "r_signal", "r_signal_unlock")
      => Moves(c, "r_signal", "r_signal_unlock")
  BY DEF SemPost
<1>14. SemPost(c, "consumer", "r_signal_unlock", "r_flag_lock")
      => Moves(c, "r_signal_unlock", "r_flag_lock")
  BY DEF SemPost
<1>15. SemWait(c, "producer", "r_flag_lock", "r_flag")
      => Moves(c, "r_flag_lock", "r_flag")
  BY DEF SemWait
<1>16. RemoveNotFull(c)
      => Moves(c, "r_flag", "r_flag_unlock")
  BY DEF RemoveNotFull
<1>17. SemPost(c, "producer", "r_flag_unlock", "r_empty")
      => Moves(c, "r_flag_unlock", "r_empty")
  BY DEF SemPost
<1>18. RemoveIsEmpty(c)
      => Moves(c, "r_empty", IF buffer_index = -1 THEN "r_empty_lock" ELSE "r_leave")
  BY DEF RemoveIsEmpty
<1>19. SemWait(c, "consumer", "r_empty_lock", "r_empty_set")
      => Moves(c, "r_empty_lock", "r_empty_set")
  BY DEF SemWait
<1>20. RemoveEmpty(c)
      => Moves(c, "r_empty_set", "r_empty_unlock")
  BY DEF RemoveEmpty
<1>21. SemPost(c, "consumer", "r_empty_unlock", "r_leave")
      => Moves(c, "r_empty_unlock", "r_leave")
  BY DEF SemPost
<1>22. SemPost(c, "monitor", "r_leave", "r_enter")
      => Moves(c, "r_leave", "r_enter")
  BY DEF SemPost
<1> HIDE DEF Moves
<1> QED
  BY <1>1, <1>2, <1>3, <1>4, <1>5, <1>6, <1>7, <1>8, <1>9, <1>10, <1>11, <1>12,
     <1>13, <1>14, <1>15, <1>16, <1>17, <1>18, <1>19, <1>20, <1>21, <1>22 DEF
     Remove

LEMMA StepLocks == LockInv /\ [Next]_vars => LockInv'
<1> SUFFICES ASSUME LockInv, [Next]_vars PROVE LockInv'  OBVIOUS
<1>1. ASSUME NEW t \in Threads, NEW from, NEW to, Moves(t, from, to)
      PROVE  LockInv'
  BY <1>1, MovesKeepLocks
<1>2. ASSUME NEW p \in Producers, Insert(p) PROVE LockInv'
  BY <1>1, <1>2, InsertMoves DEF Threads
<1>3. ASSUME NEW c \in Consumers, Remove(c) PROVE LockInv'
  BY <1>1, <1>3, RemoveMoves DEF Threads
<1>4. ASSUME NEW t \in Threads, Start(t) PROVE LockInv'
  <2>1. Moves(t, "start", IF t \in Producers THEN LoopHead(0) ELSE "r_enter")
    BY <1>4 DEF Start, Moves, Balanced, In, InMonitor, InProducerLock,
                InConsumerLock, Labels, Outside, LoopHead, LockInv, LockType,
                Semaphores
  <2> QED  BY <1>1, <2>1
<1>5. ASSUME NEW t \in Threads, Create(t) PROVE LockInv'
  <2>1. pc[t] = "unborn" /\ pc' = [pc EXCEPT ![t] = "start"]
    BY <1>5 DEF Create
  <2>2. LocksMove("unborn", "start")
    BY <2>1, LocksMoved DEF LockInv
  <2>3. \A L \in {InMonitor, InProducerLock, InConsumerLock} :
           In("unborn", L) = 0 /\ In("start", L) = 0
    BY DEF In, InMonitor, InProducerLock, InConsumerLock
  <2>4. LockType' /\ sem' = sem /\ main # "poll" /\ main' # "poll"
        /\ main # "poll_unlock" /\ main' # "poll_unlock" /\ main # "returned"
    BY <1>5 DEF Create, LockInv, LockType, Labels, Outside
  <2> QED  BY <2>2, <2>3, <2>4, ExclusiveCounts DEF LocksMove, LockInv
<1>6. CASE Fail \/ Join \/ PollLock \/ PollRead \/ PollUnlock \/ UNCHANGED vars
  <2>1. pc' = pc
    BY <1>6 DEF Fail, Join, PollLock, PollRead, PollUnlock, vars
  <2>2. /\ At(Threads, InMonitor)' = At(Threads, InMonitor)
        /\ At(Threads, InProducerLock)' = At(Threads, InProducerLock)
        /\ At(Threads, InConsumerLock)' = At(Threads, InConsumerLock)
    BY <2>1 DEF At
  <2>3. Cardinality(At(Threads, InConsumerLock)) \in Nat
    BY CountIsNat
  <2> USE <2>1, <2>2, <2>3 DEF LockInv, LockType, LocksExclusive, Semaphores
  <2>4. CASE Fail \/ Join \/ PollRead
    BY <2>4 DEF Fail, Join, PollRead
  <2>5. CASE PollLock
    BY <2>5 DEF PollLock
  <2>6. CASE PollUnlock
    BY <2>6 DEF PollUnlock
  <2>7. CASE UNCHANGED vars
    BY <2>7 DEF vars, process
  <2> QED  BY <1>6, <2>4, <2>5, <2>6, <2>7
<1> QED  BY <1>2, <1>3, <1>4, <1>5, <1>6 DEF Next, Terminated

LEMMA InitLocks == Init => LockInv
<1> SUFFICES ASSUME Init PROVE LockInv  OBVIOUS
<1>1. /\ At(Threads, InMonitor) = {}
      /\ At(Threads, InProducerLock) = {}
      /\ At(Threads, InConsumerLock) = {}
  BY DEF Init, At, InMonitor, InProducerLock, InConsumerLock
<1>2. Cardinality({}) = 0  BY FS_EmptySet
<1> QED
  BY <1>1, <1>2
  DEF Init, LockInv, LockType, LocksExclusive, Semaphores, Labels, Outside

\* "only one can acquire it, so only one thread will be in monitor at a given
\* time": each of the three mutexes is held by exactly as many as its semaphore
\* has given away, for any number of threads.
THEOREM MonitorHeldByOne == Spec => []LocksExclusive
<1>1. LockInv => LocksExclusive  BY DEF LockInv
<1> QED  BY <1>1, InitLocks, StepLocks, PTL DEF Spec

\* What a thread in the monitor knows of the others.
LEMMA Alone ==
    ASSUME LockInv, NEW t \in Threads, NEW u \in Threads,
           pc[t] \in InMonitor, pc[u] \in InMonitor
    PROVE  t = u
<1>1. sem["monitor"] \in Nat  BY DEF LockInv, LockType, Semaphores
<1>2. Count(Threads, pc, InMonitor) \in Nat  BY CountIsNat DEF Count, At, AtLabels
<1>3. Cardinality(AtLabels(Threads, pc, InMonitor)) <= 1
  BY <1>1, <1>2, ExclusiveCounts DEF LockInv, Count
<1>4. IsFiniteSet(Threads)  BY MonitorAssumption, FS_Union DEF Threads
<1> QED  BY <1>3, <1>4, CountAtMostOne

-----------------------------------------------------------------------------
(* The flags: while a thread is in the monitor it alone changes them and   *)
(* the index, so each line knows how far they are apart.                   *)

LEMMA InitFlags == Init => FlagInv
<1> SUFFICES ASSUME Init PROVE FlagInv  OBVIOUS
<1>1. /\ empty_blocked = TRUE /\ full_blocked = FALSE /\ buffer_index = -1
      /\ \A t \in Threads : pc[t] = "unborn"
      /\ BufferLength \in Nat \ {0}
  BY MonitorAssumption DEF Init
<1>2. empty_blocked \in BOOLEAN /\ full_blocked \in BOOLEAN
  BY <1>1
<1>3. buffer_index \in -1..(BufferLength - 1)
  BY <1>1
<1>4. /\ empty_blocked <=> buffer_index = -1
      /\ full_blocked <=> buffer_index = BufferLength - 1
  BY <1>1
<1>5. ASSUME NEW t \in Threads
      PROVE  pc[t] \notin {"i_go", "i_store", "r_go", "r_load"} \cup Inexact
  BY <1>1 DEF Inexact, Stored, Signalling, Filled, Loaded, Cleared, Emptied
<1> QED
  BY <1>2, <1>3, <1>4, <1>5 DEF FlagInv, Inexact

LEMMA InsertFlags ==
    ASSUME LockInv, FlagInv, NEW p \in Producers, Insert(p)
    PROVE  FlagInv'
<1>1. p \in Threads  BY DEF Threads
<1>2. ASSUME NEW t \in Threads, pc[t] \in InMonitor, pc[p] \in InMonitor
      PROVE  t = p
  BY <1>1, <1>2, Alone
<1>3. pc \in [Threads -> Labels] /\ BufferLength \in Nat \ {0}
  BY MonitorAssumption DEF LockInv, LockType
<1> USE <1>1, <1>2, <1>3
    DEF FlagInv, Inexact, Stored, Signalling, Filled, Loaded, Cleared, Emptied,
        InMonitor,
        InConsumerLock, InProducerLock, Goto, flags, data
<1>4. CASE InsertTest(p)
  BY <1>4 DEF InsertTest
<1>5. CASE InsertStore(p)
  BY <1>5 DEF InsertStore
<1>6. CASE InsertNotEmpty(p)
  BY <1>6 DEF InsertNotEmpty
<1>7. CASE InsertUncount(p)
  BY <1>7 DEF InsertUncount
<1>8. CASE InsertIsFull(p)
  BY <1>8 DEF InsertIsFull
<1>9. CASE InsertFull(p)
  BY <1>9 DEF InsertFull
<1>10. CASE InsertLeave(p)
  BY <1>10 DEF InsertLeave, LoopHead
<1>11. CASE ReadCount(p, emptyCount, "i_num", "i_num_unlock")
  BY <1>11 DEF ReadCount
<1>12. CASE PostAndTest(p, "consumer", "i_num_unlock", "i_signal_lock", "i_full")
  BY <1>12 DEF PostAndTest, SemPost
<1>13. CASE \/ SemWait(p, "monitor", "i_enter", "i_lock")
            \/ SemWait(p, "producer", "i_lock", "i_test")
            \/ SemPost(p, "producer", "i_block", "i_block_leave")
            \/ SemPost(p, "monitor", "i_block_leave", "i_blocked")
            \/ SemWait(p, "cond_full", "i_blocked", "i_enter")
            \/ SemPost(p, "producer", "i_go", "i_store")
  BY <1>13 DEF SemWait, SemPost
<1>14. CASE \/ SemWait(p, "consumer", "i_flag_lock", "i_flag")
            \/ SemPost(p, "consumer", "i_flag_unlock", "i_num_lock")
            \/ SemWait(p, "consumer", "i_num_lock", "i_num")
            \/ SemWait(p, "consumer", "i_signal_lock", "i_signal")
            \/ SemPost(p, "cond_empty", "i_signal", "i_uncount")
            \/ SemPost(p, "consumer", "i_signal_unlock", "i_full")
            \/ SemWait(p, "producer", "i_full_lock", "i_full_set")
            \/ SemPost(p, "producer", "i_full_unlock", "i_leave")
  BY <1>14 DEF SemWait, SemPost
<1> HIDE DEF FlagInv, Goto
<1> QED
  BY <1>4, <1>5, <1>6, <1>7, <1>8, <1>9, <1>10, <1>11, <1>12, <1>13, <1>14
  DEF Insert

LEMMA RemoveFlags ==
    ASSUME LockInv, FlagInv, NEW c \in Consumers, Remove(c)
    PROVE  FlagInv'
<1>1. c \in Threads  BY DEF Threads
<1>2. ASSUME NEW t \in Threads, pc[t] \in InMonitor, pc[c] \in InMonitor
      PROVE  t = c
  BY <1>1, <1>2, Alone
<1>3. pc \in [Threads -> Labels] /\ BufferLength \in Nat \ {0}
  BY MonitorAssumption DEF LockInv, LockType
<1> USE <1>1, <1>2, <1>3
    DEF FlagInv, Inexact, Stored, Signalling, Filled, Loaded, Cleared, Emptied,
        InMonitor,
        InConsumerLock, InProducerLock, Goto, flags, data
<1>4. CASE RemoveTest(c)
  BY <1>4 DEF RemoveTest
<1>5. CASE RemoveLoad(c)
  BY <1>5 DEF RemoveLoad
<1>6. CASE RemoveNotFull(c)
  BY <1>6 DEF RemoveNotFull
<1>7. CASE RemoveIsEmpty(c)
  BY <1>7 DEF RemoveIsEmpty
<1>8. CASE RemoveEmpty(c)
  BY <1>8 DEF RemoveEmpty
<1>9. CASE ReadCount(c, fullCount, "r_num", "r_num_unlock")
  BY <1>9 DEF ReadCount
<1>10. CASE PostAndTest(c, "producer", "r_num_unlock", "r_signal_lock", "r_flag_lock")
  BY <1>10 DEF PostAndTest, SemPost
<1>11. CASE \/ SemWait(c, "monitor", "r_enter", "r_lock")
            \/ SemWait(c, "consumer", "r_lock", "r_test")
            \/ SemPost(c, "consumer", "r_block", "r_block_leave")
            \/ SemPost(c, "monitor", "r_block_leave", "r_blocked")
            \/ SemWait(c, "cond_empty", "r_blocked", "r_enter")
            \/ SemPost(c, "consumer", "r_go", "r_load")
            \/ SemWait(c, "producer", "r_num_lock", "r_num")
  BY <1>11 DEF SemWait, SemPost
<1>12. CASE \/ SemWait(c, "consumer", "r_signal_lock", "r_signal")
            \/ SemPost(c, "cond_full", "r_signal", "r_signal_unlock")
            \/ SemPost(c, "consumer", "r_signal_unlock", "r_flag_lock")
            \/ SemWait(c, "producer", "r_flag_lock", "r_flag")
            \/ SemPost(c, "producer", "r_flag_unlock", "r_empty")
            \/ SemWait(c, "consumer", "r_empty_lock", "r_empty_set")
            \/ SemPost(c, "consumer", "r_empty_unlock", "r_leave")
            \/ SemPost(c, "monitor", "r_leave", "r_enter")
  BY <1>12 DEF SemWait, SemPost
<1> HIDE DEF FlagInv, Goto
<1> QED
  BY <1>4, <1>5, <1>6, <1>7, <1>8, <1>9, <1>10, <1>11, <1>12
  DEF Remove

LEMMA StepFlags == LockInv /\ FlagInv /\ [Next]_vars => FlagInv'
<1> SUFFICES ASSUME LockInv, FlagInv, [Next]_vars PROVE FlagInv'  OBVIOUS
<1>1. ASSUME NEW t \in Threads, Start(t) \/ Create(t) PROVE FlagInv'
  <2>1. \E to \in {"start", "i_enter", "exit", "r_enter"} :
           /\ pc[t] \in {"unborn", "start"}
           /\ pc' = [pc EXCEPT ![t] = to]
    BY <1>1 DEF Start, Create, Goto, LoopHead
  <2>2. UNCHANGED <<flags, data>>
    BY <1>1 DEF Start, Create, MonitorUnchanged
  <2>3. pc \in [Threads -> Labels]  BY DEF LockInv, LockType
  <2> QED
    BY <2>1, <2>2, <2>3
    DEF FlagInv, flags, data, Inexact, Stored, Signalling, Filled, Loaded, Cleared,
        Emptied
<1>2. CASE Fail \/ Join \/ PollLock \/ PollRead \/ PollUnlock \/ UNCHANGED vars
  <2>1. UNCHANGED <<pc, flags, data>>
    BY <1>2 DEF Fail, Join, PollLock, PollRead, PollUnlock, MonitorUnchanged, vars
  <2> QED  BY <2>1 DEF FlagInv, flags, data
<1> QED  BY <1>1, <1>2, InsertFlags, RemoveFlags DEF Next, Terminated

\* Whenever nobody is in the monitor the two flags say whether the buffer is empty
\* or full, so that a thread blocks if and only if it must, for any length.
THEOREM FlagsAreExact == Spec => []FlagsMatchBuffer
<1>1. LockInv /\ FlagInv => FlagsMatchBuffer
  <2> SUFFICES ASSUME FlagInv, At(Threads, InMonitor) = {}
               PROVE  /\ empty_blocked <=> buffer_index = -1
                      /\ full_blocked <=> buffer_index = BufferLength - 1
    BY DEF FlagsMatchBuffer
  <2>1. \A t \in Threads : pc[t] \notin InMonitor  BY DEF At
  <2>2. Inexact \subseteq InMonitor
    BY DEF Inexact, InMonitor, Stored, Signalling, Filled, Loaded, Cleared, Emptied,
           InConsumerLock, InProducerLock
  <2> QED  BY <2>1, <2>2 DEF FlagInv
<1> QED
  BY <1>1, InitLocks, StepLocks, InitFlags, StepFlags, PTL DEF Spec

\* The flags keep the index in range, although nothing checks it: an insert finds
\* it below the last slot, a remove finds it at a slot.
THEOREM IndexStaysInRange == Spec => []IndexInRange
<1>1. FlagInv => IndexInRange
  <2> SUFFICES ASSUME FlagInv PROVE IndexInRange  OBVIOUS
  <2>1. BufferLength \in Nat \ {0}  BY MonitorAssumption
  <2>2. ASSUME NEW p \in Producers, pc[p] = "i_store"
        PROVE  buffer_index \in -1..(BufferLength - 2)
    BY <2>1, <2>2 DEF FlagInv, Threads
  <2>3. ASSUME NEW c \in Consumers, pc[c] = "r_load"
        PROVE  buffer_index \in 0..(BufferLength - 1)
    BY <2>1, <2>3 DEF FlagInv, Threads
  <2> QED  BY <2>2, <2>3 DEF IndexInRange, At
<1> QED
  BY <1>1, InitLocks, StepLocks, InitFlags, StepFlags, PTL DEF Spec

-----------------------------------------------------------------------------
(* Types, and what producers and main know where they are                  *)

StateInv == TypeOK /\ RoleInv /\ LoopInv /\ SignalInv

LEMMA InsertState ==
    ASSUME LockInv, FlagInv, StateInv, NEW p \in Producers, Insert(p)
    PROVE  StateInv'
<1>0. p \in Threads  BY DEF Threads
<1>1. ASSUME NEW t \in Threads, pc[t] \in InMonitor, pc[p] \in InMonitor
      PROVE  t = p
  BY <1>0, <1>1, Alone
<1>2. TypeOK'
  <2> USE DEF StateInv, TypeOK, Insert, SemWait, SemPost, InsertTest, InsertStore,
          InsertNotEmpty, ReadCount, PostAndTest, InsertUncount, InsertIsFull,
          InsertFull, InsertLeave, Goto, Threads
  <2>1. LockType'
    BY StepLocks DEF Next, LockInv
  <2>2. /\ empty_blocked' \in BOOLEAN /\ full_blocked' \in BOOLEAN
    BY DEF flags
  <2>3. /\ emptyCount' \in Nat /\ fullCount' \in Nat
        /\ num' \in [Threads -> Nat]
    BY DEF counts, SignalInv
  <2>4. /\ buffer' \in [Slots -> Chars \cup {Unset}]
        /\ buffer_index' \in Int
        /\ got' \in [Consumers -> Chars \cup {Unset}]
        /\ inserted' \in Nat
        /\ removed' \in Nat
    BY DEF data
  <2>5. written' \in [Producers -> 0..NumberOfWrites]
    BY MonitorAssumption DEF data, LoopInv, Idle
  <2>6. mainNum' \in Nat /\ rval' \in {0, -1}
    BY DEF process
  <2> HIDE DEF Insert
  <2> QED  BY <2>1, <2>2, <2>3, <2>4, <2>5, <2>6 DEF LockType, Labels, TypeOK
<1>3. RoleInv'
  BY MonitorAssumption
  DEF StateInv, TypeOK, Insert, SemWait, SemPost, InsertTest, InsertStore,
      InsertNotEmpty,
      ReadCount, PostAndTest, InsertUncount, InsertIsFull, InsertFull, InsertLeave,
      Goto, LoopHead, Threads, RoleInv, Inserting, Idle
<1>4. LoopInv'
  BY MonitorAssumption
  DEF StateInv, TypeOK, Insert, SemWait, SemPost, InsertTest, InsertStore,
      InsertNotEmpty,
      ReadCount, PostAndTest, InsertUncount, InsertIsFull, InsertFull, InsertLeave,
      Goto, LoopHead, Threads, LoopInv, Idle, data
<1>5. SignalInv'
  BY MonitorAssumption, <1>1
  DEF StateInv, TypeOK, Insert, SemWait, SemPost, InsertTest, InsertStore,
      InsertNotEmpty,
      ReadCount, PostAndTest, InsertUncount, InsertIsFull, InsertFull, InsertLeave,
      Goto, LoopHead, Threads, LoopInv, Idle, counts, SignalInv, InMonitor, InConsumerLock
<1> QED  BY <1>2, <1>3, <1>4, <1>5 DEF StateInv

LEMMA RemoveState ==
    ASSUME LockInv, FlagInv, StateInv, NEW c \in Consumers, Remove(c)
    PROVE  StateInv'
<1>0. c \in Threads  BY DEF Threads
<1>1. ASSUME NEW t \in Threads, pc[t] \in InMonitor, pc[c] \in InMonitor
      PROVE  t = c
  BY <1>0, <1>1, Alone
<1> USE MonitorAssumption
    DEF StateInv, TypeOK, Remove, SemWait, SemPost, ReadCount, PostAndTest,
        RemoveTest,
        RemoveLoad, RemoveNotFull, RemoveIsEmpty, RemoveEmpty, Goto, Threads
<1>2. TypeOK'
  <2>1. LockType'
    BY StepLocks DEF Next, LockInv
  <2>2. /\ empty_blocked' \in BOOLEAN /\ full_blocked' \in BOOLEAN
    BY DEF flags
  <2>3. /\ emptyCount' \in Nat /\ fullCount' \in Nat
        /\ num' \in [Threads -> Nat]
    BY DEF counts
  <2>4. /\ buffer' \in [Slots -> Chars \cup {Unset}]
        /\ buffer_index' \in Int
        /\ inserted' \in Nat
        /\ removed' \in Nat
        /\ written' \in [Producers -> 0..NumberOfWrites]
    BY DEF data
  <2>5. got' \in [Consumers -> Chars \cup {Unset}]
    <3>1. pc[c] = "r_load" => buffer_index \in Slots
      BY <1>0 DEF FlagInv, Slots
    <3> QED  BY <3>1 DEF data
  <2>6. mainNum' \in Nat /\ rval' \in {0, -1}
    BY DEF process
  <2> HIDE DEF Remove
  <2> QED  BY <2>1, <2>2, <2>3, <2>4, <2>5, <2>6 DEF LockType, Labels, TypeOK
<1>3. RoleInv'
  BY DEF RoleInv, Inserting, Idle
<1>4. LoopInv'
  BY DEF LoopInv, data, Idle
<1>5. SignalInv'
  BY <1>1 DEF SignalInv, RoleInv, counts, InMonitor, InConsumerLock, Inserting, Idle
<1> HIDE DEF Remove
<1> QED  BY <1>2, <1>3, <1>4, <1>5

LEMMA InitState == Init => StateInv
<1> SUFFICES ASSUME Init PROVE StateInv  OBVIOUS
<1> USE MonitorAssumption DEF Init
<1>1. TypeOK
  <2>1. /\ sem \in [Semaphores -> Nat]
        /\ pc \in [Threads -> InMonitor \cup Outside]
        /\ num \in [Threads -> Nat]
    BY DEF Semaphores, Outside
  <2>2. /\ buffer \in [Slots -> Chars \cup {Unset}]
        /\ got \in [Consumers -> Chars \cup {Unset}]
        /\ buffer_index \in Int
    OBVIOUS
  <2>3. written \in [Producers -> 0..NumberOfWrites]
    OBVIOUS
  <2> QED  BY <2>1, <2>2, <2>3 DEF TypeOK
<1>2. \A t \in Threads : pc[t] = "unborn"
  OBVIOUS
<1>3. RoleInv /\ LoopInv /\ SignalInv
  BY <1>2 DEF RoleInv, Inserting, Idle, LoopInv, SignalInv, Threads
<1> QED  BY <1>1, <1>3 DEF StateInv

LEMMA StepState == LockInv /\ FlagInv /\ StateInv /\ [Next]_vars => StateInv'
<1> SUFFICES ASSUME LockInv, FlagInv, StateInv, [Next]_vars PROVE StateInv'
  OBVIOUS
<1>1. ASSUME NEW t \in Threads, Start(t) PROVE StateInv'
  BY <1>1, MonitorAssumption
  DEF Start, Goto, LoopHead, MonitorUnchanged, flags, counts, data, process, StateInv,
      TypeOK, Threads, InMonitor, Outside, RoleInv, Inserting, Idle, LoopInv, SignalInv
<1>2. ASSUME NEW t \in Threads, Create(t) PROVE StateInv'
  BY <1>2, MonitorAssumption
  DEF Create, MonitorUnchanged, flags, counts, data, process, StateInv,
      TypeOK, Threads, InMonitor, Outside, RoleInv, Inserting, Idle, LoopInv, SignalInv
<1>3. CASE Fail \/ Join \/ PollLock \/ PollRead \/ PollUnlock \/ UNCHANGED vars
  <2>1. RoleInv' /\ LoopInv' /\ SignalInv'
    BY <1>3
    DEF Fail, Join, PollLock, PollRead, PollUnlock, MonitorUnchanged, vars, counts,
        data,
        StateInv, RoleInv, LoopInv, SignalInv
  <2>2. TypeOK'
    BY <1>3
    DEF Fail, Join, PollLock, PollRead, PollUnlock, MonitorUnchanged, vars, flags,
        counts,
        data, process, StateInv, TypeOK, Semaphores
  <2> QED  BY <2>1, <2>2 DEF StateInv
<1> QED  BY <1>1, <1>2, <1>3, InsertState, RemoveState DEF Next, Terminated

\* The counts of blocked threads and the semaphores stay natural numbers: no
\* consumer is taken off a count that is 0, because what a producer has read in
\* the monitor is still true when it acts on it.
THEOREM TypeCorrect == Spec => []TypeOK
<1>1. StateInv => TypeOK  BY DEF StateInv
<1> QED
  BY <1>1, InitLocks, StepLocks, InitFlags, StepFlags, InitState, StepState, PTL
  DEF Spec

-----------------------------------------------------------------------------
(* Blocked consumers                                                       *)

\* BlockedConsumersCounted in terms of Count.
Counted(f, posted, count) ==
    count + posted - Count(Producers, f, {"i_uncount"}) = Count(Consumers, f, Blocked)

LEMMA BlockedCounts ==
    /\ BlockedConsumersCounted <=> Counted(pc, sem["cond_empty"], emptyCount)
    /\ BlockedConsumersCounted' <=> Counted(pc', sem'["cond_empty"], emptyCount')
BY DEF BlockedConsumersCounted, Counted, At, AtLabels, Count, Blocked

\* How a step of t from label "from" to label "to" changes the two counts.
BlockedMove(t, from, to) ==
    /\ Shift(Producers, t, from, to, {"i_uncount"})
    /\ Shift(Consumers, t, from, to, Blocked)

LEMMA BlockedMoved ==
    ASSUME LockInv, NEW t \in Threads, NEW from, NEW to,
           pc[t] = from, pc' = [pc EXCEPT ![t] = to]
    PROVE  BlockedMove(t, from, to)
<1>1. pc \in [Threads -> Labels]  BY DEF LockInv, LockType
<1>2. Producers \in SUBSET Threads /\ Consumers \in SUBSET Threads  BY DEF Threads
<1> QED  BY <1>1, <1>2, CountsMove DEF BlockedMove

LEMMA InitCounted == Init => BlockedConsumersCounted
<1> SUFFICES ASSUME Init PROVE BlockedConsumersCounted  OBVIOUS
<1>1. /\ AtLabels(Producers, pc, {"i_uncount"}) = {}
      /\ AtLabels(Consumers, pc, Blocked) = {}
  BY DEF Init, AtLabels, Blocked, Threads
<1>2. Cardinality({}) = 0  BY FS_EmptySet
<1> QED  BY <1>1, <1>2, BlockedCounts DEF Init, Counted, Count, Semaphores

LEMMA InsertCounted ==
    ASSUME LockInv, StateInv, BlockedConsumersCounted, NEW p \in Producers, Insert(p)
    PROVE  BlockedConsumersCounted'
<1>1. p \in Threads /\ p \notin Consumers  BY MonitorAssumption DEF Threads
<1>2. \A from, to : pc[p] = from /\ pc' = [pc EXCEPT ![p] = to] => BlockedMove(p, from, to)
  BY <1>1, BlockedMoved
<1>3. /\ emptyCount \in Nat /\ sem["cond_empty"] \in Nat
      /\ pc \in [Threads -> Labels]
  BY DEF StateInv, TypeOK, Semaphores, Labels
<1> USE BlockedCounts DEF Counted, Shift, BlockedMove, In
<1>4. CASE InsertUncount(p)
  <2>1. BlockedMove(p, "i_uncount", "i_signal_unlock")
    BY <1>2, <1>4 DEF InsertUncount, Goto
  <2> QED  BY <1>1, <1>3, <1>4, <2>1 DEF InsertUncount
<1>5. CASE SemPost(p, "cond_empty", "i_signal", "i_uncount")
  <2>1. BlockedMove(p, "i_signal", "i_uncount")
    BY <1>2, <1>5 DEF SemPost, Goto
  <2>2. sem'["cond_empty"] = sem["cond_empty"] + 1 /\ emptyCount' = emptyCount
    BY <1>5 DEF SemPost, counts, StateInv, TypeOK, Semaphores
  <2> QED  BY <1>1, <1>3, <2>1, <2>2
<1>6. CASE ~InsertUncount(p) /\ ~SemPost(p, "cond_empty", "i_signal", "i_uncount")
  <2>1. BlockedMove(p, pc[p], pc'[p])
    <3>1. pc' = [pc EXCEPT ![p] = pc'[p]]
      BY <1>1, <1>3, InsertMoves DEF Moves, Goto
    <3> QED  BY <1>2, <3>1
  <2>2. /\ pc[p] # "i_uncount" /\ pc'[p] # "i_uncount"
        /\ emptyCount' = emptyCount /\ sem'["cond_empty"] = sem["cond_empty"]
    <3> HIDE <1>4, <1>5
    <3> QED
    BY <1>1, <1>3, <1>6
    DEF Insert, SemWait, SemPost, InsertTest, InsertStore, InsertNotEmpty,
        InsertIsFull, InsertFull, InsertLeave,
        ReadCount, PostAndTest, LoopHead, Goto, counts, Semaphores, StateInv, TypeOK
  <2> QED  BY <1>1, <1>3, <2>1, <2>2
<1> QED  BY <1>4, <1>5, <1>6

LEMMA RemoveCounted ==
    ASSUME LockInv, StateInv, BlockedConsumersCounted, NEW c \in Consumers, Remove(c)
    PROVE  BlockedConsumersCounted'
<1>1. c \in Threads /\ c \notin Producers  BY MonitorAssumption DEF Threads
<1>2. \A from, to : pc[c] = from /\ pc' = [pc EXCEPT ![c] = to] => BlockedMove(c, from, to)
  BY <1>1, BlockedMoved
<1>3. /\ emptyCount \in Nat /\ sem["cond_empty"] \in Nat
      /\ pc \in [Threads -> Labels]
  BY DEF StateInv, TypeOK, Semaphores, Labels
<1>4. BlockedMove(c, pc[c], pc'[c])
  <2>1. pc' = [pc EXCEPT ![c] = pc'[c]]
    BY <1>1, <1>3, RemoveMoves DEF Moves, Goto
  <2> QED  BY <1>2, <2>1
<1>5. /\ emptyCount' = emptyCount + In(pc'[c], {"r_block"})
      /\ sem'["cond_empty"] = sem["cond_empty"] - In(pc[c], {"r_blocked"})
      /\ In(pc'[c], Blocked) - In(pc[c], Blocked) =
            In(pc'[c], {"r_block"}) - In(pc[c], {"r_blocked"})
  BY <1>1, <1>3
  DEF Remove, SemWait, SemPost, RemoveTest, RemoveLoad, RemoveNotFull, RemoveIsEmpty,
      RemoveEmpty, ReadCount, PostAndTest, Goto, counts, Semaphores, StateInv, TypeOK,
      In, Blocked
<1>6. \A x, L : In(x, L) \in {0, 1}  BY DEF In
<1> QED
  BY <1>1, <1>3, <1>4, <1>5, <1>6, BlockedCounts DEF Counted, Shift, BlockedMove

LEMMA StepCounted ==
    LockInv /\ StateInv /\ BlockedConsumersCounted /\ [Next]_vars
        => BlockedConsumersCounted'
<1> SUFFICES ASSUME LockInv, StateInv, BlockedConsumersCounted, [Next]_vars
             PROVE  BlockedConsumersCounted'
  OBVIOUS
<1>1. ASSUME NEW t \in Threads, Start(t) \/ Create(t)
      PROVE  BlockedConsumersCounted'
  <2>1. \E from, to \in {"unborn", "start", "i_enter", "exit", "r_enter"} :
           pc[t] = from /\ pc' = [pc EXCEPT ![t] = to]
    BY <1>1 DEF Start, Create, Goto, LoopHead
  <2>2. PICK from, to \in {"unborn", "start", "i_enter", "exit", "r_enter"} :
           BlockedMove(t, from, to)
    BY <2>1, BlockedMoved
  <2>3. UNCHANGED <<emptyCount, sem>>
    BY <1>1 DEF Start, Create, MonitorUnchanged, counts
  <2>4. /\ In(from, {"i_uncount"}) = 0 /\ In(to, {"i_uncount"}) = 0
        /\ In(from, Blocked) = 0 /\ In(to, Blocked) = 0
    BY DEF In, Blocked
  <2> QED  BY <2>2, <2>3, <2>4, BlockedCounts DEF BlockedMove, Shift, Counted
<1>2. CASE Fail \/ Join \/ PollLock \/ PollRead \/ PollUnlock \/ UNCHANGED vars
  <2>1. /\ pc' = pc /\ emptyCount' = emptyCount
        /\ sem'["cond_empty"] = sem["cond_empty"]
    BY <1>2
    DEF Fail, Join, PollLock, PollRead, PollUnlock, MonitorUnchanged, counts, vars,
        LockInv, LockType, Semaphores
  <2> QED  BY <2>1, BlockedCounts
<1> QED  BY <1>1, <1>2, InsertCounted, RemoveCounted DEF Next, Terminated

\* No wakeup of a consumer is lost, for any number of threads: a consumer that has
\* counted itself is still counted or has a signal waiting for it.
THEOREM NoLostWakeup == Spec => []BlockedConsumersCounted
BY InitLocks, StepLocks, InitFlags, StepFlags, InitState, StepState, InitCounted,
   StepCounted, PTL
DEF Spec

-----------------------------------------------------------------------------
(* The end of the input                                                    *)

\* The counts of BlockedConsumersCounted are natural numbers, and bounded.
LEMMA BlockedBound ==
    /\ Cardinality(At(Consumers, Blocked)) \in Nat
    /\ Cardinality(At(Producers, {"i_uncount"})) \in Nat
    /\ Cardinality(Consumers) \in Nat
    /\ Cardinality(At(Consumers, Blocked)) <= Cardinality(Consumers)
    /\ \A c \in Consumers : pc[c] \notin Blocked =>
          Cardinality(At(Consumers, Blocked)) < Cardinality(Consumers)
<1>1. /\ IsFiniteSet(Consumers)
      /\ Producers \in SUBSET Threads /\ Consumers \in SUBSET Threads
  BY MonitorAssumption DEF Threads
<1>2. At(Consumers, Blocked) \in SUBSET Consumers  BY DEF At
<1>3. \A c \in Consumers : pc[c] \notin Blocked => At(Consumers, Blocked) # Consumers
  BY DEF At
<1> QED  BY <1>1, <1>2, <1>3, CountIsNat, FS_Subset, FS_CardinalityType

LEMMA InitWake == Init => WakeInv
<1> SUFFICES ASSUME Init PROVE WakeInv  OBVIOUS
<1>1. Cardinality(Consumers) \in Nat  BY BlockedBound
<1> QED  BY <1>1 DEF Init, WakeInv

LEMMA InsertWakes ==
    ASSUME LockInv, FlagInv, StateInv, WakeInv, NEW p \in Producers, Insert(p)
    PROVE  WakeInv'
<1>1. /\ emptyCount \in Nat /\ buffer_index \in Int /\ pc \in [Threads -> Labels]
      /\ Cardinality(Consumers) \in Nat \ {0}
  BY BlockedBound, MonitorAssumption, FS_EmptySet DEF StateInv, TypeOK, Labels
<1>2. p \in Threads /\ \A q \in Producers \ {p} : pc[q] = pc'[q]
  BY <1>1, InsertMoves DEF Moves, Goto, Threads
<1>3. CASE InsertUncount(p)
  BY <1>1, <1>3 DEF InsertUncount, WakeInv
<1>4. CASE PostAndTest(p, "consumer", "i_num_unlock", "i_signal_lock", "i_full")
  BY <1>1, <1>2, <1>4
  DEF PostAndTest, SemPost, Goto, counts, data, WakeInv, Waking, StateInv, SignalInv,
      TypeOK
<1>5. CASE InsertStore(p)
  BY <1>1, <1>2, <1>5 DEF InsertStore, Goto, counts, WakeInv, Waking
<1>6. CASE /\ ~InsertUncount(p) /\ ~InsertStore(p)
           /\ ~PostAndTest(p, "consumer", "i_num_unlock", "i_signal_lock", "i_full")
  <2>1. /\ emptyCount' = emptyCount /\ buffer_index' = buffer_index
        /\ pc[p] \in Waking => pc'[p] \in Waking
    BY <1>1, <1>2, <1>6
    DEF Insert, SemWait, SemPost, InsertTest, InsertNotEmpty, InsertIsFull,
        InsertFull,
        InsertLeave, ReadCount, Goto, counts, data, Waking
  <2> QED  BY <1>2, <2>1 DEF WakeInv
<1> QED  BY <1>3, <1>4, <1>5, <1>6

LEMMA RemoveWakes ==
    ASSUME LockInv, FlagInv, StateInv, BlockedConsumersCounted, WakeInv,
           NEW c \in Consumers, Remove(c)
    PROVE  WakeInv'
<1>1. /\ emptyCount \in Nat /\ buffer_index \in Int /\ pc \in [Threads -> Labels]
      /\ sem["cond_empty"] \in Nat /\ Cardinality(Consumers) \in Nat
  BY BlockedBound DEF StateInv, TypeOK, Labels, Semaphores
<1>2. c \in Threads /\ \A p \in Producers : pc[p] = pc'[p]
  BY <1>1, RemoveMoves, MonitorAssumption DEF Moves, Goto, Threads
<1>3. ASSUME NEW t \in Threads, pc[t] \in InMonitor, pc[c] \in InMonitor
      PROVE  t = c
  BY <1>2, <1>3, Alone
<1>4. CASE RemoveTest(c)
  <2>1. pc[c] = "r_test"  BY <1>4 DEF RemoveTest, Goto
  <2>2. At(Producers, {"i_uncount"}) = {}
    BY <1>3, <2>1 DEF At, Threads, InMonitor, InConsumerLock
  <2>3. Cardinality(At(Producers, {"i_uncount"})) = 0  BY <2>2, FS_EmptySet
  <2>4. emptyCount < Cardinality(Consumers)
    BY <1>1, <2>1, <2>3, BlockedBound DEF BlockedConsumersCounted, Blocked
  <2>5. \A t \in Threads : pc[t] \notin Inexact
    BY <1>3, <2>1
    DEF Inexact, Stored, Signalling, Filled, Loaded, Cleared, Emptied, InMonitor,
        InConsumerLock, InProducerLock
  <2>6. empty_blocked <=> buffer_index = -1  BY <2>5 DEF FlagInv
  <2> QED
    BY <1>1, <1>4, <2>4, <2>6 DEF RemoveTest, WakeInv, data
<1>5. CASE RemoveLoad(c)
  <2>1. pc[c] = "r_load"  BY <1>5 DEF RemoveLoad, Goto
  <2>2. \A p \in Producers : pc[p] \notin Waking
    BY <1>3, <2>1 DEF Waking, Threads, InMonitor, InConsumerLock, InProducerLock
  <2>3. buffer_index >= 0  BY <1>2, <2>1 DEF FlagInv
  <2> QED
    BY <1>1, <1>5, <2>2, <2>3 DEF RemoveLoad, WakeInv, counts
<1>6. CASE ~RemoveTest(c) /\ ~RemoveLoad(c)
  <2>1. emptyCount' = emptyCount /\ buffer_index' = buffer_index
    BY <1>6
    DEF Remove, SemWait, SemPost, RemoveNotFull, RemoveIsEmpty, RemoveEmpty,
        ReadCount,
        PostAndTest, Goto, counts, data
  <2> QED  BY <1>2, <2>1 DEF WakeInv
<1> QED  BY <1>4, <1>5, <1>6

LEMMA StepWake ==
    LockInv /\ FlagInv /\ StateInv /\ BlockedConsumersCounted /\ WakeInv /\ [Next]_vars
        => WakeInv'
<1> SUFFICES ASSUME LockInv, FlagInv, StateInv, BlockedConsumersCounted, WakeInv,
                    [Next]_vars
             PROVE  WakeInv'
  OBVIOUS
<1>1. ASSUME NEW t \in Threads, Start(t) \/ Create(t) PROVE WakeInv'
  BY <1>1
  DEF Start, Create, Goto, LoopHead, MonitorUnchanged, counts, data, WakeInv, Waking,
      Threads, StateInv, TypeOK
<1>2. CASE Fail \/ Join \/ PollLock \/ PollRead \/ PollUnlock \/ UNCHANGED vars
  BY <1>2
  DEF Fail, Join, PollLock, PollRead, PollUnlock, MonitorUnchanged, counts, data,
      vars,
      WakeInv
<1> QED  BY <1>1, <1>2, InsertWakes, RemoveWakes DEF Next, Terminated

-----------------------------------------------------------------------------
(* Every write is done once.  The writes are counted as a set of pairs, of *)
(* a producer and the number of one of its rounds: each store adds one.    *)

LEMMA WritesFinite ==
    /\ IsFiniteSet(Writes)
    /\ Cardinality(Writes) = Cardinality(Producers) * NumberOfWrites
    /\ IsFiniteSet(Done)
    /\ Cardinality(Done) \in Nat
    /\ Cardinality(Done) <= Cardinality(Writes)
    /\ Done # Writes => Cardinality(Done) < Cardinality(Writes)
<1>1. /\ IsFiniteSet(1..NumberOfWrites)
      /\ Cardinality(1..NumberOfWrites) = NumberOfWrites
  BY MonitorAssumption, FS_Interval
<1>2. /\ IsFiniteSet(Writes)
      /\ Cardinality(Writes) = Cardinality(Producers) * NumberOfWrites
  BY <1>1, MonitorAssumption, FS_Product DEF Writes
<1>3. Done \in SUBSET Writes  BY DEF Done
<1> QED  BY <1>2, <1>3, FS_Subset, FS_CardinalityType

LEMMA InitWrite == Init => WriteInv
<1> SUFFICES ASSUME Init PROVE WriteInv  OBVIOUS
<1>1. Done = {}
  BY MonitorAssumption
  DEF Init, Done, Writes, PastStore, Stored, Signalling, Filled, Threads
<1>2. Cardinality({}) = 0  BY FS_EmptySet
<1> QED  BY <1>1, <1>2 DEF Init, WriteInv

\* Nothing else changes which writes are done.
LEMMA DoneSame ==
    ASSUME \A p \in Producers : /\ pc'[p] \in PastStore <=> pc[p] \in PastStore
                                /\ written'[p] = written[p]
    PROVE  Done' = Done
BY DEF Done, Writes

LEMMA InsertWrites ==
    ASSUME LockInv, StateInv, WriteInv, NEW p \in Producers, Insert(p)
    PROVE  WriteInv'
<1>1. /\ pc \in [Threads -> Labels] /\ p \in Threads
      /\ written \in [Producers -> 0..NumberOfWrites]
      /\ inserted \in Nat /\ removed \in Nat /\ buffer_index \in Int
      /\ NumberOfWrites \in Nat
  BY MonitorAssumption DEF StateInv, TypeOK, Labels, Threads
<1>2. \A q \in Producers \ {p} : pc[q] = pc'[q]
  BY <1>1, InsertMoves DEF Moves, Goto, Threads
<1>3. CASE InsertStore(p)
  <2> DEFINE new == <<p, written[p] + 1>>
  <2>1. /\ pc[p] = "i_store" /\ pc'[p] = "i_flag_lock"
        /\ written' = written
    BY <1>1, <1>3 DEF InsertStore, Goto
  <2>2. written[p] < NumberOfWrites
    BY <2>1 DEF StateInv, LoopInv, Idle
  <2>3. new \in Writes /\ new \notin Done
    BY <1>1, <2>1, <2>2
    DEF Writes, Done, PastStore, Stored, Signalling, Filled
  <2>4. pc'[p] \in PastStore /\ pc[p] \notin PastStore
    BY <2>1 DEF PastStore, Stored, Signalling, Filled
  <2>5. Done' = Done \cup {new}
    BY <1>1, <1>2, <2>1, <2>3, <2>4 DEF Done, Writes
  <2>6. Cardinality(Done \cup {new}) = Cardinality(Done) + 1
    BY <2>3, WritesFinite, FS_AddElement
  <2> QED
    BY <1>1, <1>3, <2>5, <2>6 DEF InsertStore, WriteInv
<1>4. CASE InsertLeave(p)
  <2>1. /\ pc[p] \in PastStore /\ pc'[p] \notin PastStore
        /\ written'[p] = written[p] + 1
        /\ \A q \in Producers \ {p} : written'[q] = written[q]
    BY <1>1, <1>4 DEF InsertLeave, Goto, LoopHead, PastStore, Stored, Signalling,
        Filled
  <2>2. Done' = Done
    BY <1>1, <1>2, <2>1 DEF Done, Writes
  <2> QED  BY <1>4, <2>2 DEF InsertLeave, WriteInv
<1>5. CASE ~InsertStore(p) /\ ~InsertLeave(p)
  <2>1. /\ pc'[p] \in PastStore <=> pc[p] \in PastStore
        /\ UNCHANGED <<written, inserted, removed, buffer_index>>
    BY <1>1, <1>5
    DEF Insert, SemWait, SemPost, InsertTest, InsertNotEmpty, InsertUncount,
        InsertIsFull,
        InsertFull, ReadCount, PostAndTest, Goto, data, PastStore, Stored, Signalling,
        Filled
  <2>2. Done' = Done  BY <1>2, <2>1, DoneSame
  <2> QED  BY <2>1, <2>2 DEF WriteInv
<1> QED  BY <1>3, <1>4, <1>5

LEMMA StepWrites == LockInv /\ StateInv /\ WriteInv /\ [Next]_vars => WriteInv'
<1> SUFFICES ASSUME LockInv, StateInv, WriteInv, [Next]_vars PROVE WriteInv'
  OBVIOUS
<1>1. /\ pc \in [Threads -> Labels]
      /\ inserted \in Nat /\ removed \in Nat /\ buffer_index \in Int
  BY DEF StateInv, TypeOK, Labels
<1>2. ASSUME NEW c \in Consumers, Remove(c) PROVE WriteInv'
  <2>1. c \in Threads /\ \A p \in Producers : pc[p] = pc'[p]
    BY <1>1, <1>2, RemoveMoves, MonitorAssumption DEF Moves, Goto, Threads
  <2>2. written' = written /\ inserted' = inserted
    BY <1>2
    DEF Remove, SemWait, SemPost, RemoveTest, RemoveLoad, RemoveNotFull,
        RemoveIsEmpty,
        RemoveEmpty, ReadCount, PostAndTest, data
  <2>3. \E k \in {0, 1} : buffer_index' = buffer_index - k /\ removed' = removed + k
    BY <1>1, <1>2
    DEF Remove, SemWait, SemPost, RemoveTest, RemoveLoad, RemoveNotFull,
        RemoveIsEmpty,
        RemoveEmpty, ReadCount, PostAndTest, data
  <2>4. Done' = Done  BY <2>1, <2>2, DoneSame
  <2>5. buffer_index' + 1 = inserted - removed'
    BY <1>1, <2>3 DEF WriteInv
  <2> QED  BY <2>2, <2>4, <2>5 DEF WriteInv
<1>3. ASSUME NEW t \in Threads, Start(t) \/ Create(t) PROVE WriteInv'
  <2>1. UNCHANGED data
    BY <1>3 DEF Start, Create, MonitorUnchanged
  <2>2. \A p \in Producers : pc'[p] \in PastStore <=> pc[p] \in PastStore
    BY <1>1, <1>3
    DEF Start, Create, Goto, LoopHead, PastStore, Stored, Signalling, Filled, Threads
  <2>3. Done' = Done  BY <2>1, <2>2, DoneSame DEF data
  <2> QED  BY <2>1, <2>3 DEF WriteInv, data
<1>4. CASE Fail \/ Join \/ PollLock \/ PollRead \/ PollUnlock \/ UNCHANGED vars
  <2>1. UNCHANGED <<data, pc>>
    BY <1>4 DEF Fail, Join, PollLock, PollRead, PollUnlock, MonitorUnchanged, vars
  <2>2. Done' = Done  BY <2>1, DoneSame DEF data
  <2> QED  BY <2>1, <2>2 DEF WriteInv, data
<1> QED  BY <1>2, <1>3, <1>4, InsertWrites DEF Next, Terminated

-----------------------------------------------------------------------------
(* main                                                                    *)

LEMMA InitJoin == Init => JoinInv
BY DEF Init, JoinInv

LEMMA StepJoin ==
    LockInv /\ StateInv /\ BlockedConsumersCounted /\ WakeInv /\ JoinInv /\ [Next]_vars
        => JoinInv'
<1> SUFFICES ASSUME LockInv, StateInv, BlockedConsumersCounted, WakeInv, JoinInv,
                    [Next]_vars
             PROVE  JoinInv'
  OBVIOUS
<1>1. /\ pc \in [Threads -> Labels] /\ emptyCount \in Nat
      /\ sem \in [Semaphores -> Nat] /\ mainNum \in Nat
      /\ Consumers # {} /\ Cardinality(Consumers) \in Nat
  BY MonitorAssumption, BlockedBound DEF StateInv, TypeOK, Labels
<1>2. ASSUME NEW p \in Producers, Insert(p) PROVE JoinInv'
  <2>1. pc[p] # "exit" /\ main # "returned" /\ UNCHANGED process
    BY <1>2
    DEF Insert, SemWait, SemPost, InsertTest, InsertStore, InsertNotEmpty,
        InsertUncount,
        InsertIsFull, InsertFull, InsertLeave, ReadCount, PostAndTest, Goto
  <2>2. main \in {"create", "join"}
    BY <2>1 DEF JoinInv
  <2> QED  BY <2>1, <2>2 DEF JoinInv, process
<1>3. ASSUME NEW c \in Consumers, Remove(c) PROVE JoinInv'
  <2>1. c \in Threads /\ \A t \in Threads \ {c} : pc[t] = pc'[t]
    BY <1>1, <1>3, RemoveMoves DEF Moves, Goto, Threads
  <2>2. main # "returned" /\ UNCHANGED process
    BY <1>3, <1>1, <2>1, RemoveMoves DEF Moves, Goto
  <2>3. ASSUME AllBlocked PROVE AllBlocked'
    <3>1. pc[c] \in {"r_block", "r_block_leave"}
      BY <1>3, <2>3
      DEF Remove, SemWait, SemPost, RemoveTest, RemoveLoad, RemoveNotFull,
          RemoveIsEmpty,
          RemoveEmpty, ReadCount, PostAndTest, Goto, AllBlocked, Blocked
    <3>2. /\ pc'[c] \in Blocked /\ buffer_index' = buffer_index
          /\ sem'["cond_empty"] = sem["cond_empty"]
      BY <1>1, <1>3, <2>1, <3>1
      DEF Remove, SemWait, SemPost, RemoveTest, RemoveLoad, RemoveNotFull,
          RemoveIsEmpty,
          RemoveEmpty, ReadCount, PostAndTest, Goto, Blocked, data, Semaphores
    <3> QED  BY <2>1, <2>3, <3>2 DEF AllBlocked, Threads
  <2>4. \A p \in Producers : pc'[p] = pc[p]
    BY <2>1, MonitorAssumption DEF Threads
  <2> QED  BY <2>2, <2>3, <2>4 DEF JoinInv, process
<1>4. ASSUME NEW t \in Threads, Start(t) PROVE JoinInv'
  <2>1. pc[t] = "start" /\ main # "returned" /\ UNCHANGED process
        /\ \A u \in Threads \ {t} : pc'[u] = pc[u]
    BY <1>1, <1>4 DEF Start, Goto
  <2>2. ~AllBlocked \/ t \in Producers
    BY <2>1 DEF AllBlocked, Blocked, Threads
  <2> QED  BY <2>1, <2>2 DEF JoinInv, process, Threads
<1>5. ASSUME NEW t \in Threads, Create(t) PROVE JoinInv'
  BY <1>5 DEF Create, JoinInv
<1>6. CASE Fail
  BY <1>6 DEF Fail, JoinInv
<1>7. CASE Join
  BY <1>7 DEF Join, JoinInv
<1>8. CASE PollLock
  BY <1>8 DEF PollLock, JoinInv
<1>9. CASE PollRead
  <2>1. main = "poll" /\ main' = "poll_unlock" /\ mainNum' = emptyCount
        /\ UNCHANGED <<pc, sem, data, rval>>
    BY <1>9 DEF PollRead, MonitorUnchanged
  <2>2. \A p \in Producers : pc[p] = "exit"
    BY <2>1 DEF JoinInv
  <2>3. ASSUME emptyCount = Cardinality(Consumers) PROVE AllBlocked
    <3>1. At(Producers, {"i_uncount"}) = {}  BY <2>2 DEF At
    <3>2. Cardinality(At(Producers, {"i_uncount"})) = 0  BY <3>1, FS_EmptySet
    <3>3. /\ sem["cond_empty"] \in Nat
          /\ emptyCount + sem["cond_empty"] = Cardinality(At(Consumers, Blocked))
      BY <1>1, <3>2 DEF BlockedConsumersCounted, Blocked, Semaphores
    <3>4. sem["cond_empty"] = 0 /\ \A c \in Consumers : pc[c] \in Blocked
      BY <1>1, <2>3, <3>3, BlockedBound
    <3>5. buffer_index = -1
      BY <2>2, <2>3 DEF WakeInv, Waking
    <3> QED  BY <3>4, <3>5 DEF AllBlocked
  <2> QED  BY <2>1, <2>2, <2>3 DEF JoinInv, AllBlocked, data
<1>10. CASE PollUnlock
  <2>1. /\ main = "poll_unlock" /\ UNCHANGED <<pc, data, mainNum, rval>>
        /\ sem'["cond_empty"] = sem["cond_empty"]
        /\ main' \in {"returned", "poll_lock"}
        /\ main' = "returned" => mainNum = Cardinality(Consumers)
    BY <1>1, <1>10 DEF PollUnlock, MonitorUnchanged, Semaphores
  <2> QED  BY <2>1 DEF JoinInv, AllBlocked, data
<1>11. CASE UNCHANGED vars
  BY <1>11 DEF vars, data, process, JoinInv, AllBlocked
<1> QED
  BY <1>2, <1>3, <1>4, <1>5, <1>6, <1>7, <1>8, <1>9, <1>10, <1>11
  DEF Next, Terminated

\* All parts together are inductive.
MonitorInv == LockInv /\ FlagInv /\ StateInv /\ BlockedConsumersCounted
              /\ WakeInv /\ WriteInv /\ JoinInv

LEMMA MonitorInvariant == Spec => []MonitorInv
<1>1. Init => MonitorInv
  BY InitLocks, InitFlags, InitState, InitCounted, InitWake, InitWrite, InitJoin
  DEF MonitorInv
<1>2. MonitorInv /\ [Next]_vars => MonitorInv'
  BY StepLocks, StepFlags, StepState, StepCounted, StepWake, StepWrites, StepJoin
  DEF MonitorInv
<1> QED  BY <1>1, <1>2, PTL DEF Spec

\* "all input is read, End of program": when the program reports success every
\* character has been inserted and removed, for any number of threads and writes.
\* That every consumer is counted as blocked is enough for main to conclude it.
THEOREM AllInputIsRead == Spec => []AllInputRead
<1>1. MonitorInv => AllInputRead
  <2> USE DEF MonitorInv
  <2> SUFFICES ASSUME MonitorInv, main = "returned", rval = 0
               PROVE  /\ inserted = Cardinality(Producers) * NumberOfWrites
                      /\ removed = inserted
                      /\ At(Producers, {"exit"}) = Producers
    BY DEF AllInputRead
  <2>1. \A p \in Producers : pc[p] = "exit" /\ written[p] = NumberOfWrites
    BY DEF JoinInv, StateInv, LoopInv
  <2>2. Done = Writes
    BY <2>1, MonitorAssumption DEF Done, Writes
  <2>3. removed \in Nat /\ inserted \in Nat /\ removed = inserted
    BY DEF JoinInv, AllBlocked, WriteInv, StateInv, TypeOK
  <2> QED  BY <2>1, <2>2, <2>3, WritesFinite DEF WriteInv, At
<1> QED  BY <1>1, MonitorInvariant, PTL

-----------------------------------------------------------------------------
(* Refinement: the monitor is a pool of BufferLength anonymous items.      *)

LEMMA PoolInit == Init => Pool!Init
BY DEF Init, Pool!Init

\* An insert adds an item, a remove takes one, and main closes the pool when it
\* has seen all consumers blocked; all other steps leave the pool as it is.
LEMMA PoolStep == MonitorInv /\ MonitorInv' /\ [Next]_vars => [Pool!Next]_(Pool!vars)
<1> SUFFICES ASSUME LockInv, FlagInv, StateInv, WriteInv, JoinInv, JoinInv', [Next]_vars
             PROVE  [Pool!Next]_(Pool!vars)
  BY DEF MonitorInv
<1>1. /\ buffer_index \in Int /\ inserted \in Nat /\ removed \in Nat
      /\ BufferLength \in Nat /\ pc \in [Threads -> Labels]
  BY MonitorAssumption DEF StateInv, TypeOK, Labels
<1> USE DEF Pool!vars
<1>2. ASSUME NEW p \in Producers, Insert(p) PROVE [Pool!Next]_(Pool!vars)
  <2>1. main # "returned" /\ main' # "returned"
    BY <1>2, InsertMoves DEF Moves, Goto, process
  <2>2. CASE InsertStore(p)
    <3>1. pc[p] = "i_store"  BY <2>2 DEF InsertStore, Goto
    <3>2. buffer_index + 1 < BufferLength
      BY <1>1, <3>1 DEF FlagInv, Threads
    <3>3. Done # Writes
      <4>1. written[p] < NumberOfWrites /\ written[p] \in Nat
        BY <3>1, MonitorAssumption DEF StateInv, LoopInv, Idle, TypeOK
      <4>2. <<p, written[p] + 1>> \in Writes
        BY <4>1, MonitorAssumption DEF Writes
      <4>3. <<p, written[p] + 1>> \notin Done
        BY <3>1, <4>1 DEF Done, PastStore, Stored, Signalling, Filled
      <4> QED  BY <4>2, <4>3
    <3>4. inserted < Cardinality(Producers) * NumberOfWrites
      BY <3>3, WritesFinite DEF WriteInv
    <3>5. Pool!Add
      BY <1>1, <2>1, <2>2, <3>2, <3>4 DEF InsertStore, Pool!Add
    <3> QED  BY <3>5 DEF Pool!Next
  <2>3. CASE ~InsertStore(p)
    <3>1. UNCHANGED <<buffer_index, inserted>>
      BY <1>2, <2>3
      DEF Insert, SemWait, SemPost, InsertTest, InsertNotEmpty, InsertUncount,
          InsertIsFull, InsertFull, InsertLeave, ReadCount, PostAndTest, data
    <3> QED  BY <2>1, <3>1
  <2> QED  BY <2>2, <2>3
<1>3. ASSUME NEW c \in Consumers, Remove(c) PROVE [Pool!Next]_(Pool!vars)
  <2>1. main # "returned" /\ main' # "returned"
    BY <1>3, RemoveMoves DEF Moves, Goto, process
  <2>2. CASE RemoveLoad(c)
    <3>1. pc[c] = "r_load"  BY <2>2 DEF RemoveLoad, Goto
    <3>2. buffer_index >= 0  BY <3>1 DEF FlagInv, Threads
    <3>3. Pool!Take
      BY <1>1, <2>1, <2>2, <3>2 DEF RemoveLoad, Pool!Take
    <3> QED  BY <3>3 DEF Pool!Next
  <2>3. CASE ~RemoveLoad(c)
    <3>1. UNCHANGED <<buffer_index, inserted>>
      BY <1>3, <2>3
      DEF Remove, SemWait, SemPost, RemoveTest, RemoveNotFull, RemoveIsEmpty,
          RemoveEmpty, ReadCount, PostAndTest, data
    <3> QED  BY <2>1, <3>1
  <2> QED  BY <2>2, <2>3
<1>4. CASE PollUnlock
  <2>1. /\ main # "returned" /\ rval' = rval
        /\ UNCHANGED data
    BY <1>4 DEF PollUnlock, MonitorUnchanged
  <2>2. CASE main' = "returned"
    <3>1. rval = 0 /\ AllBlocked' /\ \A p \in Producers : pc'[p] = "exit"
      BY <2>1, <2>2 DEF JoinInv
    <3>2. buffer_index = -1 /\ \A p \in Producers : pc[p] = "exit"
      BY <1>4, <2>1, <3>1 DEF AllBlocked, PollUnlock, data
    <3>3. Done = Writes
      BY <3>2, MonitorAssumption DEF Done, Writes, StateInv, LoopInv
    <3>4. inserted = Cardinality(Producers) * NumberOfWrites
      BY <3>3, WritesFinite DEF WriteInv
    <3>5. Pool!Close
      BY <2>1, <2>2, <3>1, <3>2, <3>4 DEF Pool!Close, data
    <3> QED  BY <3>5 DEF Pool!Next
  <2>3. CASE main' # "returned"
    BY <2>1, <2>3 DEF data
  <2> QED  BY <2>2, <2>3
<1>5. ASSUME NEW t \in Threads, Start(t) \/ Create(t)
      PROVE  [Pool!Next]_(Pool!vars)
  BY <1>5 DEF Start, Create, Goto, MonitorUnchanged, data, process
<1>6. CASE Fail \/ Join \/ PollLock \/ PollRead \/ UNCHANGED vars
  BY <1>6 DEF Fail, Join, PollLock, PollRead, MonitorUnchanged, data, process, vars
<1> QED  BY <1>2, <1>3, <1>4, <1>5, <1>6 DEF Next, Terminated

\* Whatever the threads do, what an observer of the buffer sees is a pool that never
\* holds more than BufferLength items nor hands out one that is not there, and that
\* is closed only after all items have come and gone.
THEOREM MonitorIsPool == Spec => PoolSpec
<1> QED
  BY MonitorInvariant, PoolInit, PoolStep, PTL DEF Spec, PoolSpec, Pool!Spec
=============================================================================
