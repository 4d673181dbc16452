------------------------- MODULE BoundedBufferProofs -------------------------
(***************************************************************************)
(* Safety of the producer/consumer program of pa3_1 for any numbers of     *)
(* producers and consumers, any buffer length and any number of writes.    *)
(***************************************************************************)
EXTENDS BoundedBuffer, ThreadCounting, TLAPS

-----------------------------------------------------------------------------
(* Type correctness needs the mutex: that it never exceeds 1 is the fact   *)
(* that only the thread that holds it posts it.                            *)

MainLocked == {"check", "post_last", "post_again"}

\* The mutex is free only when nobody holds it, and nobody shares it.
MutexInv ==
    /\ mutex = 1 => /\ main \notin MainLocked
                    /\ \A t \in Threads : pc[t] \notin Locked
    /\ MutualExclusion

\* What a thread has loaded is still the value of the index when it stores.
RegisterInv == \A t \in Threads : pc[t] = "store" => reg[t] = buffer_index

\* A producer is in its loop exactly while it has something left to write.
LoopInv ==
    \A p \in Producers :
        /\ pc[p] = "unborn" => written[p] = 0
        /\ pc[p] = "exit" => written[p] = NumberOfWrites
        /\ pc[p] \notin {"unborn", "exit"} => written[p] < NumberOfWrites

LockInv == TypeOK /\ MutexInv /\ LoopInv

\* The labels a step goes from and to are those of TypeOK.
LEMMA TransitionType ==
    ASSUME TypeOK, NEW t \in Threads, NEW from, NEW to,
           to \in Labels, Transition(t, from, to)
    PROVE  /\ pc' \in [Threads -> Labels]
           /\ pc'[t] = to
           /\ \A u \in Threads \ {t} : pc'[u] = pc[u]
           /\ pc[t] = from
           /\ main' = main /\ rval' = rval
BY DEF TypeOK, Transition

LEMMA InitLock == Init => LockInv
BY SizeAssumption DEF Init, Labels, LockInv, TypeOK, MutexInv, MutualExclusion, Locked,
   MainLocked, LoopInv, Threads

LEMMA StepLock == LockInv /\ [Next]_vars => LockInv'
<1> SUFFICES ASSUME LockInv, [Next]_vars PROVE LockInv'  OBVIOUS
<1> USE SizeAssumption, ThreadAssumption
    DEF Labels, LockInv, MutexInv, MutualExclusion, Locked, MainLocked, LoopInv, Threads
<1>1. ASSUME NEW p \in Producers, Producer(p) PROVE LockInv'
  <2>1. CASE WaitFull(p)
    BY <2>1, TransitionType DEF WaitFull, TypeOK, Transition
  <2>2. CASE WaitMutex(p)
    BY <2>2, TransitionType DEF WaitMutex, TypeOK, Transition
  <2>3. CASE Load(p)
    BY <2>3, TransitionType DEF Load, TypeOK, Transition
  <2>4. CASE StoreProduced(p)
    BY <2>4, TransitionType DEF StoreProduced, TypeOK, Transition
  <2>5. CASE PostMutex(p)
    BY <2>5, TransitionType DEF PostMutex, TypeOK, Transition
  <2>6. CASE PostEmpty(p)
    BY <2>6, TransitionType DEF PostEmpty, TypeOK, Transition, LoopHead
  <2> QED  BY <1>1, <2>1, <2>2, <2>3, <2>4, <2>5, <2>6 DEF Producer
<1>2. ASSUME NEW c \in Consumers, Consumer(c) PROVE LockInv'
  <2>1. CASE WaitEmpty(c)
    BY <2>1, TransitionType DEF WaitEmpty, TypeOK, Transition
  <2>2. CASE WaitMutex(c)
    BY <2>2, TransitionType DEF WaitMutex, TypeOK, Transition
  <2>3. CASE Load(c)
    BY <2>3, TransitionType DEF Load, TypeOK, Transition
  <2>4. CASE StoreConsumed(c)
    BY <2>4, TransitionType DEF StoreConsumed, TypeOK, Transition
  <2>5. CASE PostMutex(c)
    BY <2>5, TransitionType DEF PostMutex, TypeOK, Transition
  <2>6. CASE PostFull(c)
    BY <2>6, TransitionType DEF PostFull, TypeOK, Transition
  <2> QED  BY <1>2, <2>1, <2>2, <2>3, <2>4, <2>5, <2>6 DEF Consumer
<1>3. ASSUME Main PROVE LockInv'
  <2>1. ASSUME NEW t \in Threads, Create(t) PROVE LockInv'
    BY <2>1 DEF Create, BufferUnchanged, TypeOK, LoopHead
  <2>2. CASE CreateFails
    BY <2>2 DEF CreateFails, BufferUnchanged, TypeOK
  <2>3. CASE Join
    BY <2>3 DEF Join, BufferUnchanged, TypeOK
  <2>4. CASE MainWaitMutex
    BY <2>4 DEF MainWaitMutex, BufferUnchanged, TypeOK
  <2>5. CASE MainCheck
    BY <2>5 DEF MainCheck, BufferUnchanged, TypeOK
  <2>6. CASE MainPostMutex
    BY <2>6 DEF MainPostMutex, BufferUnchanged, TypeOK
  <2> QED  BY <1>3, <2>1, <2>2, <2>3, <2>4, <2>5, <2>6 DEF Main
<1>4. CASE UNCHANGED vars
  BY <1>4 DEF vars, TypeOK
<1> QED  BY <1>1, <1>2, <1>3, <1>4 DEF Next, Terminated

\* The data structure's type is correct and the mutex binary: no unlock happens
\* without its lock, so sem_post never raises the mutex above 1.
THEOREM TypeCorrect == Spec => []TypeOK
<1>1. LockInv => TypeOK  BY DEF LockInv
<1> QED  BY <1>1, InitLock, StepLock, PTL DEF Spec

\* No two of the threads and main are between sem_wait(mutex) and
\* sem_post(mutex) at a time, for any number of threads.
THEOREM MutexHeldByOne == Spec => []MutualExclusion
<1>1. LockInv => MutualExclusion  BY DEF LockInv, MutexInv
<1> QED  BY <1>1, InitLock, StepLock, PTL DEF Spec

-----------------------------------------------------------------------------
(* The index and the semaphores.  While a thread holds the mutex its       *)
(* register stays equal to buffer_index, so the store is atomic; then each *)
(* step moves one thread from one set of labels to another and changes one *)
(* of the counters to match.                                               *)

CountInv == SlotsConserved /\ NoLostUpdate /\ RegisterInv

\* How a step from label from to label to of a thread of S, one of Producers
\* and Consumers, changes the four counts; R is the other set.
Moved(S, R, from, to) ==
    /\ Cardinality(At(S, Claimed))' =
           Cardinality(At(S, Claimed)) + In(to, Claimed) - In(from, Claimed)
    /\ Cardinality(At(S, Past))' =
           Cardinality(At(S, Past)) + In(to, Past) - In(from, Past)
    /\ At(R, Claimed)' = At(R, Claimed)
    /\ At(R, Past)' = At(R, Past)

\* The four counts are natural numbers.
LEMMA CountsAreNat ==
    /\ Cardinality(At(Producers, Claimed)) \in Nat
    /\ Cardinality(At(Producers, Past)) \in Nat
    /\ Cardinality(At(Consumers, Claimed)) \in Nat
    /\ Cardinality(At(Consumers, Past)) \in Nat
<1>1. \A S, L : At(S, L) = AtLabels(S, pc, L)  BY DEF At, AtLabels
<1> QED  BY <1>1, CountType, ThreadAssumption

LEMMA CountsMove ==
    ASSUME TypeOK, NEW S, NEW R, S \subseteq Threads, R \subseteq Threads,
           IsFiniteSet(S), NEW t \in S, t \notin R, NEW from, NEW to,
           pc[t] = from, pc' = [pc EXCEPT ![t] = to]
    PROVE  Moved(S, R, from, to)
<1>1. /\ \A u \in S \ {t} : pc'[u] = pc[u]
      /\ \A u \in R : pc'[u] = pc[u]
      /\ pc'[t] = to
  BY DEF TypeOK
<1>2. ASSUME NEW L
      PROVE  /\ Cardinality(AtLabels(S, pc', L)) =
                    Cardinality(AtLabels(S, pc, L)) + In(to, L) - In(from, L)
             /\ AtLabels(R, pc', L) = AtLabels(R, pc, L)
  <2>1. CountChange(S, pc, pc', t, L)  BY <1>1, CountMoved
  <2>2. AtLabels(R, pc', L) = AtLabels(R, pc, L)
    BY <1>1, CountSame
  <2> QED  BY <1>1, <2>1, <2>2 DEF CountChange
<1> QED  BY <1>2 DEF Moved, At, AtLabels

LEMMA ProducerMoves ==
    ASSUME TypeOK, NEW p \in Producers, NEW from, NEW to,
           pc[p] = from, pc' = [pc EXCEPT ![p] = to]
    PROVE  Moved(Producers, Consumers, from, to)
<1>1. p \notin Consumers  BY ThreadAssumption
<1> QED  BY <1>1, CountsMove, ThreadAssumption DEF Threads

LEMMA ConsumerMoves ==
    ASSUME TypeOK, NEW c \in Consumers, NEW from, NEW to,
           pc[c] = from, pc' = [pc EXCEPT ![c] = to]
    PROVE  Moved(Consumers, Producers, from, to)
<1>1. c \notin Producers  BY ThreadAssumption
<1> QED  BY <1>1, CountsMove, ThreadAssumption DEF Threads

LEMMA InitCount == Init => CountInv
<1> SUFFICES ASSUME Init PROVE CountInv  OBVIOUS
<1>1. /\ At(Producers, Claimed) = {} /\ At(Producers, Past) = {}
      /\ At(Consumers, Claimed) = {} /\ At(Consumers, Past) = {}
  BY DEF Init, At, Claimed, Past, Threads
<1>2. Cardinality({}) = 0  BY FS_EmptySet
<1> QED
  BY <1>1, <1>2, SizeAssumption
  DEF Init, CountInv, SlotsConserved, NoLostUpdate, RegisterInv

\* Only a thread that holds the mutex stores, and then no other has loaded.
LEMMA StepRegister ==
    LockInv /\ RegisterInv /\ NoLostUpdate /\ [Next]_vars
        => RegisterInv' /\ NoLostUpdate'
<1> SUFFICES ASSUME LockInv, RegisterInv, NoLostUpdate, [Next]_vars
             PROVE  RegisterInv' /\ NoLostUpdate'
  OBVIOUS
<1> USE DEF Labels, LockInv, TypeOK, RegisterInv, NoLostUpdate, Threads
<1>1. ASSUME NEW p \in Producers, Producer(p) PROVE RegisterInv' /\ NoLostUpdate'
  <2>1. CASE WaitFull(p)
    BY <2>1 DEF WaitFull, Transition
  <2>2. CASE WaitMutex(p)
    BY <2>2 DEF WaitMutex, Transition
  <2>3. CASE Load(p)
    BY <2>3 DEF Load, Transition
  <2>4. CASE StoreProduced(p)
    BY <2>4 DEF StoreProduced, Transition, MutexInv, MutualExclusion, Locked
  <2>5. CASE PostMutex(p)
    BY <2>5 DEF PostMutex, Transition
  <2>6. CASE PostEmpty(p)
    BY <2>6 DEF PostEmpty, Transition, LoopHead
  <2> QED  BY <1>1, <2>1, <2>2, <2>3, <2>4, <2>5, <2>6 DEF Producer
<1>2. ASSUME NEW c \in Consumers, Consumer(c) PROVE RegisterInv' /\ NoLostUpdate'
  <2>1. CASE WaitEmpty(c)
    BY <2>1 DEF WaitEmpty, Transition
  <2>2. CASE WaitMutex(c)
    BY <2>2 DEF WaitMutex, Transition
  <2>3. CASE Load(c)
    BY <2>3 DEF Load, Transition
  <2>4. CASE StoreConsumed(c)
    BY <2>4 DEF StoreConsumed, Transition, MutexInv, MutualExclusion, Locked
  <2>5. CASE PostMutex(c)
    BY <2>5 DEF PostMutex, Transition
  <2>6. CASE PostFull(c)
    BY <2>6 DEF PostFull, Transition
  <2> QED  BY <1>2, <2>1, <2>2, <2>3, <2>4, <2>5, <2>6 DEF Consumer
<1>3. ASSUME Main PROVE RegisterInv' /\ NoLostUpdate'
  BY <1>3 DEF Main, Create, CreateFails, Join, MainWaitMutex, MainCheck,
              MainPostMutex, BufferUnchanged, LoopHead
<1>4. CASE UNCHANGED vars
  BY <1>4 DEF vars
<1> QED  BY <1>1, <1>2, <1>3, <1>4 DEF Next, Terminated

\* Each step of a thread changes the index and the semaphores as it changes
\* the number of threads before and past their update.
LEMMA StepSlots == LockInv /\ RegisterInv /\ SlotsConserved /\ [Next]_vars
                       => SlotsConserved'
<1> SUFFICES ASSUME LockInv, RegisterInv, SlotsConserved, [Next]_vars
             PROVE  SlotsConserved'
  OBVIOUS
<1>n. /\ empty \in Nat /\ full \in Nat /\ buffer_index \in Int
      /\ BufferLength \in Nat /\ TypeOK
  BY SizeAssumption DEF LockInv, TypeOK
<1> USE <1>n, CountsAreNat DEF SlotsConserved
<1>1. ASSUME NEW p \in Producers, Producer(p) PROVE SlotsConserved'
  <2>1. CASE WaitFull(p)
    <3>1. Moved(Producers, Consumers, "wait_full", "wait_mutex")
      BY <2>1, ProducerMoves DEF WaitFull, Transition
    <3> QED  BY <2>1, <3>1 DEF WaitFull, Moved, In, Claimed, Past
  <2>2. CASE WaitMutex(p)
    <3>1. Moved(Producers, Consumers, "wait_mutex", "load")
      BY <2>2, ProducerMoves DEF WaitMutex, Transition
    <3> QED  BY <2>2, <3>1 DEF WaitMutex, Moved, In, Claimed, Past
  <2>3. CASE Load(p)
    <3>1. Moved(Producers, Consumers, "load", "store")
      BY <2>3, ProducerMoves DEF Load, Transition
    <3> QED  BY <2>3, <3>1 DEF Load, Moved, In, Claimed, Past
  <2>4. CASE StoreProduced(p)
    <3>1. Moved(Producers, Consumers, "store", "post_mutex")
      BY <2>4, ProducerMoves DEF StoreProduced, Transition
    <3>2. reg[p] = buffer_index
      BY <2>4 DEF StoreProduced, Transition, RegisterInv, Threads
    <3> QED  BY <2>4, <3>1, <3>2 DEF StoreProduced, Moved, In, Claimed, Past
  <2>5. CASE PostMutex(p)
    <3>1. Moved(Producers, Consumers, "post_mutex", "post_item")
      BY <2>5, ProducerMoves DEF PostMutex, Transition
    <3> QED  BY <2>5, <3>1 DEF PostMutex, Moved, In, Claimed, Past
  <2>6. CASE PostEmpty(p)
    <3> DEFINE to == LoopHead(written[p] + 1)
    <3>0. to \in {"wait_full", "exit"}  BY DEF LoopHead
    <3> HIDE DEF to
    <3>1. Moved(Producers, Consumers, "post_item", to)
      BY <2>6, ProducerMoves DEF PostEmpty, Transition, to
    <3>2. In(to, Claimed) = 0 /\ In(to, Past) = 0
      BY <3>0 DEF In, Claimed, Past
    <3> QED  BY <2>6, <3>1, <3>2 DEF PostEmpty, Moved, In, Claimed, Past
  <2> QED  BY <1>1, <2>1, <2>2, <2>3, <2>4, <2>5, <2>6 DEF Producer
<1>2. ASSUME NEW c \in Consumers, Consumer(c) PROVE SlotsConserved'
  <2>1. CASE WaitEmpty(c)
    <3>1. Moved(Consumers, Producers, "wait_empty", "wait_mutex")
      BY <2>1, ConsumerMoves DEF WaitEmpty, Transition
    <3> QED  BY <2>1, <3>1 DEF WaitEmpty, Moved, In, Claimed, Past
  <2>2. CASE WaitMutex(c)
    <3>1. Moved(Consumers, Producers, "wait_mutex", "load")
      BY <2>2, ConsumerMoves DEF WaitMutex, Transition
    <3> QED  BY <2>2, <3>1 DEF WaitMutex, Moved, In, Claimed, Past
  <2>3. CASE Load(c)
    <3>1. Moved(Consumers, Producers, "load", "store")
      BY <2>3, ConsumerMoves DEF Load, Transition
    <3> QED  BY <2>3, <3>1 DEF Load, Moved, In, Claimed, Past
  <2>4. CASE StoreConsumed(c)
    <3>1. Moved(Consumers, Producers, "store", "post_mutex")
      BY <2>4, ConsumerMoves DEF StoreConsumed, Transition
    <3>2. reg[c] = buffer_index
      BY <2>4 DEF StoreConsumed, Transition, RegisterInv, Threads
    <3> QED  BY <2>4, <3>1, <3>2 DEF StoreConsumed, Moved, In, Claimed, Past
  <2>5. CASE PostMutex(c)
    <3>1. Moved(Consumers, Producers, "post_mutex", "post_item")
      BY <2>5, ConsumerMoves DEF PostMutex, Transition
    <3> QED  BY <2>5, <3>1 DEF PostMutex, Moved, In, Claimed, Past
  <2>6. CASE PostFull(c)
    <3>1. Moved(Consumers, Producers, "post_item", "wait_empty")
      BY <2>6, ConsumerMoves DEF PostFull, Transition
    <3> QED  BY <2>6, <3>1 DEF PostFull, Moved, In, Claimed, Past
  <2> QED  BY <1>2, <2>1, <2>2, <2>3, <2>4, <2>5, <2>6 DEF Consumer
<1>3. ASSUME NEW t \in Threads, Create(t) PROVE SlotsConserved'
  <2> DEFINE to == IF t \in Producers THEN LoopHead(0) ELSE "wait_empty"
  <2>1. pc[t] = "unborn" /\ pc' = [pc EXCEPT ![t] = to]
    BY <1>3 DEF Create
  <2>2. to \in {"wait_full", "exit", "wait_empty"}  BY DEF LoopHead
  <2> HIDE DEF to
  <2>3. \/ Moved(Producers, Consumers, "unborn", to)
        \/ Moved(Consumers, Producers, "unborn", to)
    BY <2>1, ProducerMoves, ConsumerMoves DEF Threads
  <2>4. /\ In(to, Claimed) = 0 /\ In(to, Past) = 0
        /\ In("unborn", Claimed) = 0 /\ In("unborn", Past) = 0
    BY <2>2 DEF In, Claimed, Past
  <2> QED  BY <1>3, <2>3, <2>4 DEF Create, BufferUnchanged, Moved
<1>4. CASE CreateFails \/ Join \/ MainWaitMutex \/ MainCheck \/ MainPostMutex
  BY <1>4 DEF CreateFails, Join, MainWaitMutex, MainCheck, MainPostMutex,
              BufferUnchanged, At
<1>5. CASE UNCHANGED vars
  BY <1>5 DEF vars, At
<1> QED  BY <1>1, <1>2, <1>3, <1>4, <1>5 DEF Next, Terminated, Main

LEMMA StepCount == LockInv /\ CountInv /\ [Next]_vars => CountInv'
BY StepRegister, StepSlots DEF CountInv

\* No slot and no item is lost or invented: the index, the two semaphores and
\* the threads between them always add up to BufferLength.
THEOREM SlotsAreConserved == Spec => []SlotsConserved
<1>1. LockInv /\ CountInv => SlotsConserved  BY DEF CountInv
<1> QED  BY <1>1, InitLock, StepLock, InitCount, StepCount, PTL DEF Spec

\* buffer_index is the number of items put in less those taken out.
THEOREM IndexIsExact == Spec => []NoLostUpdate
<1>1. LockInv /\ CountInv => NoLostUpdate  BY DEF CountInv
<1> QED  BY <1>1, InitLock, StepLock, InitCount, StepCount, PTL DEF Spec

\* A thread past its first semaphore, and not past its update, finds a free slot
\* or an item: it is counted in one of the two equations.
LEMMA ClaimInBounds ==
    ASSUME LockInv, CountInv, NEW t \in Threads, pc[t] \in Claimed
    PROVE  IF t \in Producers THEN buffer_index \in 0..(BufferLength - 1)
                              ELSE buffer_index \in 1..BufferLength
<1>1. /\ empty \in Nat /\ full \in Nat /\ buffer_index \in Int
      /\ BufferLength \in Nat
  BY SizeAssumption DEF LockInv, TypeOK
<1>2. SlotsConserved  BY DEF CountInv
<1>3. CASE t \in Producers
  <2>1. Cardinality(AtLabels(Producers, pc, Claimed)) > 0
    BY <1>3, CountPositive, ThreadAssumption
  <2>2. Cardinality(At(Producers, Claimed)) > 0
    BY <2>1 DEF At, AtLabels
  <2> QED  BY <1>1, <1>2, <1>3, <2>2, CountsAreNat DEF SlotsConserved
<1>4. CASE t \notin Producers
  <2>1. t \in Consumers  BY <1>4 DEF Threads
  <2>2. Cardinality(AtLabels(Consumers, pc, Claimed)) > 0
    BY <2>1, CountPositive, ThreadAssumption
  <2>3. Cardinality(At(Consumers, Claimed)) > 0
    BY <2>2 DEF At, AtLabels
  <2> QED  BY <1>1, <1>2, <1>4, <2>3, CountsAreNat DEF SlotsConserved
<1> QED  BY <1>3, <1>4

\* A producer always writes inside the buffer and a consumer always finds an
\* item: the semaphores need no check of the index.
THEOREM BufferNeverOverrun == Spec => []AccessInBounds
<1>1. LockInv /\ CountInv => AccessInBounds
  BY ClaimInBounds DEF AccessInBounds, Claimed
<1> QED  BY <1>1, InitLock, StepLock, InitCount, StepCount, PTL DEF Spec

-----------------------------------------------------------------------------
(* The end of the program.  The writes are counted as a set of pairs, of a *)
(* producer and the number of one of its rounds: each store adds one.      *)

Writes == Producers \X (1..NumberOfWrites)
Done == {w \in Writes :
            \/ w[2] <= written[w[1]]
            \/ w[2] = written[w[1]] + 1 /\ pc[w[1]] \in Past}

\* What main knows: after its joins that no producer is left, and once it has seen
\* the buffer empty that it stays so.
EndInv ==
    /\ main \in {"wait_mutex", "check", "post_last", "post_again"}
          => rval = 0 /\ \A p \in Producers : pc[p] = "exit"
    /\ main \in {"create", "join"} => rval = 0
    /\ main = "post_last" => buffer_index = 0
    /\ main = "returned" /\ rval = 0
          => buffer_index = 0 /\ \A p \in Producers : pc[p] = "exit"

WriteInv == stored = Cardinality(Done)

LEMMA WritesFinite ==
    /\ IsFiniteSet(Writes)
    /\ Cardinality(Writes) = Cardinality(Producers) * NumberOfWrites
    /\ IsFiniteSet(Done)
    /\ Cardinality(Done) \in Nat
    /\ Cardinality(Done) <= Cardinality(Writes)
    /\ Done # Writes => Cardinality(Done) < Cardinality(Writes)
<1>1. /\ IsFiniteSet(1..NumberOfWrites)
      /\ Cardinality(1..NumberOfWrites) = NumberOfWrites
  BY SizeAssumption, FS_Interval
<1>2. /\ IsFiniteSet(Writes)
      /\ Cardinality(Writes) = Cardinality(Producers) * NumberOfWrites
  BY <1>1, ThreadAssumption, FS_Product DEF Writes
<1>3. Done \in SUBSET Writes  BY DEF Done
<1> QED  BY <1>2, <1>3, FS_Subset, FS_CardinalityType

LEMMA InitEnd == Init => EndInv /\ WriteInv
<1> SUFFICES ASSUME Init PROVE EndInv /\ WriteInv  OBVIOUS
<1>1. Done = {}
  BY SizeAssumption DEF Init, Done, Writes, Past, Threads
<1>2. Cardinality({}) = 0  BY FS_EmptySet
<1> QED  BY <1>1, <1>2 DEF Init, EndInv, WriteInv

\* Nothing else changes which writes are done.
LEMMA DoneSame ==
    ASSUME \A p \in Producers : /\ pc'[p] \in Past <=> pc[p] \in Past
                                /\ written'[p] = written[p]
    PROVE  Done' = Done
BY DEF Done, Writes

\* A store that is counted is a write that had not been done.
LEMMA StoreIsNew ==
    ASSUME LockInv, NEW p \in Producers, pc[p] = "store"
    PROVE  /\ <<p, written[p] + 1>> \in Writes
           /\ <<p, written[p] + 1>> \notin Done
<1>1. written[p] \in Nat /\ written[p] < NumberOfWrites /\ NumberOfWrites \in Nat
  BY SizeAssumption DEF LockInv, LoopInv, TypeOK
<1> QED  BY <1>1 DEF Writes, Done, Past

LEMMA ProducerWrites ==
    ASSUME LockInv, WriteInv, NEW p \in Producers, Producer(p)
    PROVE  WriteInv'
<1>1. /\ pc \in [Threads -> Labels] /\ p \in Threads
      /\ written \in [Producers -> 0..NumberOfWrites]
      /\ stored \in Nat /\ NumberOfWrites \in Nat
  BY SizeAssumption DEF LockInv, TypeOK, Threads
<1>2. \A q \in Producers \ {p} : pc[q] = pc'[q]
  BY <1>1
  DEF Producer, WaitFull, WaitMutex, Load, StoreProduced, PostMutex, PostEmpty,
      Transition, Threads
<1>3. CASE StoreProduced(p)
  <2> DEFINE new == <<p, written[p] + 1>>
  <2>1. pc[p] = "store" /\ pc'[p] = "post_mutex" /\ written' = written
    BY <1>1, <1>3 DEF StoreProduced, Transition
  <2>2. new \in Writes /\ new \notin Done  BY <2>1, StoreIsNew
  <2>3. pc'[p] \in Past /\ pc[p] \notin Past  BY <2>1 DEF Past
  <2>4. Done' = Done \cup {new}
    BY <1>1, <1>2, <2>1, <2>2, <2>3 DEF Done, Writes
  <2>5. Cardinality(Done \cup {new}) = Cardinality(Done) + 1
    BY <2>2, WritesFinite, FS_AddElement
  <2> QED  BY <1>1, <1>3, <2>4, <2>5 DEF StoreProduced, WriteInv
<1>4. CASE PostEmpty(p)
  <2>1. /\ pc[p] \in Past /\ pc'[p] \notin Past
        /\ written'[p] = written[p] + 1
        /\ \A q \in Producers \ {p} : written'[q] = written[q]
    BY <1>1, <1>4 DEF PostEmpty, Transition, LoopHead, Past
  <2>2. Done' = Done  BY <1>1, <1>2, <2>1 DEF Done, Writes
  <2> QED  BY <1>4, <2>2 DEF PostEmpty, WriteInv
<1>5. CASE ~StoreProduced(p) /\ ~PostEmpty(p)
  <2>1. /\ pc'[p] \in Past <=> pc[p] \in Past
        /\ UNCHANGED <<written, stored>>
    BY <1>1, <1>5
    DEF Producer, WaitFull, WaitMutex, Load, PostMutex, Transition, Past
  <2>2. Done' = Done  BY <1>2, <2>1, DoneSame
  <2> QED  BY <2>1, <2>2 DEF WriteInv
<1> QED  BY <1>3, <1>4, <1>5

LEMMA StepWrites == LockInv /\ WriteInv /\ [Next]_vars => WriteInv'
<1> SUFFICES ASSUME LockInv, WriteInv, [Next]_vars PROVE WriteInv'  OBVIOUS
<1>1. pc \in [Threads -> Labels]  BY DEF LockInv, TypeOK
<1>2. ASSUME NEW c \in Consumers, Consumer(c) PROVE WriteInv'
  <2>1. c \in Threads /\ \A p \in Producers : pc[p] = pc'[p]
    BY <1>1, <1>2, ThreadAssumption
    DEF Consumer, WaitEmpty, WaitMutex, Load, StoreConsumed, PostMutex, PostFull,
        Transition, Threads
  <2>2. UNCHANGED <<written, stored>>
    BY <1>2 DEF Consumer, WaitEmpty, WaitMutex, Load, StoreConsumed, PostMutex, PostFull
  <2>3. Done' = Done  BY <2>1, <2>2, DoneSame
  <2> QED  BY <2>2, <2>3 DEF WriteInv
<1>3. ASSUME Main \/ UNCHANGED vars PROVE WriteInv'
  <2>1. UNCHANGED <<written, stored>>
    BY <1>3 DEF Main, Create, CreateFails, Join, MainWaitMutex, MainCheck,
                MainPostMutex, BufferUnchanged, vars
  <2>2. \A p \in Producers : pc'[p] \in Past <=> pc[p] \in Past
    BY <1>1, <1>3
    DEF Main, Create, CreateFails, Join, MainWaitMutex, MainCheck, MainPostMutex,
        BufferUnchanged, vars, LoopHead, Past, Threads
  <2>3. Done' = Done  BY <2>1, <2>2, DoneSame
  <2> QED  BY <2>1, <2>3 DEF WriteInv
<1> QED  BY <1>2, <1>3, ProducerWrites DEF Next, Terminated

\* While main looks at the index it holds the mutex, so that no thread stores.
LEMMA StepEnd == LockInv /\ EndInv /\ [Next]_vars => EndInv'
<1> SUFFICES ASSUME LockInv, EndInv, [Next]_vars PROVE EndInv'  OBVIOUS
<1>1. /\ pc \in [Threads -> Labels] /\ MutualExclusion
      /\ main \in {"create", "join", "wait_mutex", "check", "post_last",
                   "post_again", "returned"}
  BY DEF LockInv, TypeOK, MutexInv
<1>2. ASSUME NEW p \in Producers, Producer(p) PROVE EndInv'
  <2>1. p \in Threads /\ pc[p] # "exit" /\ main # "returned" /\ UNCHANGED <<main, rval>>
    BY <1>2
    DEF Producer, WaitFull, WaitMutex, Load, StoreProduced, PostMutex, PostEmpty,
        Transition, Threads
  <2> QED  BY <2>1 DEF EndInv
<1>3. ASSUME NEW c \in Consumers, Consumer(c) PROVE EndInv'
  <2>1. /\ \A p \in Producers : pc'[p] = pc[p]
        /\ main # "returned" /\ UNCHANGED <<main, rval>>
    BY <1>1, <1>3, ThreadAssumption
    DEF Consumer, WaitEmpty, WaitMutex, Load, StoreConsumed, PostMutex, PostFull,
        Transition, Threads
  <2>2. main = "post_last" => buffer_index' = buffer_index
    BY <1>1, <1>3
    DEF Consumer, WaitEmpty, WaitMutex, Load, StoreConsumed, PostMutex, PostFull,
        Transition, Threads, MutualExclusion, Locked
  <2> QED  BY <2>1, <2>2 DEF EndInv
<1>4. ASSUME Main PROVE EndInv'
  BY <1>1, <1>4
  DEF Main, Create, CreateFails, Join, MainWaitMutex, MainCheck, MainPostMutex,
      BufferUnchanged, EndInv
<1>5. CASE UNCHANGED vars
  BY <1>5 DEF vars, EndInv
<1> QED  BY <1>2, <1>3, <1>4, <1>5 DEF Next, Terminated

\* All parts together are inductive.
BufferInv == LockInv /\ CountInv /\ EndInv /\ WriteInv

LEMMA BufferInvariant == Spec => []BufferInv
<1>1. Init => BufferInv  BY InitLock, InitCount, InitEnd DEF BufferInv
<1>2. BufferInv /\ [Next]_vars => BufferInv'
  BY StepLock, StepCount, StepEnd, StepWrites DEF BufferInv
<1> QED  BY <1>1, <1>2, PTL DEF Spec

\* When all producers have returned all writes are done.
LEMMA AllWritten ==
    ASSUME BufferInv, \A p \in Producers : pc[p] = "exit"
    PROVE  stored = Cardinality(Producers) * NumberOfWrites
<1>1. \A p \in Producers : written[p] = NumberOfWrites
  BY DEF BufferInv, LockInv, LoopInv
<1>2. Done = Writes  BY <1>1, SizeAssumption DEF Done, Writes
<1> QED  BY <1>2, WritesFinite DEF BufferInv, WriteInv

\* "all input is read, End of program": when the program reports success everything
\* written has been put in and taken out, for any number of threads, slots and
\* writes, although main joins the producers only and looks at nothing but an index.
THEOREM AllInputIsRead == Spec => []AllInputRead
<1>1. BufferInv => AllInputRead
  <2> SUFFICES ASSUME BufferInv, main = "returned", rval = 0
               PROVE  /\ \A p \in Producers : written[p] = NumberOfWrites
                      /\ stored = Cardinality(Producers) * NumberOfWrites
                      /\ fetched = stored
    BY DEF AllInputRead
  <2>1. buffer_index = 0 /\ \A p \in Producers : pc[p] = "exit"
    BY DEF BufferInv, EndInv
  <2>2. \A p \in Producers : written[p] = NumberOfWrites
    BY <2>1 DEF BufferInv, LockInv, LoopInv
  <2>3. stored \in Nat /\ fetched \in Nat /\ buffer_index = stored - fetched
    BY DEF BufferInv, LockInv, TypeOK, CountInv, NoLostUpdate
  <2> QED  BY <2>1, <2>2, <2>3, AllWritten
<1> QED  BY <1>1, BufferInvariant, PTL

-----------------------------------------------------------------------------
(* Refinement: the program is a pool of BufferLength anonymous items.      *)

LEMMA PoolInit == Init => Pool!Init
BY DEF Init, Pool!Init

\* The two stores add and take an item, and main closes the pool when it posts the
\* mutex for the last time; all other steps leave the pool as it is.
LEMMA PoolStep ==
    BufferInv /\ BufferInv' /\ [Next]_vars => [Pool!Next]_(Pool!vars)
<1> SUFFICES ASSUME BufferInv, BufferInv', [Next]_vars
             PROVE  [Pool!Next]_(Pool!vars)
  OBVIOUS
<1> USE DEF Pool!vars
<1>1. /\ buffer_index \in Int /\ stored \in Nat /\ BufferLength \in Nat
      /\ LockInv /\ CountInv /\ RegisterInv
  BY SizeAssumption DEF BufferInv, LockInv, TypeOK, CountInv
<1>2. ASSUME NEW p \in Producers, Producer(p) PROVE [Pool!Next]_(Pool!vars)
  <2>1. p \in Threads /\ main # "returned" /\ UNCHANGED <<main, rval>>
    BY <1>2
    DEF Producer, WaitFull, WaitMutex, Load, StoreProduced, PostMutex, PostEmpty,
        Transition, Threads
  <2>2. CASE StoreProduced(p)
    <3>1. pc[p] = "store" /\ reg[p] = buffer_index
      BY <1>1, <2>1, <2>2 DEF StoreProduced, Transition, RegisterInv
    <3>2. pc[p] \in Claimed  BY <3>1 DEF Claimed
    <3>3. buffer_index \in 0..(BufferLength - 1)
      BY <1>1, <2>1, <3>2, ClaimInBounds
    <3>4. Done # Writes  BY <1>1, <3>1, StoreIsNew
    <3>5. stored < Cardinality(Producers) * NumberOfWrites
      BY <3>4, WritesFinite DEF BufferInv, WriteInv
    <3>6. Pool!Add
      BY <1>1, <2>1, <2>2, <3>1, <3>3, <3>5 DEF StoreProduced, Pool!Add
    <3> QED  BY <3>6 DEF Pool!Next
  <2>3. CASE ~StoreProduced(p)
    <3>1. UNCHANGED <<buffer_index, stored>>
      BY <1>2, <2>3 DEF Producer, WaitFull, WaitMutex, Load, PostMutex, PostEmpty
    <3> QED  BY <2>1, <3>1
  <2> QED  BY <2>2, <2>3
<1>3. ASSUME NEW c \in Consumers, Consumer(c) PROVE [Pool!Next]_(Pool!vars)
  <2>1. c \in Threads /\ c \notin Producers
        /\ main # "returned" /\ UNCHANGED <<main, rval>>
    BY <1>3, ThreadAssumption
    DEF Consumer, WaitEmpty, WaitMutex, Load, StoreConsumed, PostMutex, PostFull,
        Transition, Threads
  <2>2. CASE StoreConsumed(c)
    <3>1. pc[c] = "store" /\ reg[c] = buffer_index
      BY <1>1, <2>1, <2>2 DEF StoreConsumed, Transition, RegisterInv
    <3>2. pc[c] \in Claimed  BY <3>1 DEF Claimed
    <3>3. buffer_index \in 1..BufferLength
      BY <1>1, <2>1, <3>2, ClaimInBounds
    <3>4. Pool!Take
      BY <1>1, <2>1, <2>2, <3>1, <3>3 DEF StoreConsumed, Pool!Take
    <3> QED  BY <3>4 DEF Pool!Next
  <2>3. CASE ~StoreConsumed(c)
    <3>1. UNCHANGED <<buffer_index, stored>>
      BY <1>3, <2>3 DEF Consumer, WaitEmpty, WaitMutex, Load, PostMutex, PostFull
    <3> QED  BY <2>1, <3>1
  <2> QED  BY <2>2, <2>3
<1>4. CASE MainPostMutex
  <2>1. CASE main = "post_last"
    <3>1. buffer_index = 0 /\ \A p \in Producers : pc[p] = "exit"
      BY <2>1 DEF BufferInv, EndInv
    <3>2. stored = Cardinality(Producers) * NumberOfWrites
      BY <3>1, AllWritten
    <3>3. Pool!Close
      BY <1>4, <2>1, <3>1, <3>2 DEF MainPostMutex, BufferUnchanged, Pool!Close
    <3> QED  BY <3>3 DEF Pool!Next
  <2>2. CASE main # "post_last"
    BY <1>4, <2>2 DEF MainPostMutex, BufferUnchanged
  <2> QED  BY <2>1, <2>2
<1>5. ASSUME NEW t \in Threads, Create(t) PROVE [Pool!Next]_(Pool!vars)
  BY <1>5 DEF Create, BufferUnchanged
<1>6. CASE CreateFails \/ Join \/ MainWaitMutex \/ MainCheck \/ UNCHANGED vars
  BY <1>6 DEF CreateFails, Join, MainWaitMutex, MainCheck, BufferUnchanged, vars
<1> QED  BY <1>2, <1>3, <1>4, <1>5, <1>6 DEF Next, Main, Terminated

\* Whatever the threads do, what an observer of the buffer sees is a pool that never
\* holds more than BufferLength items nor hands out one that is not there, and that
\* is closed only after all items have come and gone.
THEOREM BufferIsPool == Spec => PoolSpec
<1> QED
  BY BufferInvariant, PoolInit, PoolStep, PTL DEF Spec, PoolSpec, Pool!Spec
=============================================================================
