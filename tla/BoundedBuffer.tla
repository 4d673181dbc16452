--------------------------- MODULE BoundedBuffer ---------------------------
(***************************************************************************)
(* pa3_1/pthread_1/main.cpp: producers and consumers that share a buffer   *)
(* guarded by two counting semaphores and a binary one.                    *)
(*                                                                         *)
(* "full" counts the free slots and "empty" the items, as the comments of  *)
(* the source say; "mutex" guards buffer_index.  Every character written   *)
(* is an 'X', so the buffer is its index: slots 0..buffer_index-1 hold     *)
(* items.  An access buffer_index +=/-= 1 is two steps, a load into a      *)
(* register and a store, so that the mutex is what makes it atomic.        *)
(*                                                                         *)
(* main creates the threads, joins the producers, then takes the mutex     *)
(* again and again until it sees an empty buffer, and returns: the process *)
(* ends, and with it the consumers, whose loop never does.                 *)
(***************************************************************************)
EXTENDS Integers, FiniteSets

CONSTANTS
    Producers,       \* the producer threads
    Consumers,       \* the consumer threads
    BufferLength,    \* slots of the buffer
    NumberOfWrites   \* items each producer writes

ASSUME ThreadAssumption ==
    /\ IsFiniteSet(Producers)
    /\ IsFiniteSet(Consumers)
    /\ Producers \cap Consumers = {}

ASSUME SizeAssumption == BufferLength \in Nat \ {0} /\ NumberOfWrites \in Nat

Threads == Producers \cup Consumers

VARIABLES
    buffer_index,   \* items in the buffer
    empty,          \* semaphore: items a consumer may take
    full,           \* semaphore: slots a producer may fill
    mutex,          \* semaphore: 1 when nobody accesses the buffer
    pc,             \* where each thread is
    reg,            \* the register a thread loads buffer_index into
    written,        \* loop counter of each producer
    main,           \* where main is
    rval,           \* the value main returns
    stored,         \* history: items put into the buffer
    fetched         \* history: items taken out of it

vars == <<buffer_index, empty, full, mutex, pc, reg, written, main, rval,
          stored, fetched>>

-----------------------------------------------------------------------------
\* Fault: the mutex is initialised like the slots.
BugMutexCounts ==
    /\ buffer_index = 0
    /\ empty = 0
    /\ full = BufferLength
    /\ mutex = BufferLength
    /\ pc = [t \in Threads |-> "unborn"]
    /\ reg = [t \in Threads |-> 0]
    /\ written = [p \in Producers |-> 0]
    /\ main = "create"
    /\ rval = 0
    /\ stored = 0
    /\ fetched = 0

-----------------------------------------------------------------------------
Init ==
    /\ buffer_index = 0
    /\ empty = 0
    /\ full = BufferLength
    /\ mutex = 1
    /\ pc = [t \in Threads |-> "unborn"]
    /\ reg = [t \in Threads |-> 0]
    /\ written = [p \in Producers |-> 0]
    /\ main = "create"
    /\ rval = 0
    /\ stored = 0
    /\ fetched = 0

\* A step of thread t from one line to the next, while the process lives.
Transition(t, from, to) ==
    /\ main # "returned"
    /\ pc[t] = from
    /\ pc' = [pc EXCEPT ![t] = to]
    /\ UNCHANGED <<main, rval>>

\* Where a producer is after i rounds of its for loop.
LoopHead(i) == IF i < NumberOfWrites THEN "wait_full" ELSE "exit"

-----------------------------------------------------------------------------
(* Producer                                                                *)

WaitFull(p) ==
    /\ full > 0
    /\ full' = full - 1
    /\ Transition(p, "wait_full", "wait_mutex")
    /\ UNCHANGED <<buffer_index, empty, mutex, reg, written, stored, fetched>>

\* sem_wait(mutex), the same line in producers and consumers.
WaitMutex(t) ==
    /\ mutex > 0
    /\ mutex' = mutex - 1
    /\ Transition(t, "wait_mutex", "load")
    /\ UNCHANGED <<buffer_index, empty, full, reg, written, stored, fetched>>

Load(t) ==
    /\ reg' = [reg EXCEPT ![t] = buffer_index]
    /\ Transition(t, "load", "store")
    /\ UNCHANGED <<buffer_index, empty, full, mutex, written, stored, fetched>>

StoreProduced(p) ==
    /\ buffer_index' = reg[p] + 1
    /\ stored' = stored + 1
    /\ Transition(p, "store", "post_mutex")
    /\ UNCHANGED <<empty, full, mutex, reg, written, fetched>>

PostMutex(t) ==
    /\ mutex' = mutex + 1
    /\ Transition(t, "post_mutex", "post_item")
    /\ UNCHANGED <<buffer_index, empty, full, reg, written, stored, fetched>>

\* sem_post(empty) and the end of a round of the for loop.
PostEmpty(p) ==
    /\ empty' = empty + 1
    /\ written' = [written EXCEPT ![p] = @ + 1]
    /\ Transition(p, "post_item", LoopHead(written[p] + 1))
    /\ UNCHANGED <<buffer_index, full, mutex, reg, stored, fetched>>

Producer(p) == WaitFull(p) \/ WaitMutex(p) \/ Load(p) \/ StoreProduced(p)
               \/ PostMutex(p) \/ PostEmpty(p)

-----------------------------------------------------------------------------
(* Consumer                                                                *)

\* Fault: the consumer does not wait for an item.
BugItemUnawaited(c) ==
    /\ Transition(c, "wait_empty", "wait_mutex")
    /\ UNCHANGED <<buffer_index, empty, full, mutex, reg, written, stored, fetched>>

WaitEmpty(c) ==
    /\ empty > 0
    /\ empty' = empty - 1
    /\ Transition(c, "wait_empty", "wait_mutex")
    /\ UNCHANGED <<buffer_index, full, mutex, reg, written, stored, fetched>>

StoreConsumed(c) ==
    /\ buffer_index' = reg[c] - 1
    /\ fetched' = fetched + 1
    /\ Transition(c, "store", "post_mutex")
    /\ UNCHANGED <<empty, full, mutex, reg, written, stored>>

\* Fault: the slot is not given back.
BugSlotKept(c) ==
    /\ Transition(c, "post_item", "wait_empty")
    /\ UNCHANGED <<buffer_index, empty, full, mutex, reg, written, stored, fetched>>

PostFull(c) ==
    /\ full' = full + 1
    /\ Transition(c, "post_item", "wait_empty")
    /\ UNCHANGED <<buffer_index, empty, mutex, reg, written, stored, fetched>>

Consumer(c) == WaitEmpty(c) \/ WaitMutex(c) \/ Load(c) \/ StoreConsumed(c)
               \/ PostMutex(c) \/ PostFull(c)

-----------------------------------------------------------------------------
(* main                                                                    *)

\* What every step of main leaves alone.
BufferUnchanged ==
    UNCHANGED <<buffer_index, empty, full, reg, written, stored, fetched>>

\* pthread_create succeeds: all the producers are created before a consumer.
Create(t) ==
    /\ main = "create"
    /\ pc[t] = "unborn"
    /\ t \in Consumers => \A p \in Producers : pc[p] # "unborn"
    /\ pc' = [pc EXCEPT ![t] = IF t \in Producers THEN LoopHead(0)
                                                  ELSE "wait_empty"]
    /\ main' = IF \A u \in Threads \ {t} : pc[u] # "unborn" THEN "join"
                                                            ELSE "create"
    /\ BufferUnchanged /\ UNCHANGED <<mutex, rval>>

\* pthread_create fails: bad_alloc is caught and main returns -1, whatever the
\* threads already created are doing.
CreateFails ==
    /\ main = "create"
    /\ main' = "returned"
    /\ rval' = -1
    /\ BufferUnchanged /\ UNCHANGED <<mutex, pc>>

\* pthread_join of each producer in turn: over when all have returned.
Join ==
    /\ main = "join"
    /\ \A p \in Producers : pc[p] = "exit"
    /\ main' = "wait_mutex"
    /\ BufferUnchanged /\ UNCHANGED <<mutex, pc, rval>>

MainWaitMutex ==
    /\ main = "wait_mutex"
    /\ mutex > 0
    /\ mutex' = mutex - 1
    /\ main' = "check"
    /\ BufferUnchanged /\ UNCHANGED <<pc, rval>>

\* Fault: main does not look whether the buffer is empty.
BugCheckOnce ==
    /\ main = "check"
    /\ main' = "post_last"
    /\ BufferUnchanged /\ UNCHANGED <<mutex, pc, rval>>

\* Is all input read?  The flag loop is the label main goes to.
MainCheck ==
    /\ main = "check"
    /\ main' = IF buffer_index = 0 THEN "post_last" ELSE "post_again"
    /\ BufferUnchanged /\ UNCHANGED <<mutex, pc, rval>>

MainPostMutex ==
    /\ main \in {"post_last", "post_again"}
    /\ mutex' = mutex + 1
    /\ main' = IF main = "post_last" THEN "returned" ELSE "wait_mutex"
    /\ rval' = 0
    /\ BufferUnchanged /\ UNCHANGED pc

Main == \/ \E t \in Threads : Create(t)
        \/ CreateFails \/ Join \/ MainWaitMutex \/ MainCheck \/ MainPostMutex

\* The process is gone: nothing is left to do, and this is no deadlock.
Terminated == main = "returned" /\ UNCHANGED vars

Next == \/ \E p \in Producers : Producer(p)
        \/ \E c \in Consumers : Consumer(c)
        \/ Main
        \/ Terminated

\* Every thread gets processor time.  Strong fairness is asked only of a
\* consumer's sem_wait(mutex): main takes the mutex in a busy loop and could
\* otherwise shut the consumers out forever.  Producers and main need none, as
\* everyone they compete with comes to a stop.  A failure of pthread_create is
\* never owed.
Fairness ==
    /\ \A p \in Producers : WF_vars(Producer(p))
    /\ \A c \in Consumers : WF_vars(Consumer(c)) /\ SF_vars(WaitMutex(c))
    /\ WF_vars(\E t \in Threads : Create(t))
    /\ WF_vars(Join \/ MainWaitMutex \/ MainCheck \/ MainPostMutex)

Spec == Init /\ [][Next]_vars
FairSpec == Spec /\ Fairness

-----------------------------------------------------------------------------
(* Properties                                                              *)

Labels == {"unborn", "wait_full", "wait_empty", "wait_mutex", "load", "store",
           "post_mutex", "post_item", "exit"}

At(S, labels) == {t \in S : pc[t] \in labels}
Locked == {"load", "store", "post_mutex"}        \* holds the mutex
Claimed == {"wait_mutex", "load", "store"}       \* past its first semaphore
Past == {"post_mutex", "post_item"}              \* past its update

TypeOK ==
    /\ buffer_index \in Int
    /\ empty \in Nat
    /\ full \in Nat
    /\ mutex \in {0, 1}
    /\ pc \in [Threads -> Labels]
    /\ reg \in [Threads -> Int]
    /\ written \in [Producers -> 0..NumberOfWrites]
    /\ main \in {"create", "join", "wait_mutex", "check", "post_last",
                 "post_again", "returned"}
    /\ rval \in {0, -1}
    /\ stored \in Nat
    /\ fetched \in Nat

\* "mutex gaurds the access to both": at most one of the threads and main is
\* between its sem_wait(mutex) and its sem_post(mutex).
MutualExclusion ==
    /\ \A t, u \in Threads : pc[t] \in Locked /\ pc[u] \in Locked => t = u
    /\ \A t \in Threads :
          ~(pc[t] \in Locked /\ main \in {"check", "post_last", "post_again"})

\* The two semaphores admit exactly as many threads as there are slots and
\* items: when a thread touches buffer[buffer_index], a producer finds a free
\* slot there and a consumer an item.
AccessInBounds ==
    \A t \in Threads : pc[t] = "load" =>
        IF t \in Producers THEN buffer_index \in 0..(BufferLength - 1)
                           ELSE buffer_index \in 1..BufferLength

\* No update of buffer_index is lost: it always counts the items put in and
\* not yet taken out.
NoLostUpdate == buffer_index = stored - fetched

\* The semaphores and the index agree up to the threads between the two: an
\* item in the buffer is offered by "empty", about to be offered by a producer
\* past its store, or claimed by a consumer that has not taken it yet; and
\* likewise the slots.  No slot or item is ever lost or invented, in whatever
\* order the threads run.
SlotsConserved ==
    /\ buffer_index = empty + Cardinality(At(Producers, Past))
                            + Cardinality(At(Consumers, Claimed))
    /\ BufferLength = buffer_index + full
                      + Cardinality(At(Producers, Claimed))
                      + Cardinality(At(Consumers, Past))

\* "all input is read, End of program": when main returns successfully every
\* item of every producer has been put into the buffer and taken out again,
\* although main never waits for the consumers themselves.
AllInputRead ==
    main = "returned" /\ rval = 0 =>
        /\ \A p \in Producers : written[p] = NumberOfWrites
        /\ stored = Cardinality(Producers) * NumberOfWrites
        /\ fetched = stored

\* The program ends: no set of threads waits for each other forever and main
\* does see the empty buffer.
Termination == <>(main = "returned")

\* The buffer as its users see it: a pool of BufferLength slots.
Pool == INSTANCE ItemPool WITH
            Capacity <- BufferLength,
            Total <- Cardinality(Producers) * NumberOfWrites,
            items <- buffer_index,
            added <- stored,
            closed <- main = "returned" /\ rval = 0

PoolSpec == Pool!Spec
=============================================================================
