------------------------------ MODULE Monitor ------------------------------
(***************************************************************************)
(* pa2_2/proc_con: a monitor built from five semaphores (monitor.c) and    *)
(* the producers, consumers and main that use it (main.c).                 *)
(*                                                                         *)
(* A step of a thread is one semaphore operation or the code between two.  *)
(* The index of the buffer starts at -1 and monitor_insert stores before   *)
(* it increments, so its first store goes to the byte before the array:    *)
(* that byte exists in the heap and the array is never freed, so the byte  *)
(* is modelled as one more slot.                                           *)
(***************************************************************************)
EXTENDS Integers, FiniteSets

CONSTANTS
    Producers,       \* the producer threads
    Consumers,       \* the consumer threads
    BufferLength,    \* slots of the buffer, 1 in monitor.c
    NumberOfWrites,  \* characters each producer inserts
    Chars,           \* what getRandomCharacter may return
    Unset            \* what new char[] leaves in a slot

ASSUME MonitorAssumption ==
    /\ IsFiniteSet(Producers) /\ IsFiniteSet(Consumers)
    /\ Producers \cap Consumers = {}
    /\ Consumers # {}
    /\ BufferLength \in Nat \ {0}
    /\ NumberOfWrites \in Nat
    /\ Chars # {} /\ Unset \notin Chars

Threads == Producers \cup Consumers
Slots == -1..(BufferLength - 1)
Semaphores == {"monitor", "producer", "consumer", "cond_empty", "cond_full"}

VARIABLES
    sem,             \* the value of each semaphore
    empty_blocked,   \* cond_empty.cv.blocked: consumers must wait
    full_blocked,    \* cond_full.cv.blocked: producers must wait
    emptyCount,      \* cond_empty.cv.blockedThreadCount
    fullCount,       \* cond_full.cv.blockedThreadCount
    buffer,          \* the characters in the slots
    buffer_index,
    pc,              \* where each thread is
    num,             \* blocked threads, as the thread last read their number
    written,         \* loop counter of each producer
    got,             \* the last character each consumer removed
    main,            \* where main is
    mainNum,         \* num of main
    rval,            \* what the process returns
    inserted,        \* history: characters inserted
    removed          \* history: characters removed

flags == <<empty_blocked, full_blocked>>
counts == <<emptyCount, fullCount>>
data == <<buffer, buffer_index, written, got, inserted, removed>>
process == <<main, mainNum, rval>>
vars == <<sem, flags, counts, data, pc, num, process>>

-----------------------------------------------------------------------------
\* monitor_init, and threads that main has not created yet.
Init ==
    /\ sem = [s \in Semaphores |->
                IF s \in {"cond_empty", "cond_full"} THEN 0 ELSE 1]
    /\ empty_blocked = TRUE
    /\ full_blocked = FALSE
    /\ emptyCount = 0
    /\ fullCount = 0
    /\ buffer = [i \in Slots |-> Unset]
    /\ buffer_index = -1
    /\ pc = [t \in Threads |-> "unborn"]
    /\ num = [t \in Threads |-> 0]
    /\ written = [p \in Producers |-> 0]
    /\ got = [c \in Consumers |-> Unset]
    /\ main = "create"
    /\ mainNum = 0
    /\ rval = 0
    /\ inserted = 0
    /\ removed = 0

Goto(t, from, to) ==
    /\ main # "returned"
    /\ pc[t] = from
    /\ pc' = [pc EXCEPT ![t] = to]
    /\ UNCHANGED process

\* sem_wait and sem_post of semaphore s by thread t.
SemWait(t, s, from, to) ==
    /\ sem[s] > 0
    /\ sem' = [sem EXCEPT ![s] = @ - 1]
    /\ Goto(t, from, to)
    /\ UNCHANGED <<flags, counts, data, num>>

SemPost(t, s, from, to) ==
    /\ sem' = [sem EXCEPT ![s] = @ + 1]
    /\ Goto(t, from, to)
    /\ UNCHANGED <<flags, counts, data, num>>

\* monitor_getNumConsumersBlocked and monitor_getNumProducersBlocked read the
\* count; the semaphore operations around it are steps of the caller.
ReadCount(t, count, from, to) ==
    /\ num' = [num EXCEPT ![t] = count]
    /\ Goto(t, from, to)
    /\ UNCHANGED <<sem, flags, counts, data>>

\* Fault: the mutex is kept.
BugUnposted(t, s, from, yes, no) ==
    /\ Goto(t, from, IF num[t] > 0 THEN yes ELSE no)
    /\ UNCHANGED <<sem, flags, counts, data, num>>

\* if(0 < num): on to one line or the other, after the post that ends the read.
PostAndTest(t, s, from, yes, no) ==
    SemPost(t, s, from, IF num[t] > 0 THEN yes ELSE no)

-----------------------------------------------------------------------------
(* monitor_insert                                                          *)

\* The test of the condition: block, counting oneself, or go on.
InsertTest(p) ==
    /\ fullCount' = fullCount + (IF full_blocked THEN 1 ELSE 0)
    /\ Goto(p, "i_test", IF full_blocked THEN "i_block" ELSE "i_go")
    /\ UNCHANGED <<sem, flags, emptyCount, data, num>>

\* buffer[buffer_index] = ch; buffer_index++;
InsertStore(p) ==
    /\ \E ch \in Chars : buffer' = [buffer EXCEPT ![buffer_index] = ch]
    /\ buffer_index' = buffer_index + 1
    /\ inserted' = inserted + 1
    /\ Goto(p, "i_store", "i_flag_lock")
    /\ UNCHANGED <<sem, flags, counts, num, written, got, removed>>

InsertNotEmpty(p) ==
    /\ empty_blocked' = FALSE
    /\ Goto(p, "i_flag", "i_flag_unlock")
    /\ UNCHANGED <<sem, full_blocked, counts, data, num>>

\* Fault: the consumer signalled stays counted.
BugStillCounted(p) ==
    /\ Goto(p, "i_uncount", "i_signal_unlock")
    /\ UNCHANGED <<sem, flags, counts, data, num>>

InsertUncount(p) ==
    /\ emptyCount' = emptyCount - 1
    /\ Goto(p, "i_uncount", "i_signal_unlock")
    /\ UNCHANGED <<sem, flags, fullCount, data, num>>

\* Fault: the index of the last slot taken for the length.
BugFullAtLength(p) ==
    /\ Goto(p, "i_full", IF buffer_index = BufferLength
                         THEN "i_full_lock" ELSE "i_leave")
    /\ UNCHANGED <<sem, flags, counts, data, num>>

\* if(buffer_index == BufferLength-1)
InsertIsFull(p) ==
    /\ Goto(p, "i_full", IF buffer_index = BufferLength - 1
                         THEN "i_full_lock" ELSE "i_leave")
    /\ UNCHANGED <<sem, flags, counts, data, num>>

InsertFull(p) ==
    /\ full_blocked' = TRUE
    /\ Goto(p, "i_full_set", "i_full_unlock")
    /\ UNCHANGED <<sem, empty_blocked, counts, data, num>>

LoopHead(i) == IF i < NumberOfWrites THEN "i_enter" ELSE "exit"

\* The last sem_post of monitor_insert, and the producer's for loop.
InsertLeave(p) ==
    /\ sem' = [sem EXCEPT !["monitor"] = @ + 1]
    /\ written' = [written EXCEPT ![p] = @ + 1]
    /\ Goto(p, "i_leave", LoopHead(written[p] + 1))
    /\ UNCHANGED <<flags, counts, num, buffer, buffer_index, got, inserted,
                   removed>>

Insert(p) ==
    \/ SemWait(p, "monitor", "i_enter", "i_lock")
    \/ SemWait(p, "producer", "i_lock", "i_test")
    \/ InsertTest(p)
    \/ SemPost(p, "producer", "i_block", "i_block_leave")
    \/ SemPost(p, "monitor", "i_block_leave", "i_blocked")
    \/ SemWait(p, "cond_full", "i_blocked", "i_enter")
    \/ SemPost(p, "producer", "i_go", "i_store")
    \/ InsertStore(p)
    \/ SemWait(p, "consumer", "i_flag_lock", "i_flag")
    \/ InsertNotEmpty(p)
    \/ SemPost(p, "consumer", "i_flag_unlock", "i_num_lock")
    \/ SemWait(p, "consumer", "i_num_lock", "i_num")
    \/ ReadCount(p, emptyCount, "i_num", "i_num_unlock")
    \/ PostAndTest(p, "consumer", "i_num_unlock", "i_signal_lock", "i_full")
    \/ SemWait(p, "consumer", "i_signal_lock", "i_signal")
    \/ SemPost(p, "cond_empty", "i_signal", "i_uncount")
    \/ InsertUncount(p)
    \/ SemPost(p, "consumer", "i_signal_unlock", "i_full")
    \/ InsertIsFull(p)
    \/ SemWait(p, "producer", "i_full_lock", "i_full_set")
    \/ InsertFull(p)
    \/ SemPost(p, "producer", "i_full_unlock", "i_leave")
    \/ InsertLeave(p)

-----------------------------------------------------------------------------
(* monitor_remove                                                          *)

RemoveTest(c) ==
    /\ emptyCount' = emptyCount + (IF empty_blocked THEN 1 ELSE 0)
    /\ Goto(c, "r_test", IF empty_blocked THEN "r_block" ELSE "r_go")
    /\ UNCHANGED <<sem, flags, fullCount, data, num>>

\* ch = buffer[buffer_index]; buffer_index--;
RemoveLoad(c) ==
    /\ got' = [got EXCEPT ![c] = buffer[buffer_index]]
    /\ buffer_index' = buffer_index - 1
    /\ removed' = removed + 1
    /\ Goto(c, "r_load", "r_num_lock")
    /\ UNCHANGED <<sem, flags, counts, num, buffer, written, inserted>>

RemoveNotFull(c) ==
    /\ full_blocked' = FALSE
    /\ Goto(c, "r_flag", "r_flag_unlock")
    /\ UNCHANGED <<sem, empty_blocked, counts, data, num>>

\* if(buffer_index == -1)
RemoveIsEmpty(c) ==
    /\ Goto(c, "r_empty", IF buffer_index = -1 THEN "r_empty_lock"
                                               ELSE "r_leave")
    /\ UNCHANGED <<sem, flags, counts, data, num>>

RemoveEmpty(c) ==
    /\ empty_blocked' = TRUE
    /\ Goto(c, "r_empty_set", "r_empty_unlock")
    /\ UNCHANGED <<sem, full_blocked, counts, data, num>>

\* The producer signalled is not taken off fullCount, and the section that
\* signals it is guarded by the consumers' mutex.
Remove(c) ==
    \/ SemWait(c, "monitor", "r_enter", "r_lock")
    \/ SemWait(c, "consumer", "r_lock", "r_test")
    \/ RemoveTest(c)
    \/ SemPost(c, "consumer", "r_block", "r_block_leave")
    \/ SemPost(c, "monitor", "r_block_leave", "r_blocked")
    \/ SemWait(c, "cond_empty", "r_blocked", "r_enter")
    \/ SemPost(c, "consumer", "r_go", "r_load")
    \/ RemoveLoad(c)
    \/ SemWait(c, "producer", "r_num_lock", "r_num")
    \/ ReadCount(c, fullCount, "r_num", "r_num_unlock")
    \/ PostAndTest(c, "producer", "r_num_unlock", "r_signal_lock",
                   "r_flag_lock")
    \/ SemWait(c, "consumer", "r_signal_lock", "r_signal")
    \/ SemPost(c, "cond_full", "r_signal", "r_signal_unlock")
    \/ SemPost(c, "consumer", "r_signal_unlock", "r_flag_lock")
    \/ SemWait(c, "producer", "r_flag_lock", "r_flag")
    \/ RemoveNotFull(c)
    \/ SemPost(c, "producer", "r_flag_unlock", "r_empty")
    \/ RemoveIsEmpty(c)
    \/ SemWait(c, "consumer", "r_empty_lock", "r_empty_set")
    \/ RemoveEmpty(c)
    \/ SemPost(c, "consumer", "r_empty_unlock", "r_leave")
    \/ SemPost(c, "monitor", "r_leave", "r_enter")

-----------------------------------------------------------------------------
(* producer_function, consumer_function and main                           *)

MonitorUnchanged == UNCHANGED <<flags, counts, data, num>>

\* A thread allocates its return value and enters its loop.
Start(t) ==
    /\ Goto(t, "start", IF t \in Producers THEN LoopHead(0) ELSE "r_enter")
    /\ MonitorUnchanged /\ UNCHANGED sem

\* The process ends with an error: a thread finds no memory and calls exit, or
\* a pthread_create of main fails.
Fail ==
    /\ main # "returned"
    /\ main = "create" \/ \E t \in Threads : pc[t] = "start"
    /\ main' = "returned"
    /\ rval' = -1
    /\ MonitorUnchanged /\ UNCHANGED <<sem, pc, mainNum>>

\* Producers are created before consumers.
Create(t) ==
    /\ main = "create"
    /\ pc[t] = "unborn"
    /\ t \in Consumers => \A p \in Producers : pc[p] # "unborn"
    /\ pc' = [pc EXCEPT ![t] = "start"]
    /\ main' = IF \A u \in Threads \ {t} : pc[u] # "unborn" THEN "join"
                                                            ELSE "create"
    /\ MonitorUnchanged /\ UNCHANGED <<sem, mainNum, rval>>

Join ==
    /\ main = "join"
    /\ \A p \in Producers : pc[p] = "exit"
    /\ main' = "poll_lock"
    /\ MonitorUnchanged /\ UNCHANGED <<sem, pc, mainNum, rval>>

\* monitor_getNumConsumersBlocked, called from main's loop.
PollLock ==
    /\ main = "poll_lock"
    /\ sem["consumer"] > 0
    /\ sem' = [sem EXCEPT !["consumer"] = @ - 1]
    /\ main' = "poll"
    /\ MonitorUnchanged /\ UNCHANGED <<pc, mainNum, rval>>

PollRead ==
    /\ main = "poll"
    /\ mainNum' = emptyCount
    /\ main' = "poll_unlock"
    /\ MonitorUnchanged /\ UNCHANGED <<sem, pc, rval>>

\* Fault: one blocked consumer is enough.
BugPollAny ==
    /\ main = "poll_unlock"
    /\ sem' = [sem EXCEPT !["consumer"] = @ + 1]
    /\ main' = IF mainNum > 0 THEN "returned" ELSE "poll_lock"
    /\ MonitorUnchanged /\ UNCHANGED <<pc, mainNum, rval>>

\* Leave the loop when every consumer is blocked, else sleep and poll again.
PollUnlock ==
    /\ main = "poll_unlock"
    /\ sem' = [sem EXCEPT !["consumer"] = @ + 1]
    /\ main' = IF mainNum = Cardinality(Consumers) THEN "returned"
                                                   ELSE "poll_lock"
    /\ MonitorUnchanged /\ UNCHANGED <<pc, mainNum, rval>>

Terminated == main = "returned" /\ UNCHANGED vars

Next ==
    \/ \E p \in Producers : Insert(p)
    \/ \E c \in Consumers : Remove(c)
    \/ \E t \in Threads : Start(t) \/ Create(t)
    \/ Fail \/ Join \/ PollLock \/ PollRead \/ PollUnlock
    \/ Terminated

\* Threads get processor time.  A consumer's sem_wait on the consumer mutex is
\* strongly fair: main takes that mutex only once in five seconds.
Fairness ==
    /\ \A p \in Producers : WF_vars(Insert(p) \/ Start(p))
    /\ \A c \in Consumers :
          /\ WF_vars(Remove(c) \/ Start(c))
          /\ SF_vars(Remove(c) /\ sem'["consumer"] < sem["consumer"])
    /\ WF_vars(\E t \in Threads : Create(t))
    /\ WF_vars(Join \/ PollLock \/ PollRead \/ PollUnlock)

Spec == Init /\ [][Next]_vars
FairSpec == Spec /\ Fairness

-----------------------------------------------------------------------------
(* Properties                                                              *)

At(S, labels) == {t \in S : pc[t] \in labels}

\* Labels at which a thread holds each of the three mutexes.
InConsumerLock == {"i_flag", "i_flag_unlock", "i_num", "i_num_unlock",
    "i_signal", "i_uncount", "i_signal_unlock", "r_test", "r_block", "r_go",
    "r_signal", "r_signal_unlock", "r_empty_set", "r_empty_unlock"}
InProducerLock == {"i_test", "i_block", "i_go", "i_full_set", "i_full_unlock",
    "r_num", "r_num_unlock", "r_flag", "r_flag_unlock"}
InMonitor == InConsumerLock \cup InProducerLock \cup {"i_lock",
    "i_block_leave", "i_store", "i_flag_lock", "i_num_lock", "i_signal_lock",
    "i_full", "i_full_lock", "i_leave", "r_lock", "r_block_leave", "r_load",
    "r_num_lock", "r_signal_lock", "r_flag_lock", "r_empty", "r_empty_lock",
    "r_leave"}
Outside == {"unborn", "start", "exit", "i_enter", "i_blocked", "r_enter",
            "r_blocked"}

TypeOK ==
    /\ sem \in [Semaphores -> Nat]
    /\ empty_blocked \in BOOLEAN
    /\ full_blocked \in BOOLEAN
    /\ emptyCount \in Nat
    /\ fullCount \in Nat
    /\ buffer \in [Slots -> Chars \cup {Unset}]
    /\ buffer_index \in Int
    /\ pc \in [Threads -> InMonitor \cup Outside]
    /\ num \in [Threads -> Nat]
    /\ written \in [Producers -> 0..NumberOfWrites]
    /\ got \in [Consumers -> Chars \cup {Unset}]
    /\ main \in {"create", "join", "poll_lock", "poll", "poll_unlock",
                 "returned"}
    /\ mainNum \in Nat
    /\ rval \in {0, -1}
    /\ inserted \in Nat
    /\ removed \in Nat

\* "only one can acquire it, so only one thread will be in monitor at a given
\* time", and the same for the two inner mutexes: each is held by exactly as
\* many as its semaphore has given away, main's poll included.
LocksExclusive ==
    /\ sem["monitor"] + Cardinality(At(Threads, InMonitor)) = 1
    /\ sem["producer"] + Cardinality(At(Threads, InProducerLock)) = 1
    /\ main # "returned" =>
         sem["consumer"] + Cardinality(At(Threads, InConsumerLock))
           + (IF main \in {"poll", "poll_unlock"} THEN 1 ELSE 0) = 1

\* Whenever nobody is in the monitor the two flags say exactly whether the
\* buffer is empty or full, so that a thread blocks if and only if it must.
FlagsMatchBuffer ==
    At(Threads, InMonitor) = {} =>
        /\ empty_blocked <=> buffer_index = -1
        /\ full_blocked <=> buffer_index = BufferLength - 1

\* The flags keep the index in range: an insert finds it below the last slot,
\* a remove finds it at a slot.
IndexInRange ==
    /\ At(Producers, {"i_store"}) # {} => buffer_index \in -1..(BufferLength - 2)
    /\ At(Consumers, {"r_load"}) # {} => buffer_index \in 0..(BufferLength - 1)

\* A consumer that has counted itself is either still counted or has a signal
\* waiting for it, never both and never neither (but for the moment between the
\* post and the decrement): no wakeup of a consumer is lost, even one sent
\* before it reaches its sem_wait.
BlockedConsumersCounted ==
    emptyCount + sem["cond_empty"] - Cardinality(At(Producers, {"i_uncount"}))
        = Cardinality(At(Consumers, {"r_block", "r_block_leave", "r_blocked"}))

\* "all input is read, End of program": that every consumer is blocked is
\* enough for main to conclude that whatever was inserted has been removed.
AllInputRead ==
    main = "returned" /\ rval = 0 =>
        /\ inserted = Cardinality(Producers) * NumberOfWrites
        /\ removed = inserted
        /\ At(Producers, {"exit"}) = Producers

\* The program ends: no thread is left blocked with nobody to signal it, and
\* main does see all the consumers blocked.
Termination == <>(main = "returned")

\* The monitor is a pool of BufferLength anonymous items.
Pool == INSTANCE ItemPool WITH
            Capacity <- BufferLength,
            Total <- Cardinality(Producers) * NumberOfWrites,
            items <- buffer_index + 1,
            added <- inserted,
            closed <- main = "returned" /\ rval = 0

PoolSpec == Pool!Spec

\* "insert a character into the shared buffer", "remove a character from shared
\* buffer": what a consumer removes is a character that some producer inserted.
\* The code loads from the slot after the one it stored to.
RemovesWhatWasInserted ==
    \A c \in Consumers : pc[c] = "r_num_lock" => got[c] \in Chars

\* "if somebody is blocked in the thread because of us, signal them": a remove
\* posts cond_full only when a producer is blocked.  The code counts blocked
\* producers up and never down.
SignalsOnlyBlocked ==
    [][sem'["cond_full"] > sem["cond_full"] =>
          At(Producers, {"i_block", "i_block_leave", "i_blocked"}) # {}]_vars
=============================================================================
