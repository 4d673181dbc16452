--------------------------- MODULE SchedulerProofs ---------------------------
(***************************************************************************)
(* Safety of the round robin scheduler of pa4_1 for any numbers of workers *)
(* and of quanta and any size of the queue, however long threads are held  *)
(* up, but for a worker that timer_handler waits for: it is to enter the   *)
(* queue within the quantum, or the next SIGALRM takes the empty queue for *)
(* the end.                                                                *)
(***************************************************************************)
EXTENDS Scheduler, ThreadCounting, SequenceTheorems, TLAPS

-----------------------------------------------------------------------------
(* The invariant.                                                          *)

Inserted == {"entered", "wait", "running", "cancel", "dead"}
Holding == {"enter", "entered", "wait", "running", "cancel"}

\* Where timer_handler has charged the current worker for its quantum, and where it
\* has taken it off the head of the queue.
Charged == {"remove", "insert", "leave", "next", "resume"}
Moved == {"insert", "next", "resume"}

InHandler(labels) == \E h \in Hosts : handler[h] \in labels
Active(w) == w = currentThread /\ ~InHandler(Charged)
Leaving == {info[h] : h \in {g \in Hosts : handler[g] = "leave"}}

\* At most one thread is in timer_handler.
HandlerAlone ==
    \A g, h \in Hosts : handler[g] # "none" /\ handler[h] # "none" => g = h

\* What timer_handler knows at each of its lines.
HandlerInv ==
    /\ sched = "wait" => /\ currentThread = NoWorker
                         /\ \A h \in Hosts : handler[h] = "none"
    /\ currentThread # NoWorker =>
          /\ worker[currentThread] \in Inserted
          /\ ~InHandler(Charged) => quanta[currentThread] > 0
    /\ \A h \in Hosts :
          /\ handler[h] \in {"suspend", "remove", "insert", "leave"}
                => info[h] = currentThread /\ currentThread # NoWorker
          /\ handler[h] \in {"remove", "insert"} => quanta[info[h]] > 0
          /\ handler[h] = "leave" => quanta[info[h]] = 0
          /\ handler[h] = "resume" =>
                \/ info[h] = NoWorker /\ completed = thread_count
                \/ /\ sched_queue # <<>> /\ info[h] = sched_queue[1]
                   /\ quanta[info[h]] > 0

\* The current worker is at the head of the queue until the handler takes it off,
\* and there is somebody there when the timer starts.
HeadInv ==
    /\ currentThread # NoWorker /\ ~InHandler(Moved) =>
          sched_queue # <<>> /\ sched_queue[1] = currentThread
    /\ currentThread = NoWorker /\ sched # "wait" /\ ~InHandler({"next", "resume"})
          => sched_queue # <<>> \/ completed = thread_count

\* The queue lists the workers that have entered and not left, each once.
QueueInv ==
    /\ \A i, j \in DOMAIN sched_queue : sched_queue[i] = sched_queue[j] => i = j
    /\ \A w \in Workers : w \in Queued <=>
          worker[w] \in Inserted /\ w \notin freed /\ w \notin Moving

\* What each worker has run and has left to run.
LifeInv ==
    \A w \in Workers :
        /\ quanta[w] \in 0..requested[w]
        /\ worker[w] \notin Inserted => quanta[w] = requested[w] /\ pending[w] = {}
        /\ w \in freed <=> quanta[w] = 0 /\ w \notin Leaving
        /\ "TERM" \in pending[w] \/ worker[w] \in {"cancel", "dead"} => quanta[w] = 0
        /\ ran[w] = requested[w] - quanta[w] + (IF Active(w) THEN 1 ELSE 0)

\* The two counters.
CountInv ==
    /\ completed = Cardinality(Cancelled)
    /\ queue_sem + Cardinality(AtLabels(Workers, worker, Holding)) = QueueSize

QuitInv == quit => completed = thread_count

\* A worker ahead of another one has not been resumed since that one was or entered,
\* but for the current one, which is about to go to the tail.
OrderInv ==
    /\ \A v, w \in Workers : v \in passed[w] => worker[v] \in Inserted
    /\ \A i, j \in DOMAIN sched_queue :
          i < j /\ sched_queue[i] \in passed[sched_queue[j]] =>
             i = 1 /\ sched_queue[1] = currentThread /\ ~InHandler(Moved)
    /\ currentThread # NoWorker => passed[currentThread] = {}

\* The signals.
Stopped(w) ==
    \/ /\ worker[w] \notin {"running", "cancel", "dead"}
       /\ w \notin suspended /\ pending[w] = {}
    \/ worker[w] = "running" /\ w \in suspended /\ pending[w] = {}
    \/ worker[w] = "running" /\ w \notin suspended /\ pending[w] \in {{"USR1"}, {"TERM"}}
    \/ worker[w] \in {"cancel", "dead"} /\ w \notin suspended /\ pending[w] = {}

Runs(w) == worker[w] = "running" /\ w \notin suspended /\ pending[w] = {}

Resuming(w) ==
    \/ worker[w] \in {"entered", "wait"} /\ w \notin suspended /\ pending[w] = {"USR2"}
    \/ worker[w] = "running" /\ w \in suspended /\ pending[w] = {"USR2"}
    \/ worker[w] = "running" /\ w \notin suspended /\ pending[w] = {"USR1", "USR2"}
    \/ Runs(w)

SignalInv ==
    PromptSignals =>
    /\ \A w \in Workers : ~Active(w) => Stopped(w)
    /\ currentThread # NoWorker /\ ~InHandler(Charged) => Resuming(currentThread)
    /\ InHandler({"size", "suspend"}) /\ currentThread # NoWorker => Runs(currentThread)

\* What the theorems ask of the constants: a worker that timer_handler waits for enters
\* the queue before the next SIGALRM, and no worker is asked to run for 0 quanta.
Timely == PromptEntry /\ 0 \notin QuantaChoices

SchedulerInv ==
    /\ TypeOK /\ HandlerAlone /\ HandlerInv /\ HeadInv /\ QueueInv
    /\ LifeInv /\ CountInv /\ QuitInv /\ OrderInv

-----------------------------------------------------------------------------
(* Initial states.                                                         *)

LEMMA InitInv == ASSUME Timely, Init PROVE SchedulerInv
<1> USE SchedulerAssumption DEF Init
<1>1. TypeOK
  <2>1. sched_queue \in Seq(Workers)  BY EmptySeq
  <2>2. requested \in [Workers -> Nat]  OBVIOUS
  <2>3. /\ requested \in [Workers -> QuantaChoices]
        /\ quanta \in [Workers -> Int]
    BY <2>2
  <2>4. /\ handler \in [Hosts -> HandlerAt]
        /\ worker \in [Workers -> WorkerAt]
    BY DEF HandlerAt, WorkerAt
  <2> QED  BY <2>1, <2>3, <2>4 DEF TypeOK
<1>2. \A h \in Hosts : handler[h] = "none" /\ info[h] = NoWorker  OBVIOUS
<1>3. HandlerAlone /\ HandlerInv  BY <1>2 DEF HandlerAlone, HandlerInv
<1>4. HeadInv  BY DEF HeadInv
<1>5. DOMAIN sched_queue = {}  OBVIOUS
<1>6. QueueInv
  BY <1>5 DEF QueueInv, Queued, Inserted
<1>7. \A w \in Workers : quanta[w] \in Nat \ {0} /\ requested[w] = quanta[w]
  BY DEF Timely
<1>8. LifeInv
  <2>1. \A w \in Workers : ~Active(w)  BY DEF Active
  <2>2. Leaving = {}  BY <1>2 DEF Leaving
  <2> QED  BY <1>7, <2>1, <2>2 DEF LifeInv, Inserted
<1>9. CountInv
  <2>1. Cancelled = {}  BY <1>7 DEF Cancelled
  <2>2. AtLabels(Workers, worker, Holding) = {}  BY DEF AtLabels, Holding
  <2>3. /\ Cardinality(Cancelled) = 0
        /\ Cardinality(AtLabels(Workers, worker, Holding)) = 0
    BY <2>1, <2>2, FS_EmptySet
  <2>4. completed = 0 /\ queue_sem = QueueSize /\ QueueSize \in Nat  OBVIOUS
  <2> QED  BY ONLY <2>3, <2>4 DEF CountInv
<1>10. QuitInv  BY DEF QuitInv
<1>11. OrderInv  BY <1>5 DEF OrderInv
<1> QED
  BY <1>1, <1>3, <1>4, <1>6, <1>8, <1>9, <1>10, <1>11 DEF SchedulerInv

-----------------------------------------------------------------------------
(* The queue.                                                              *)

\* Inserting at the tail.
LEMMA QueueAppend ==
    ASSUME sched_queue \in Seq(Workers), NEW w \in Workers,
           sched_queue' = Append(sched_queue, w)
    PROVE  /\ sched_queue' \in Seq(Workers)
           /\ DOMAIN sched_queue = 1..Len(sched_queue) /\ Len(sched_queue) \in Nat
           /\ DOMAIN sched_queue' = 1..(Len(sched_queue) + 1)
           /\ Len(sched_queue') = Len(sched_queue) + 1
           /\ \A i \in 1..Len(sched_queue) : sched_queue'[i] = sched_queue[i]
           /\ sched_queue'[Len(sched_queue) + 1] = w
           /\ sched_queue' # <<>>
           /\ Queued' = Queued \cup {w}
<1>1. /\ sched_queue' \in Seq(Workers) /\ sched_queue' # <<>>
      /\ Len(sched_queue') = Len(sched_queue) + 1
      /\ \A i \in 1..Len(sched_queue) : sched_queue'[i] = sched_queue[i]
      /\ sched_queue'[Len(sched_queue) + 1] = w
  BY AppendProperties
<1>2. /\ Len(sched_queue) \in Nat
      /\ DOMAIN sched_queue = 1..Len(sched_queue)
      /\ DOMAIN sched_queue' = 1..(Len(sched_queue) + 1)
  BY <1>1, LenProperties
<1>3. Queued' = Queued \cup {w}
  BY <1>1, <1>2 DEF Queued
<1> QED  BY <1>1, <1>2, <1>3

\* Unlinking the head of a queue without repetitions.
LEMMA QueueRemove ==
    ASSUME sched_queue \in Seq(Workers), sched_queue # <<>>,
           \A i, j \in DOMAIN sched_queue : sched_queue[i] = sched_queue[j] => i = j,
           NEW w \in Workers, w = sched_queue[1], sched_queue' = Without(w)
    PROVE  /\ sched_queue' \in Seq(Workers)
           /\ DOMAIN sched_queue = 1..Len(sched_queue)
           /\ Len(sched_queue) \in Nat \ {0}
           /\ DOMAIN sched_queue' = 1..(Len(sched_queue) - 1)
           /\ \A i \in 1..(Len(sched_queue) - 1) : sched_queue'[i] = sched_queue[i + 1]
           /\ Queued' = Queued \ {w}
<1>1. /\ Len(sched_queue) \in Nat \ {0}
      /\ DOMAIN sched_queue = 1..Len(sched_queue)
  BY LenProperties, EmptySeq
<1>2. w \in Queued  BY <1>1 DEF Queued
<1>3. (CHOOSE k \in DOMAIN sched_queue : sched_queue[k] = w) = 1
  BY <1>1
<1>4. sched_queue' = SubSeq(sched_queue, 1, 0) \o SubSeq(sched_queue, 2, Len(sched_queue))
  BY <1>2, <1>3 DEF Without
<1>5. SubSeq(sched_queue, 1, 0) = <<>>  BY SubSeqEmpty
<1>6. SubSeq(sched_queue, 2, Len(sched_queue)) = Tail(sched_queue)
  BY TailIsSubSeq
<1>7. /\ Tail(sched_queue) \in Seq(Workers)
      /\ Len(Tail(sched_queue)) = Len(sched_queue) - 1
      /\ \A i \in 1..Len(Tail(sched_queue)) : Tail(sched_queue)[i] = sched_queue[i + 1]
  BY HeadTailProperties
<1>8. sched_queue' = Tail(sched_queue)
  BY <1>4, <1>5, <1>6, <1>7, ConcatEmptySeq
<1>9. DOMAIN sched_queue' = 1..(Len(sched_queue) - 1)
  BY <1>7, <1>8, LenProperties
<1>10. \A i \in 1..(Len(sched_queue) - 1) : sched_queue'[i] = sched_queue[i + 1]
  BY <1>7, <1>8
<1>11. Queued' = Queued \ {w}
  <2>1. \A v : v \in Queued' => v \in Queued /\ v # w
    <3> TAKE v
    <3> HAVE v \in Queued'
    <3>1. PICK i \in 1..(Len(sched_queue) - 1) : v = sched_queue'[i]
      BY <1>9 DEF Queued
    <3>2. v = sched_queue[i + 1] /\ i + 1 \in DOMAIN sched_queue /\ i + 1 # 1
      BY <1>1, <1>10, <3>1
    <3> QED  BY <1>1, <3>2 DEF Queued
  <2>2. \A v : v \in Queued /\ v # w => v \in Queued'
    <3> TAKE v
    <3> HAVE v \in Queued /\ v # w
    <3>1. PICK i \in 1..Len(sched_queue) : v = sched_queue[i]
      BY <1>1 DEF Queued
    <3>2. i - 1 \in 1..(Len(sched_queue) - 1) /\ (i - 1) + 1 = i
      BY <1>1, <3>1
    <3>3. v = sched_queue'[i - 1]  BY <1>10, <3>1, <3>2
    <3> QED  BY <1>9, <3>2, <3>3 DEF Queued
  <2> QED  BY <2>1, <2>2
<1> QED  BY <1>1, <1>7, <1>8, <1>9, <1>10, <1>11

-----------------------------------------------------------------------------
(* timer_handler's position.                                               *)

\* While host h is in its handler nobody else is, before and after its step.
LEMMA HandlerStep ==
    ASSUME SchedulerInv, NEW h \in Hosts, NEW from \in HandlerAt, NEW to \in HandlerAt,
           HandlerGoto(h, from, to), from # "none"
    PROVE  /\ handler[h] = from /\ handler'[h] = to
           /\ \A g \in Hosts \ {h} : handler[g] = "none" /\ handler'[g] = "none"
           /\ HandlerAlone'
           /\ sched # "wait"
<1>1. /\ handler[h] = from /\ handler'[h] = to
      /\ \A g \in Hosts \ {h} : handler[g] = "none" /\ handler'[g] = "none"
  BY DEF SchedulerInv, TypeOK, HandlerAlone, HandlerGoto
<1>2. HandlerAlone'  BY <1>1 DEF HandlerAlone
<1>3. sched # "wait"  BY <1>1 DEF SchedulerInv, HandlerInv
<1> QED  BY <1>1, <1>2, <1>3

\* The worker that the handler is about to take off the queue is at its head.
LEMMA HandlerHead ==
    ASSUME SchedulerInv, NEW h \in Hosts, handler[h] \in {"suspend", "remove", "leave"}
    PROVE  /\ info[h] = currentThread /\ info[h] \in Workers
           /\ sched_queue # <<>> /\ sched_queue[1] = info[h]
<1>1. info[h] = currentThread /\ info[h] \in Workers
  BY DEF SchedulerInv, HandlerInv, TypeOK
<1>2. ~InHandler(Moved)
  BY DEF SchedulerInv, HandlerAlone, InHandler, Moved
<1> QED  BY <1>1, <1>2, SchedulerAssumption DEF SchedulerInv, HeadInv

\* However late signals are acted on, the timer does not go off while somebody is in
\* the handler.
LEMMA TickAlone ==
    ASSUME Timely, SchedulerInv, NEW h \in Hosts, Tick(h)
    PROVE  /\ \A g \in Hosts : handler[g] = "none"
           /\ \A g \in Hosts \ {h} : handler'[g] = "none"
           /\ handler'[h] = "size"
<1>1. \A g \in Hosts : handler[g] = "none"
  BY DEF Timely, Tick
<1>2. handler' = [handler EXCEPT ![h] = "size"]  BY DEF Tick
<1> QED  BY <1>1, <1>2 DEF SchedulerInv, TypeOK

-----------------------------------------------------------------------------
(* Types.                                                                  *)

\* Updating a function at a point.
LEMMA ExceptType ==
    ASSUME NEW S, NEW T, NEW f \in [S -> T], NEW x \in S, NEW v \in T
    PROVE  [f EXCEPT ![x] = v] \in [S -> T]
OBVIOUS

LEMMA TypeInv == ASSUME SchedulerInv, Next PROVE TypeOK'
<1>1. TypeOK /\ NoWorker \notin Workers  BY SchedulerAssumption DEF SchedulerInv
<1> USE <1>1
<1>2. CASE \E w \in Workers : Worker(w)
  <2>1. PICK w \in Workers : Worker(w)  BY <1>2
  <2>2. CASE EnterInsert(w)
    <3>1. sched_queue' \in Seq(Workers)
      BY <2>2, QueueAppend DEF TypeOK, EnterInsert, InsertTail
    <3> QED
      BY <2>2, <3>1 DEF EnterInsert, WorkerGoto, process, TypeOK, WorkerAt
  <2>3. CASE BlockAlarm(w) \/ FirstSuspend(w)
    <3>1. PICK to \in WorkerAt : worker' = [worker EXCEPT ![w] = to]
      BY <2>3 DEF BlockAlarm, FirstSuspend, WorkerGoto, WorkerAt
    <3>2. worker' \in [Workers -> WorkerAt]  BY <3>1, ExceptType DEF TypeOK
    <3>3. UNCHANGED <<process, handler, info, quanta, currentThread, completed,
                      quit, freed, ran, sched_queue, queue_sem, suspended, pending,
                      passed>>
      BY <2>3 DEF BlockAlarm, FirstSuspend, WorkerGoto
    <3> QED  BY <3>2, <3>3 DEF process, TypeOK
  <2>4. CASE EnterWait(w) \/ CancelThread(w)
    <3>1. queue_sem' \in Nat  BY <2>4 DEF EnterWait, CancelThread, TypeOK
    <3>2. PICK to \in WorkerAt : worker' = [worker EXCEPT ![w] = to]
      BY <2>4 DEF EnterWait, CancelThread, WorkerGoto, WorkerAt
    <3>3. worker' \in [Workers -> WorkerAt]  BY <3>2, ExceptType DEF TypeOK
    <3>4. UNCHANGED <<process, handler, info, quanta, currentThread, completed,
                      quit, freed, ran, sched_queue, suspended, pending, passed>>
      BY <2>4 DEF EnterWait, CancelThread, WorkerGoto
    <3> QED  BY <3>1, <3>3, <3>4 DEF process, TypeOK
  <2>5. CASE TakeSuspend(w) \/ TakeCancel(w) \/ TakeResume(w)
    <3>1. /\ suspended' \subseteq Workers
          /\ pending' \in [Workers -> SUBSET {"USR1", "USR2", "TERM"}]
      <4>1. PICK rest \in SUBSET pending[w] : pending' = [pending EXCEPT ![w] = rest]
        BY <2>5 DEF TakeSuspend, TakeCancel, TakeResume
      <4>2. rest \in SUBSET {"USR1", "USR2", "TERM"}  BY DEF TypeOK
      <4>3. pending' \in [Workers -> SUBSET {"USR1", "USR2", "TERM"}]
        BY <4>1, <4>2, ExceptType DEF TypeOK
      <4>4. suspended' \subseteq Workers
        BY <2>5 DEF TakeSuspend, TakeCancel, TakeResume, TypeOK
      <4> QED  BY <4>3, <4>4
    <3>2. worker' \in [Workers -> WorkerAt]
      BY <2>5 DEF TakeSuspend, TakeCancel, TakeResume, WorkerGoto, TypeOK, WorkerAt
    <3>3. UNCHANGED <<process, handler, info, quanta, currentThread, completed,
                      quit, freed, ran, sched_queue, queue_sem, passed>>
      BY <2>5 DEF TakeSuspend, TakeCancel, TakeResume, WorkerGoto
    <3> QED  BY <3>1, <3>2, <3>3 DEF process, TypeOK
  <2> QED  BY <2>1, <2>2, <2>3, <2>4, <2>5 DEF Worker
<1>3. CASE \E h \in Hosts : Handler(h)
  <2>1. PICK h \in Hosts : Handler(h)  BY <1>3
  <2>2. /\ handler[h] \in {"suspend", "remove", "insert", "leave"} => info[h] \in Workers
        /\ info[h] \in Workers \cup {NoWorker}
    BY DEF SchedulerInv, HandlerInv, TypeOK
  <2>3. CASE HandlerInsert(h)
    <3>1. sched_queue' \in Seq(Workers)
      BY <2>2, <2>3, QueueAppend DEF TypeOK, HandlerInsert, HandlerGoto, InsertTail
    <3> QED
      BY <2>3, <3>1 DEF HandlerInsert, HandlerGoto, process, TypeOK, HandlerAt
  <2>4. CASE HandlerRemove(h) \/ HandlerLeave(h)
    <3>1. sched_queue' = Without(info[h]) /\ handler[h] \in {"remove", "leave"}
      BY <2>4 DEF HandlerRemove, HandlerLeave, HandlerGoto
    <3>2. sched_queue' \in Seq(Workers)
      BY <3>1, HandlerHead, QueueRemove DEF SchedulerInv, TypeOK, QueueInv
    <3> QED
      BY <2>2, <2>4, <3>1, <3>2
      DEF HandlerRemove, HandlerLeave, HandlerGoto, process, TypeOK, HandlerAt
  <2>5. CASE HandlerNext(h)
    <3>1. sched_queue # <<>> => Head(sched_queue) \in Workers
      BY HeadTailProperties DEF TypeOK
    <3>2. info' \in [Hosts -> Workers \cup {NoWorker}]
      BY <2>5, <3>1 DEF HandlerNext, TypeOK
    <3> QED
      BY <2>5, <3>2 DEF HandlerNext, HandlerGoto, process, TypeOK, HandlerAt
  <2>6. CASE HandlerSuspend(h) \/ HandlerCancel(h)
    <3>1. info[h] \in Workers  BY <2>2, <2>6 DEF HandlerSuspend, HandlerCancel, HandlerGoto
    <3>2. quanta' \in [Workers -> Int]
      BY <2>6, <3>1 DEF HandlerSuspend, HandlerCancel, TypeOK
    <3>3. pending' \in [Workers -> SUBSET {"USR1", "USR2", "TERM"}]
      <4>1. PICK signal \in {"USR1", "TERM"} :
               pending' = [pending EXCEPT ![info[h]] = pending[info[h]] \cup {signal}]
        BY <2>6 DEF HandlerSuspend, HandlerCancel, Send
      <4>2. pending[info[h]] \cup {signal} \in SUBSET {"USR1", "USR2", "TERM"}
        BY <3>1 DEF TypeOK
      <4> QED  BY <3>1, <4>1, <4>2, ExceptType DEF TypeOK
    <3>4. completed' \in Nat /\ handler' \in [Hosts -> HandlerAt]
      <4>1. PICK to \in HandlerAt : handler' = [handler EXCEPT ![h] = to]
        BY <2>6 DEF HandlerSuspend, HandlerCancel, HandlerGoto, HandlerAt
      <4>2. completed' \in Nat  BY <2>6 DEF HandlerSuspend, HandlerCancel, TypeOK
      <4> QED  BY <4>1, <4>2, ExceptType DEF TypeOK
    <3>5. UNCHANGED <<process, worker, suspended, queue_sem, info, currentThread,
                      quit, freed, ran, sched_queue, passed>>
      BY <2>6 DEF HandlerSuspend, HandlerCancel, HandlerGoto
    <3> QED  BY <3>2, <3>3, <3>4, <3>5 DEF process, TypeOK
  <2>7. CASE HandlerResume(h)
    BY <2>2, <2>7 DEF HandlerResume, Return, HandlerGoto, Send, process, TypeOK, HandlerAt
  <2>8. CASE HandlerEmpty(h) \/ HandlerSize(h) \/ HandlerQuit(h)
    BY <2>2, <2>8 DEF HandlerEmpty, HandlerSize, HandlerQuit, Return, HandlerGoto,
       process, TypeOK, HandlerAt
  <2> QED  BY <2>1, <2>3, <2>4, <2>5, <2>6, <2>7, <2>8 DEF Handler
<1>4. CASE \E h \in Hosts : Tick(h)
  BY <1>4 DEF Tick, process, TypeOK, HandlerAt
<1>5. CASE (\E w \in Workers : CreateWorker(w)) \/ StartTimer \/ SchedulerDone \/ CleanUp
  BY <1>5 DEF CreateWorker, StartTimer, SchedulerDone, CleanUp, SchedulerUnchanged,
     TypeOK, WorkerAt
<1>6. CASE Terminated
  BY <1>6 DEF Terminated, vars, process, TypeOK
<1> QED  BY <1>2, <1>3, <1>4, <1>5, <1>6 DEF Next

-----------------------------------------------------------------------------
(* Steps of the workers, the scheduler thread and main that the handler does not *)
(* see: nobody enters the queue.                                           *)

NothingHandled ==
    UNCHANGED <<requested, handler, info, quanta, currentThread, completed, quit,
                freed, ran, sched_queue, passed>>

QuietStep ==
    /\ NothingHandled
    /\ (sched' = sched) \/ (sched' # "wait" /\ (sched # "wait" \/ sched_queue # <<>>))
    /\ \A v \in Workers :
          /\ worker'[v] \in Inserted <=> worker[v] \in Inserted
          /\ worker[v] \notin Inserted => pending'[v] = pending[v]
          /\ "TERM" \in pending'[v] \/ worker'[v] \in {"cancel", "dead"} =>
             "TERM" \in pending[v] \/ worker[v] \in {"cancel", "dead"}

LEMMA QuietInv ==
    ASSUME SchedulerInv, QuietStep
    PROVE  HandlerAlone' /\ HandlerInv' /\ HeadInv' /\ QueueInv' /\ LifeInv'
           /\ QuitInv' /\ OrderInv'
<1> USE DEF QuietStep, NothingHandled
<1>1. HandlerAlone' /\ QuitInv'
  BY DEF SchedulerInv, HandlerAlone, QuitInv
<1>2. HandlerInv'
  BY DEF SchedulerInv, TypeOK, HandlerInv, InHandler
<1>3. HeadInv'
  BY DEF SchedulerInv, HandlerInv, HeadInv, InHandler
<1>4. QueueInv'
  <2>1. Queued' = Queued /\ Moving' = Moving  BY DEF Queued, Moving
  <2> QED  BY <2>1 DEF SchedulerInv, QueueInv
<1>5. LifeInv'
  <2>1. Leaving' = Leaving  BY DEF Leaving
  <2>2. \A w \in Workers : (w = currentThread' /\ ~InHandler(Charged)') <=> Active(w)
    BY DEF Active, InHandler
  <2> QED  BY <2>1, <2>2 DEF SchedulerInv, LifeInv, Active, InHandler
<1>6. OrderInv'
  BY DEF SchedulerInv, OrderInv, InHandler
<1> QED  BY <1>1, <1>2, <1>3, <1>4, <1>5, <1>6

\* The room in the queue, when one worker moves.
LEMMA RoomInv ==
    ASSUME SchedulerInv, TypeOK', NEW w \in Workers,
           \A u \in Workers \ {w} : worker'[u] = worker[u],
           UNCHANGED <<quanta, completed>>,
           queue_sem' = queue_sem + In(worker[w], Holding) - In(worker'[w], Holding)
    PROVE  CountInv'
<1>1. Cancelled' = Cancelled  BY DEF Cancelled
<1>2. CountChange(Workers, worker, worker', w, Holding)
  BY SchedulerAssumption, CountMoved
<1>3. /\ Cardinality(AtLabels(Workers, worker, Holding)) \in Nat
      /\ Cardinality(AtLabels(Workers, worker', Holding)) \in Nat
  BY SchedulerAssumption, CountType
<1>4. queue_sem \in Nat /\ queue_sem' \in Nat /\ QueueSize \in Nat
  BY SchedulerAssumption DEF SchedulerInv, TypeOK
<1>5. In(worker[w], Holding) \in {0, 1} /\ In(worker'[w], Holding) \in {0, 1}  BY DEF In
<1>6. queue_sem + Cardinality(AtLabels(Workers, worker, Holding)) = QueueSize
  BY DEF SchedulerInv, CountInv
<1>7. queue_sem' + Cardinality(AtLabels(Workers, worker', Holding)) = QueueSize
  BY <1>2, <1>3, <1>4, <1>5, <1>6 DEF CountChange
<1> QED  BY <1>1, <1>7 DEF SchedulerInv, CountInv, AtLabels

LEMMA RoomSame ==
    ASSUME SchedulerInv, UNCHANGED <<quanta, completed, queue_sem>>,
           \A w \in Workers : worker'[w] \in Holding <=> worker[w] \in Holding
    PROVE  CountInv'
<1>1. Cancelled' = Cancelled  BY DEF Cancelled
<1>2. AtLabels(Workers, worker, Holding)' = AtLabels(Workers, worker, Holding)
  BY DEF AtLabels
<1> QED  BY <1>1, <1>2 DEF SchedulerInv, CountInv

LEMMA WorkerQuiet ==
    ASSUME Timely, SchedulerInv, TypeOK', NEW w \in Workers,
           Worker(w) \/ CreateWorker(w), ~EnterInsert(w)
    PROVE  SchedulerInv'
<1> USE DEF Inserted
<1>1. CASE BlockAlarm(w) \/ FirstSuspend(w) \/ CreateWorker(w)
  <2>1. NothingHandled /\ sched' = sched
    BY <1>1 DEF NothingHandled, BlockAlarm, FirstSuspend, CreateWorker, WorkerGoto, SchedulerUnchanged, process
  <2>2. \A v \in Workers \ {w} : worker'[v] = worker[v] /\ pending'[v] = pending[v]
    BY <1>1 DEF BlockAlarm, FirstSuspend, CreateWorker, WorkerGoto, SchedulerUnchanged, SchedulerInv, TypeOK
  <2>3. /\ worker'[w] \in Inserted <=> worker[w] \in Inserted
        /\ worker[w] \notin Inserted => pending'[w] = pending[w]
        /\ "TERM" \in pending'[w] \/ worker'[w] \in {"cancel", "dead"} =>
           "TERM" \in pending[w] \/ worker[w] \in {"cancel", "dead"}
    BY <1>1 DEF BlockAlarm, FirstSuspend, CreateWorker, WorkerGoto, SchedulerUnchanged, SchedulerInv, TypeOK
  <2>4. QuietStep  BY <2>1, <2>2, <2>3 DEF QuietStep
  <2>5. CountInv'
    BY <2>1, <1>1, RoomSame
    DEF BlockAlarm, FirstSuspend, CreateWorker, NothingHandled, WorkerGoto, SchedulerUnchanged, Holding, SchedulerInv, TypeOK
  <2> QED  BY <2>4, <2>5, QuietInv DEF SchedulerInv
<1>2. CASE EnterWait(w) \/ CancelThread(w)
  <2>1. NothingHandled /\ sched' = sched
    BY <1>2 DEF NothingHandled, EnterWait, CancelThread, WorkerGoto, SchedulerUnchanged, process
  <2>2. \A v \in Workers \ {w} : worker'[v] = worker[v] /\ pending'[v] = pending[v]
    BY <1>2 DEF EnterWait, CancelThread, WorkerGoto, SchedulerUnchanged, SchedulerInv, TypeOK
  <2>3. /\ worker'[w] \in Inserted <=> worker[w] \in Inserted
        /\ worker[w] \notin Inserted => pending'[w] = pending[w]
        /\ "TERM" \in pending'[w] \/ worker'[w] \in {"cancel", "dead"} =>
           "TERM" \in pending[w] \/ worker[w] \in {"cancel", "dead"}
    BY <1>2 DEF EnterWait, CancelThread, WorkerGoto, SchedulerUnchanged, SchedulerInv, TypeOK
  <2>4. QuietStep  BY <2>1, <2>2, <2>3 DEF QuietStep
  <2>5. queue_sem' = queue_sem + In(worker[w], Holding) - In(worker'[w], Holding)
    BY <1>2 DEF EnterWait, CancelThread, WorkerGoto, In, Holding, SchedulerInv, TypeOK
  <2>6. CountInv'  BY <2>1, <2>2, <2>5, RoomInv DEF NothingHandled
  <2> QED  BY <2>4, <2>6, QuietInv DEF SchedulerInv
<1>3. CASE TakeSuspend(w) \/ TakeResume(w)
  <2>1. NothingHandled /\ sched' = sched
    BY <1>3 DEF NothingHandled, TakeSuspend, TakeResume, WorkerGoto, SchedulerUnchanged, process
  <2>2. \A v \in Workers \ {w} : worker'[v] = worker[v] /\ pending'[v] = pending[v]
    BY <1>3 DEF TakeSuspend, TakeResume, WorkerGoto, SchedulerUnchanged, SchedulerInv, TypeOK
  <2>3. /\ worker'[w] \in Inserted <=> worker[w] \in Inserted
        /\ worker[w] \notin Inserted => pending'[w] = pending[w]
        /\ "TERM" \in pending'[w] \/ worker'[w] \in {"cancel", "dead"} =>
           "TERM" \in pending[w] \/ worker[w] \in {"cancel", "dead"}
    BY <1>3 DEF TakeSuspend, TakeResume, WorkerGoto, SchedulerUnchanged, SchedulerInv, TypeOK, LifeInv
  <2>4. QuietStep  BY <2>1, <2>2, <2>3 DEF QuietStep
  <2>5. CountInv'
    BY <2>1, <1>3, RoomSame
    DEF TakeSuspend, TakeResume, NothingHandled, WorkerGoto, SchedulerUnchanged, Holding, SchedulerInv, TypeOK
  <2> QED  BY <2>4, <2>5, QuietInv DEF SchedulerInv
<1>4. CASE TakeCancel(w)
  <2>1. NothingHandled /\ sched' = sched
    BY <1>4 DEF NothingHandled, TakeCancel, WorkerGoto, SchedulerUnchanged, process
  <2>2. \A v \in Workers \ {w} : worker'[v] = worker[v] /\ pending'[v] = pending[v]
    BY <1>4 DEF TakeCancel, WorkerGoto, SchedulerUnchanged, SchedulerInv, TypeOK
  <2>3. /\ worker'[w] \in Inserted <=> worker[w] \in Inserted
        /\ worker[w] \notin Inserted => pending'[w] = pending[w]
        /\ "TERM" \in pending'[w] \/ worker'[w] \in {"cancel", "dead"} =>
           "TERM" \in pending[w] \/ worker[w] \in {"cancel", "dead"}
    BY <1>4 DEF TakeCancel, WorkerGoto, SchedulerUnchanged, SchedulerInv, TypeOK, LifeInv
  <2>4. QuietStep  BY <2>1, <2>2, <2>3 DEF QuietStep
  <2>5. CountInv'
    BY <2>1, <1>4, RoomSame
    DEF TakeCancel, NothingHandled, WorkerGoto, SchedulerUnchanged, Holding, SchedulerInv, TypeOK
  <2> QED  BY <2>4, <2>5, QuietInv DEF SchedulerInv
<1> QED  BY <1>1, <1>2, <1>3, <1>4 DEF Worker

LEMMA MainQuiet ==
    ASSUME SchedulerInv, TypeOK', StartTimer \/ SchedulerDone \/ CleanUp \/ UNCHANGED vars
    PROVE  SchedulerInv'
<1>1. /\ NothingHandled
      /\ UNCHANGED <<worker, pending, queue_sem>>
  BY DEF NothingHandled, StartTimer, SchedulerDone, CleanUp, SchedulerUnchanged, vars, process
<1>2. (sched' = sched) \/ (sched' # "wait" /\ (sched # "wait" \/ sched_queue # <<>>))
  BY DEF StartTimer, SchedulerDone, CleanUp, SchedulerUnchanged, vars, process
<1>3. QuietStep  BY <1>1, <1>2 DEF QuietStep
<1>4. CountInv'
  BY <1>1, RoomSame DEF NothingHandled
<1> QED  BY <1>3, <1>4, QuietInv DEF SchedulerInv

-----------------------------------------------------------------------------
(* A worker enters the queue, and the timer goes off.                      *)

LEMMA EnterInsertInv ==
    ASSUME Timely, SchedulerInv, TypeOK', NEW w \in Workers, EnterInsert(w)
    PROVE  SchedulerInv'
<1>1. /\ worker[w] = "enter" /\ worker'[w] = "entered"
      /\ \A u \in Workers \ {w} : worker'[u] = worker[u] /\ passed'[u] = passed[u]
      /\ passed'[w] = {}
      /\ UNCHANGED <<requested, sched, handler, info, quanta, currentThread, completed,
                     quit, freed, ran, queue_sem, suspended, pending>>
      /\ sched_queue' = Append(sched_queue, w)
  BY DEF EnterInsert, WorkerGoto, process, InsertTail, SchedulerInv, TypeOK
<1>2. /\ DOMAIN sched_queue = 1..Len(sched_queue) /\ Len(sched_queue) \in Nat
      /\ DOMAIN sched_queue' = 1..(Len(sched_queue) + 1)
      /\ \A i \in 1..Len(sched_queue) : sched_queue'[i] = sched_queue[i]
      /\ sched_queue'[Len(sched_queue) + 1] = w
      /\ sched_queue' # <<>>
      /\ Queued' = Queued \cup {w}
      /\ sched_queue # <<>> => sched_queue'[1] = sched_queue[1]
  <2>1. sched_queue # <<>> => Len(sched_queue) \in Nat \ {0}
    BY EmptySeq DEF SchedulerInv, TypeOK
  <2> QED  BY <1>1, <2>1, QueueAppend DEF SchedulerInv, TypeOK
<1>3. w # currentThread /\ w \notin Queued /\ w \notin freed /\ w \notin Moving
  <2>1. w # currentThread
    BY <1>1, SchedulerAssumption DEF SchedulerInv, HandlerInv, Inserted
  <2>2. w \notin Queued  BY <1>1 DEF SchedulerInv, QueueInv, Inserted
  <2>3. quanta[w] # 0
    <3>1. quanta[w] = requested[w]  BY <1>1 DEF SchedulerInv, LifeInv, Inserted
    <3>2. requested[w] \in QuantaChoices  BY DEF SchedulerInv, TypeOK
    <3> QED  BY <3>1, <3>2 DEF Timely
  <2>4. w \notin freed  BY <2>3 DEF SchedulerInv, LifeInv
  <2>5. w \notin Moving  BY <2>1 DEF SchedulerInv, HandlerInv, Moving
  <2> QED  BY <2>1, <2>2, <2>4, <2>5
<1>4. HandlerAlone' /\ QuitInv'
  BY <1>1 DEF SchedulerInv, HandlerAlone, QuitInv
<1>5. HandlerInv'
  BY <1>1, <1>2 DEF SchedulerInv, HandlerInv, InHandler, Inserted, TypeOK
<1>6. HeadInv'
  BY <1>1, <1>2 DEF SchedulerInv, HeadInv, InHandler
<1>7. QueueInv'
  <2>1. Moving' = Moving  BY <1>1 DEF Moving
  <2>2. \A i, j \in DOMAIN sched_queue' : sched_queue'[i] = sched_queue'[j] => i = j
    <3>1. \A i \in DOMAIN sched_queue : sched_queue[i] # w  BY <1>3 DEF Queued
    <3>2. \A i \in DOMAIN sched_queue' : i \in DOMAIN sched_queue \/ i = Len(sched_queue) + 1
      BY <1>2
    <3> QED  BY <1>2, <3>1, <3>2 DEF SchedulerInv, QueueInv
  <2>3. \A u \in Workers : u \in Queued' <=>
           worker'[u] \in Inserted /\ u \notin freed' /\ u \notin Moving
    BY <1>1, <1>2, <1>3 DEF SchedulerInv, QueueInv, Inserted
  <2> QED  BY <2>1, <2>2, <2>3 DEF QueueInv
<1>8. LifeInv'
  <2>1. Leaving' = Leaving  BY <1>1 DEF Leaving
  <2> QED  BY <1>1, <2>1 DEF SchedulerInv, LifeInv, Active, InHandler, Inserted
<1>9. CountInv'
  BY <1>1, RoomSame DEF Holding
<1>10. OrderInv'
  <2>1. \A u, v \in Workers : v \in passed'[u] => worker'[v] \in Inserted
    BY <1>1 DEF SchedulerInv, OrderInv, Inserted
  <2>2. ASSUME NEW i \in DOMAIN sched_queue', NEW j \in DOMAIN sched_queue', i < j,
               sched_queue'[i] \in passed'[sched_queue'[j]]
        PROVE  i = 1 /\ sched_queue'[1] = currentThread' /\ ~InHandler(Moved)
    <3>1. j # Len(sched_queue) + 1  BY <1>1, <1>2, <2>2
    <3>2. i \in DOMAIN sched_queue /\ j \in DOMAIN sched_queue  BY <1>2, <2>2, <3>1
    <3>3. sched_queue[j] \in Workers \ {w}
      BY <1>2, <1>3, <3>2, ElementOfSeq DEF Queued, SchedulerInv, TypeOK
    <3>4. sched_queue[i] \in passed[sched_queue[j]]  BY <1>1, <1>2, <2>2, <3>2, <3>3
    <3> QED  BY <1>1, <1>2, <2>2, <3>2, <3>4 DEF SchedulerInv, OrderInv
  <2>3. currentThread' # NoWorker => passed'[currentThread'] = {}
    BY <1>1 DEF SchedulerInv, OrderInv, TypeOK
  <2> QED  BY <1>1, <2>1, <2>2, <2>3 DEF OrderInv, InHandler
<1> QED
  BY <1>4, <1>5, <1>6, <1>7, <1>8, <1>9, <1>10 DEF SchedulerInv

LEMMA TickInv ==
    ASSUME Timely, SchedulerInv, TypeOK', NEW h \in Hosts, Tick(h)
    PROVE  SchedulerInv'
<1>1. /\ \A g \in Hosts : handler[g] = "none"
      /\ \A g \in Hosts \ {h} : handler'[g] = "none"
      /\ handler'[h] = "size" /\ sched # "wait"
      /\ UNCHANGED <<requested, sched, info, quanta, currentThread, completed, quit,
                     freed, ran, worker, suspended, pending, sched_queue, queue_sem, passed>>
  BY TickAlone DEF Tick, process
<1>2. HandlerAlone' /\ QuitInv' /\ HandlerInv'
  BY <1>1 DEF SchedulerInv, HandlerAlone, QuitInv, HandlerInv, InHandler, Charged
<1>3. HeadInv'
  BY <1>1 DEF SchedulerInv, HeadInv, InHandler, Moved
<1>4. QueueInv'
  <2>1. Moving = {} /\ Moving' = {}  BY <1>1 DEF Moving
  <2>2. Queued' = Queued  BY <1>1 DEF Queued
  <2> QED  BY <1>1, <2>1, <2>2 DEF SchedulerInv, QueueInv
<1>5. LifeInv'
  <2>1. Leaving = {} /\ Leaving' = {}  BY <1>1 DEF Leaving
  <2> QED  BY <1>1, <2>1 DEF SchedulerInv, LifeInv, Active, InHandler, Charged
<1>6. CountInv'  BY <1>1, RoomSame
<1>7. OrderInv'
  BY <1>1 DEF SchedulerInv, OrderInv, InHandler, Moved
<1> QED
  BY <1>2, <1>3, <1>4, <1>5, <1>6, <1>7 DEF SchedulerInv

-----------------------------------------------------------------------------
(* The steps of timer_handler.                                             *)

LEMMA HandlerEmptyInv ==
    ASSUME SchedulerInv, TypeOK', NEW h \in Hosts, HandlerEmpty(h)
    PROVE  SchedulerInv'
<1>1. /\ handler[h] = "size" /\ handler'[h] = "none"
      /\ \A g \in Hosts \ {h} : handler[g] = "none" /\ handler'[g] = "none"
      /\ HandlerAlone' /\ sched # "wait"
  BY HandlerStep DEF HandlerEmpty, Return, HandlerAt
<1>2. /\ UNCHANGED <<requested, sched, info, quanta, currentThread, completed,
                     freed, ran, worker, suspended, pending, sched_queue, queue_sem, passed>>
      /\ sched_queue = <<>> /\ quit'
  BY DEF HandlerEmpty, HandlerGoto, process
<1>3. completed = thread_count
  BY <1>1, <1>2 DEF SchedulerInv, HeadInv, InHandler, Moved
<1>4. QuitInv' /\ HandlerInv'
  BY <1>1, <1>2, <1>3 DEF SchedulerInv, QuitInv, HandlerInv, InHandler, Charged
<1>5. HeadInv'
  BY <1>1, <1>2, <1>3 DEF SchedulerInv, HeadInv, InHandler, Moved
<1>6. QueueInv'
  <2>1. Moving = {} /\ Moving' = {}  BY <1>1 DEF Moving
  <2>2. Queued' = Queued  BY <1>2 DEF Queued
  <2> QED  BY <1>2, <2>1, <2>2 DEF SchedulerInv, QueueInv
<1>7. LifeInv'
  <2>1. Leaving = {} /\ Leaving' = {}  BY <1>1 DEF Leaving
  <2> QED  BY <1>1, <1>2, <2>1 DEF SchedulerInv, LifeInv, Active, InHandler, Charged
<1>8. CountInv'  BY <1>2, RoomSame
<1>9. OrderInv'
  BY <1>1, <1>2 DEF SchedulerInv, OrderInv, InHandler, Moved
<1> QED
  BY <1>1, <1>4, <1>5, <1>6, <1>7, <1>8, <1>9 DEF SchedulerInv

LEMMA HandlerSizeInv ==
    ASSUME SchedulerInv, TypeOK', NEW h \in Hosts, HandlerSize(h)
    PROVE  SchedulerInv'
<1>1. /\ handler[h] = "size"
      /\ handler'[h] = IF currentThread = NoWorker THEN "next" ELSE "suspend"
      /\ \A g \in Hosts \ {h} : handler[g] = "none" /\ handler'[g] = "none"
      /\ HandlerAlone' /\ sched # "wait"
  BY HandlerStep DEF HandlerSize, HandlerAt
<1>2. /\ UNCHANGED <<requested, sched, quanta, currentThread, completed, quit,
                     freed, ran, worker, suspended, pending, sched_queue, queue_sem, passed>>
      /\ info'[h] = currentThread
  BY DEF HandlerSize, HandlerGoto, process, SchedulerInv, TypeOK
<1>3. QuitInv' /\ HandlerInv'
  BY <1>1, <1>2 DEF SchedulerInv, QuitInv, HandlerInv, InHandler, Charged
<1>4. HeadInv'
  BY <1>1, <1>2 DEF SchedulerInv, HeadInv, InHandler, Moved
<1>5. QueueInv'
  <2>1. Moving = {} /\ Moving' = {}  BY <1>1 DEF Moving
  <2>2. Queued' = Queued  BY <1>2 DEF Queued
  <2> QED  BY <1>2, <2>1, <2>2 DEF SchedulerInv, QueueInv
<1>6. LifeInv'
  <2>1. Leaving = {} /\ Leaving' = {}  BY <1>1 DEF Leaving
  <2>2. \A w \in Workers : Active(w) <=> (w = currentThread /\ \A g \in Hosts : handler'[g] \notin Charged)
    BY <1>1, SchedulerAssumption DEF Active, InHandler, Charged
  <2> QED  BY <1>2, <2>1, <2>2 DEF SchedulerInv, LifeInv, Active, InHandler
<1>7. CountInv'  BY <1>2, RoomSame
<1>8. OrderInv'
  <2>1. currentThread # NoWorker => handler'[h] = "suspend"  BY <1>1
  <2>2. \A i, j \in DOMAIN sched_queue :
          i < j /\ sched_queue[i] \in passed[sched_queue[j]] =>
             i = 1 /\ sched_queue[1] = currentThread /\ currentThread # NoWorker
    <3>1. \A i \in DOMAIN sched_queue : sched_queue[i] # NoWorker
      BY ElementOfSeq, LenProperties, SchedulerAssumption DEF SchedulerInv, TypeOK
    <3> QED  BY <3>1 DEF SchedulerInv, OrderInv
  <2> QED  BY <1>1, <1>2, <2>1, <2>2 DEF SchedulerInv, OrderInv, InHandler, Moved
<1> QED
  BY <1>1, <1>3, <1>4, <1>5, <1>6, <1>7, <1>8 DEF SchedulerInv

LEMMA HandlerSuspendInv ==
    ASSUME SchedulerInv, TypeOK', NEW h \in Hosts, HandlerSuspend(h)
    PROVE  SchedulerInv'
<1> DEFINE c == currentThread
<1>1. /\ handler[h] = "suspend" /\ handler'[h] = "remove"
      /\ \A g \in Hosts \ {h} : handler[g] = "none" /\ handler'[g] = "none"
      /\ HandlerAlone' /\ sched # "wait"
  BY HandlerStep DEF HandlerSuspend, Return, HandlerAt
<1>2. /\ info[h] = c /\ c \in Workers /\ c # NoWorker
      /\ sched_queue # <<>> /\ sched_queue[1] = c
      /\ worker[c] \in Inserted /\ quanta[c] > 0
  BY <1>1, HandlerHead, SchedulerAssumption
  DEF SchedulerInv, HandlerInv, InHandler, Charged
<1>3. /\ UNCHANGED <<requested, sched, info, currentThread, completed, quit,
                     freed, ran, worker, suspended, sched_queue, queue_sem, passed>>
      /\ \A w \in Workers \ {c} : quanta'[w] = quanta[w] /\ pending'[w] = pending[w]
      /\ quanta'[c] = quanta[c] - 1 /\ quanta[c] - 1 # 0
      /\ pending'[c] = pending[c] \cup {"USR1"}
  BY <1>2 DEF HandlerSuspend, HandlerGoto, LastQuantum, Send, process, SchedulerInv, TypeOK
<1>4. quanta[c] \in 0..requested[c] /\ requested[c] \in Nat
  BY <1>2, SchedulerAssumption DEF SchedulerInv, LifeInv, TypeOK
<1>5. quanta'[c] > 0 /\ quanta'[c] \in 0..requested[c]
  BY ONLY <1>2, <1>3, <1>4
<1>6. QuitInv' /\ HandlerInv'
  BY <1>1, <1>2, <1>3, <1>5 DEF SchedulerInv, QuitInv, HandlerInv, InHandler, Charged
<1>7. HeadInv'
  BY <1>1, <1>2, <1>3 DEF SchedulerInv, HeadInv
<1>8. QueueInv'
  <2>1. Moving = {} /\ Moving' = {}  BY <1>1 DEF Moving
  <2>2. Queued' = Queued  BY <1>3 DEF Queued
  <2> QED  BY <1>3, <2>1, <2>2 DEF SchedulerInv, QueueInv
<1>9. LifeInv'
  <2>1. Leaving = {} /\ Leaving' = {}  BY <1>1 DEF Leaving
  <2>2. InHandler(Charged)' /\ ~InHandler(Charged)  BY <1>1 DEF InHandler, Charged
  <2>3. ran'[c] = requested'[c] - quanta'[c]
    <3>1. ran[c] = requested[c] - quanta[c] + 1
      BY <1>2, <2>2 DEF SchedulerInv, LifeInv, Active
    <3> QED  BY <1>3, <1>4, <3>1
  <2>4. c \notin freed /\ (worker[c] \in {"cancel", "dead"} => FALSE) /\ "TERM" \notin pending[c]
    BY <1>2, <2>1, <1>4 DEF SchedulerInv, LifeInv
  <2>5. \A w \in Workers \ {c} : ran[w] = requested[w] - quanta[w] + 0
    BY DEF SchedulerInv, LifeInv, Active
  <2>6. \A w \in Workers : ~(w = currentThread' /\ ~(\E g \in Hosts : handler'[g] \in Charged))
    BY <1>1 DEF Charged
  <2>7. \A w \in Workers \ {c} :
        /\ quanta'[w] \in 0..requested'[w]
        /\ worker'[w] \notin Inserted => quanta'[w] = requested'[w] /\ pending'[w] = {}
        /\ w \in freed' <=> quanta'[w] = 0 /\ w \notin Leaving'
        /\ "TERM" \in pending'[w] \/ worker'[w] \in {"cancel", "dead"} => quanta'[w] = 0
    BY <1>3, <2>1 DEF SchedulerInv, LifeInv
  <2>8. /\ quanta'[c] \in 0..requested'[c]
        /\ worker'[c] \notin Inserted => quanta'[c] = requested'[c] /\ pending'[c] = {}
        /\ c \in freed' <=> quanta'[c] = 0 /\ c \notin Leaving'
        /\ "TERM" \in pending'[c] \/ worker'[c] \in {"cancel", "dead"} => quanta'[c] = 0
    BY <1>2, <1>3, <1>5, <2>1, <2>4
  <2>9. \A w \in Workers : ran'[w] = requested'[w] - quanta'[w] + 0
    BY <1>3, <1>4, <1>5, <2>3, <2>5
  <2> QED  BY <2>6, <2>7, <2>8, <2>9 DEF LifeInv, Active, InHandler
<1>10. CountInv'
  <2>1. Cancelled' = Cancelled  BY <1>2, <1>3, <1>5 DEF Cancelled
  <2> QED  BY <1>3, <2>1 DEF SchedulerInv, CountInv, AtLabels
<1>11. OrderInv'
  BY <1>1, <1>2, <1>3 DEF SchedulerInv, OrderInv, InHandler, Moved
<1> QED
  BY <1>1, <1>6, <1>7, <1>8, <1>9, <1>10, <1>11 DEF SchedulerInv

LEMMA HandlerRemoveInv ==
    ASSUME SchedulerInv, TypeOK', NEW h \in Hosts, HandlerRemove(h)
    PROVE  SchedulerInv'
<1> DEFINE c == currentThread
<1>1. /\ handler[h] = "remove" /\ handler'[h] = "insert"
      /\ \A g \in Hosts \ {h} : handler[g] = "none" /\ handler'[g] = "none"
      /\ HandlerAlone' /\ sched # "wait"
  BY HandlerStep DEF HandlerRemove, Return, HandlerAt
<1>2. /\ info[h] = c /\ c \in Workers /\ c # NoWorker
      /\ sched_queue # <<>> /\ sched_queue[1] = c
      /\ worker[c] \in Inserted /\ quanta[c] > 0
  BY <1>1, HandlerHead, SchedulerAssumption
  DEF SchedulerInv, HandlerInv, InHandler, Charged
<1>3. /\ UNCHANGED <<requested, sched, info, quanta, currentThread, completed, quit,
                     freed, ran, worker, suspended, pending, queue_sem, passed>>
      /\ sched_queue' = Without(c)
  BY <1>2 DEF HandlerRemove, HandlerGoto, process
<1>4. /\ DOMAIN sched_queue = 1..Len(sched_queue) /\ Len(sched_queue) \in Nat \ {0}
      /\ DOMAIN sched_queue' = 1..(Len(sched_queue) - 1)
      /\ \A i \in 1..(Len(sched_queue) - 1) : sched_queue'[i] = sched_queue[i + 1]
      /\ Queued' = Queued \ {c}
  BY <1>2, <1>3, QueueRemove DEF SchedulerInv, TypeOK, QueueInv
<1>5. \A i \in DOMAIN sched_queue' :
         i \in Nat /\ i + 1 \in DOMAIN sched_queue /\ sched_queue'[i] = sched_queue[i + 1]
  BY <1>4
<1>6. QuitInv' /\ HandlerInv'
  BY <1>1, <1>2, <1>3 DEF SchedulerInv, QuitInv, HandlerInv, InHandler, Charged
<1>7. HeadInv'
  BY <1>1, <1>2, <1>3 DEF HeadInv, InHandler, Moved
<1>8. QueueInv'
  <2>1. Moving = {} /\ Moving' = {c}  BY <1>1, <1>2, <1>3 DEF Moving
  <2>2. \A i, j \in DOMAIN sched_queue' : sched_queue'[i] = sched_queue'[j] => i = j
    <3> TAKE i, j \in DOMAIN sched_queue'
    <3> HAVE sched_queue'[i] = sched_queue'[j]
    <3>1. i + 1 = j + 1  BY <1>5 DEF SchedulerInv, QueueInv
    <3> QED  BY <1>5, <3>1
  <2> QED  BY <1>3, <1>4, <2>1, <2>2 DEF SchedulerInv, QueueInv
<1>9. LifeInv'
  <2>1. Leaving = {} /\ Leaving' = {}  BY <1>1 DEF Leaving
  <2> QED  BY <1>1, <1>3, <2>1 DEF SchedulerInv, LifeInv, Active, InHandler, Charged
<1>10. CountInv'  BY <1>3, RoomSame
<1>11. OrderInv'
  <2>1. ASSUME NEW i \in DOMAIN sched_queue', NEW j \in DOMAIN sched_queue', i < j,
               sched_queue'[i] \in passed'[sched_queue'[j]]
        PROVE  FALSE
    <3>1. sched_queue[i + 1] \in passed[sched_queue[j + 1]]  BY <1>3, <1>5, <2>1
    <3>2. i + 1 < j + 1 /\ i + 1 # 1
      <4>1. i \in Nat /\ j \in Nat /\ i # 0  BY <1>4, <1>5
      <4> QED  BY <2>1, <4>1
    <3> QED  BY <1>5, <3>1, <3>2 DEF SchedulerInv, OrderInv
  <2> QED  BY <1>3, <2>1 DEF SchedulerInv, OrderInv
<1> QED
  BY <1>1, <1>6, <1>7, <1>8, <1>9, <1>10, <1>11 DEF SchedulerInv

LEMMA HandlerInsertInv ==
    ASSUME SchedulerInv, TypeOK', NEW h \in Hosts, HandlerInsert(h)
    PROVE  SchedulerInv'
<1> DEFINE c == currentThread
<1>1. /\ handler[h] = "insert" /\ handler'[h] = "next"
      /\ \A g \in Hosts \ {h} : handler[g] = "none" /\ handler'[g] = "none"
      /\ HandlerAlone' /\ sched # "wait"
  BY HandlerStep DEF HandlerInsert, Return, HandlerAt
<1>2. /\ info[h] = c /\ c \in Workers /\ c # NoWorker
      /\ worker[c] \in Inserted /\ quanta[c] > 0
  BY <1>1, SchedulerAssumption DEF SchedulerInv, HandlerInv, TypeOK
<1>3. /\ UNCHANGED <<requested, sched, info, quanta, currentThread, completed, quit,
                     freed, ran, worker, suspended, pending, queue_sem, passed>>
      /\ sched_queue' = Append(sched_queue, c)
  BY <1>2 DEF HandlerInsert, InsertTail, HandlerGoto, process
<1>4. /\ DOMAIN sched_queue = 1..Len(sched_queue) /\ Len(sched_queue) \in Nat
      /\ DOMAIN sched_queue' = 1..(Len(sched_queue) + 1)
      /\ \A i \in 1..Len(sched_queue) : sched_queue'[i] = sched_queue[i]
      /\ sched_queue'[Len(sched_queue) + 1] = c
      /\ Queued' = Queued \cup {c}
  BY <1>2, <1>3, QueueAppend DEF SchedulerInv, TypeOK
<1>5. /\ Moving = {c} /\ Moving' = {} /\ c \notin Queued /\ c \notin freed
      /\ Leaving = {} /\ Leaving' = {}
  <2>1. Moving = {c} /\ Moving' = {} /\ Leaving = {} /\ Leaving' = {}
    BY <1>1, <1>2 DEF Moving, Leaving
  <2>2. c \notin Queued  BY <1>2, <2>1 DEF SchedulerInv, QueueInv
  <2>3. c \notin freed  BY <1>2 DEF SchedulerInv, LifeInv
  <2> QED  BY <2>1, <2>2, <2>3
<1>6. QuitInv' /\ HandlerInv'
  BY <1>1, <1>2, <1>3 DEF SchedulerInv, QuitInv, HandlerInv, InHandler, Charged
<1>7. HeadInv'
  BY <1>1, <1>2, <1>3 DEF HeadInv, InHandler, Moved
<1>8. QueueInv'
  <2>1. \A i, j \in DOMAIN sched_queue' : sched_queue'[i] = sched_queue'[j] => i = j
    <3>1. \A i \in DOMAIN sched_queue : sched_queue[i] # c  BY <1>5 DEF Queued
    <3>2. \A i \in DOMAIN sched_queue' : i \in DOMAIN sched_queue \/ i = Len(sched_queue) + 1
      BY <1>4
    <3> QED  BY <1>4, <3>1, <3>2 DEF SchedulerInv, QueueInv
  <2> QED  BY <1>2, <1>3, <1>4, <1>5, <2>1 DEF SchedulerInv, QueueInv
<1>9. LifeInv'
  BY <1>1, <1>3, <1>5 DEF SchedulerInv, LifeInv, Active, InHandler, Charged
<1>10. CountInv'  BY <1>3, RoomSame
<1>11. OrderInv'
  <2>1. ASSUME NEW i \in DOMAIN sched_queue', NEW j \in DOMAIN sched_queue', i < j,
               sched_queue'[i] \in passed'[sched_queue'[j]]
        PROVE  FALSE
    <3>1. passed[c] = {}  BY <1>2 DEF SchedulerInv, OrderInv
    <3>2. j # Len(sched_queue) + 1  BY <1>3, <1>4, <2>1, <3>1
    <3>3. i \in DOMAIN sched_queue /\ j \in DOMAIN sched_queue  BY <1>4, <2>1, <3>2
    <3>4. sched_queue[i] \in passed[sched_queue[j]]  BY <1>3, <1>4, <2>1, <3>3
    <3> QED  BY <1>1, <2>1, <3>3, <3>4 DEF SchedulerInv, OrderInv, InHandler, Moved
  <2> QED  BY <1>3, <2>1 DEF SchedulerInv, OrderInv
<1> QED
  BY <1>1, <1>6, <1>7, <1>8, <1>9, <1>10, <1>11 DEF SchedulerInv

\* A worker that is not yet cancelled is not counted as completed.
LEMMA CancelledGrows ==
    ASSUME SchedulerInv, NEW c \in Workers, c \notin Cancelled
    PROVE  /\ completed < thread_count
           /\ Cardinality(Cancelled \cup {c}) = completed + 1
<1>1. Cancelled \in SUBSET Workers  BY DEF Cancelled
<1>2. IsFiniteSet(Cancelled)  BY <1>1, SchedulerAssumption, FS_Subset
<1>3. Cardinality(Cancelled \cup {c}) = completed + 1
  BY <1>2, FS_AddElement DEF SchedulerInv, CountInv
<1>4. Cancelled \cup {c} \in SUBSET Workers  BY <1>1
<1>5. Cardinality(Cancelled \cup {c}) <= thread_count /\ thread_count \in Nat
  BY <1>4, SchedulerAssumption, FS_Subset, FS_CardinalityType DEF thread_count
<1>6. completed \in Nat  BY DEF SchedulerInv, TypeOK
<1> QED  BY <1>3, <1>5, <1>6

LEMMA HandlerCancelInv ==
    ASSUME SchedulerInv, TypeOK', NEW h \in Hosts, HandlerCancel(h)
    PROVE  SchedulerInv'
<1> DEFINE c == currentThread
<1>1. /\ handler[h] = "suspend" /\ handler'[h] = "leave"
      /\ \A g \in Hosts \ {h} : handler[g] = "none" /\ handler'[g] = "none"
      /\ HandlerAlone' /\ sched # "wait"
  BY HandlerStep DEF HandlerCancel, Return, HandlerAt
<1>2. /\ info[h] = c /\ c \in Workers /\ c # NoWorker
      /\ sched_queue # <<>> /\ sched_queue[1] = c
      /\ worker[c] \in Inserted /\ quanta[c] > 0
  BY <1>1, HandlerHead, SchedulerAssumption
  DEF SchedulerInv, HandlerInv, InHandler, Charged
<1>3. /\ UNCHANGED <<requested, sched, info, currentThread, quit,
                     freed, ran, worker, suspended, sched_queue, queue_sem, passed>>
      /\ \A w \in Workers \ {c} : quanta'[w] = quanta[w] /\ pending'[w] = pending[w]
      /\ quanta'[c] = quanta[c] - 1 /\ quanta[c] - 1 = 0
      /\ completed' = completed + 1
  BY <1>2 DEF HandlerCancel, HandlerGoto, LastQuantum, Send, process, SchedulerInv, TypeOK
<1>4. quanta[c] \in 0..requested[c] /\ requested[c] \in Nat /\ quanta[c] = 1 /\ quanta'[c] = 0
  <2>1. quanta[c] \in 0..requested[c] /\ requested[c] \in Nat
    BY <1>2, SchedulerAssumption DEF SchedulerInv, LifeInv, TypeOK
  <2> QED  BY <1>3, <2>1
<1>5. c \notin Cancelled /\ Cancelled' = Cancelled \cup {c}
  BY <1>2, <1>3, <1>4 DEF Cancelled
<1>6. CountInv'
  BY <1>2, <1>3, <1>5, CancelledGrows DEF SchedulerInv, CountInv, AtLabels
<1>7. QuitInv'
  <2>1. completed # thread_count
    <3>1. completed < thread_count /\ completed \in Nat
      BY <1>2, <1>5, CancelledGrows DEF SchedulerInv, TypeOK
    <3>2. thread_count \in Nat  BY SchedulerAssumption, FS_CardinalityType DEF thread_count
    <3> QED  BY <3>1, <3>2
  <2> QED  BY <1>3, <2>1 DEF SchedulerInv, QuitInv
<1>8. HandlerInv'
  BY <1>1, <1>2, <1>3, <1>4 DEF SchedulerInv, HandlerInv, InHandler, Charged
<1>9. HeadInv'
  BY <1>1, <1>2, <1>3 DEF HeadInv
<1>10. QueueInv'
  <2>1. Moving = {} /\ Moving' = {}  BY <1>1 DEF Moving
  <2>2. Queued' = Queued  BY <1>3 DEF Queued
  <2> QED  BY <1>3, <2>1, <2>2 DEF SchedulerInv, QueueInv
<1>11. LifeInv'
  <2>1. Leaving = {} /\ Leaving' = {c}  BY <1>1, <1>2, <1>3 DEF Leaving
  <2>2. InHandler(Charged)' /\ ~InHandler(Charged)  BY <1>1 DEF InHandler, Charged
  <2>3. ran'[c] = requested'[c] - quanta'[c]
    <3>1. ran[c] = requested[c] - quanta[c] + 1
      BY <1>2, <2>2 DEF SchedulerInv, LifeInv, Active
    <3> QED  BY <1>3, <1>4, <3>1
  <2>4. c \notin freed  BY <1>2, <1>4 DEF SchedulerInv, LifeInv
  <2>5. \A w \in Workers \ {c} : ran[w] = requested[w] - quanta[w] + 0
    BY DEF SchedulerInv, LifeInv, Active
  <2>6. \A w \in Workers : ~(w = currentThread' /\ ~(\E g \in Hosts : handler'[g] \in Charged))
    BY <1>1 DEF Charged
  <2>7. \A w \in Workers \ {c} :
        /\ quanta'[w] \in 0..requested'[w]
        /\ worker'[w] \notin Inserted => quanta'[w] = requested'[w] /\ pending'[w] = {}
        /\ w \in freed' <=> quanta'[w] = 0 /\ w \notin Leaving'
        /\ "TERM" \in pending'[w] \/ worker'[w] \in {"cancel", "dead"} => quanta'[w] = 0
    BY <1>3, <2>1 DEF SchedulerInv, LifeInv
  <2>8. /\ quanta'[c] \in 0..requested'[c]
        /\ worker'[c] \notin Inserted => quanta'[c] = requested'[c] /\ pending'[c] = {}
        /\ c \in freed' <=> quanta'[c] = 0 /\ c \notin Leaving'
        /\ "TERM" \in pending'[c] \/ worker'[c] \in {"cancel", "dead"} => quanta'[c] = 0
    BY <1>2, <1>3, <1>4, <2>1, <2>4
  <2>9. \A w \in Workers : ran'[w] = requested'[w] - quanta'[w] + 0
    BY <1>3, <1>4, <2>3, <2>5
  <2> QED  BY <2>6, <2>7, <2>8, <2>9 DEF LifeInv, Active, InHandler
<1>12. OrderInv'
  BY <1>1, <1>2, <1>3 DEF SchedulerInv, OrderInv, InHandler, Moved
<1> QED
  BY <1>1, <1>6, <1>7, <1>8, <1>9, <1>10, <1>11, <1>12 DEF SchedulerInv

LEMMA HandlerLeaveInv ==
    ASSUME SchedulerInv, TypeOK', NEW h \in Hosts, HandlerLeave(h)
    PROVE  SchedulerInv'
<1> DEFINE c == currentThread
<1>1. /\ handler[h] = "leave" /\ handler'[h] = "next"
      /\ \A g \in Hosts \ {h} : handler[g] = "none" /\ handler'[g] = "none"
      /\ HandlerAlone' /\ sched # "wait"
  BY HandlerStep DEF HandlerLeave, Return, HandlerAt
<1>2. /\ info[h] = c /\ c \in Workers /\ c # NoWorker
      /\ sched_queue # <<>> /\ sched_queue[1] = c
      /\ worker[c] \in Inserted /\ quanta[c] = 0
  BY <1>1, HandlerHead, SchedulerAssumption
  DEF SchedulerInv, HandlerInv, InHandler, Charged
<1>3. /\ UNCHANGED <<requested, sched, info, quanta, currentThread, completed, quit,
                     ran, worker, suspended, pending, queue_sem, passed>>
      /\ sched_queue' = Without(c) /\ freed' = freed \cup {c}
  BY <1>2 DEF HandlerLeave, HandlerGoto, process
<1>4. /\ DOMAIN sched_queue = 1..Len(sched_queue) /\ Len(sched_queue) \in Nat \ {0}
      /\ DOMAIN sched_queue' = 1..(Len(sched_queue) - 1)
      /\ \A i \in 1..(Len(sched_queue) - 1) : sched_queue'[i] = sched_queue[i + 1]
      /\ Queued' = Queued \ {c}
  BY <1>2, <1>3, QueueRemove DEF SchedulerInv, TypeOK, QueueInv
<1>5. \A i \in DOMAIN sched_queue' :
         i \in Nat /\ i + 1 \in DOMAIN sched_queue /\ sched_queue'[i] = sched_queue[i + 1]
  BY <1>4
<1>6. QuitInv' /\ HandlerInv'
  BY <1>1, <1>2, <1>3 DEF SchedulerInv, QuitInv, HandlerInv, InHandler, Charged
<1>7. HeadInv'
  BY <1>1, <1>2, <1>3 DEF HeadInv, InHandler, Moved
<1>8. QueueInv'
  <2>1. Moving = {} /\ Moving' = {}  BY <1>1 DEF Moving
  <2>2. \A i, j \in DOMAIN sched_queue' : sched_queue'[i] = sched_queue'[j] => i = j
    <3> TAKE i, j \in DOMAIN sched_queue'
    <3> HAVE sched_queue'[i] = sched_queue'[j]
    <3>1. i + 1 = j + 1  BY <1>5 DEF SchedulerInv, QueueInv
    <3> QED  BY <1>5, <3>1
  <2> QED  BY <1>3, <1>4, <2>1, <2>2 DEF SchedulerInv, QueueInv
<1>9. LifeInv'
  <2>1. Leaving = {c} /\ Leaving' = {}  BY <1>1, <1>2 DEF Leaving
  <2> QED  BY <1>1, <1>2, <1>3, <2>1 DEF SchedulerInv, LifeInv, Active, InHandler, Charged
<1>10. CountInv'  BY <1>3, RoomSame
<1>11. OrderInv'
  <2>1. ASSUME NEW i \in DOMAIN sched_queue', NEW j \in DOMAIN sched_queue', i < j,
               sched_queue'[i] \in passed'[sched_queue'[j]]
        PROVE  FALSE
    <3>1. sched_queue[i + 1] \in passed[sched_queue[j + 1]]  BY <1>3, <1>5, <2>1
    <3>2. i + 1 < j + 1 /\ i + 1 # 1
      <4>1. i \in Nat /\ j \in Nat /\ i # 0  BY <1>4, <1>5
      <4> QED  BY <2>1, <4>1
    <3> QED  BY <1>5, <3>1, <3>2 DEF SchedulerInv, OrderInv
  <2> QED  BY <1>3, <2>1 DEF SchedulerInv, OrderInv
<1> QED
  BY <1>1, <1>6, <1>7, <1>8, <1>9, <1>10, <1>11 DEF SchedulerInv

LEMMA HandlerNextInv ==
    ASSUME SchedulerInv, TypeOK', NEW h \in Hosts, HandlerNext(h)
    PROVE  SchedulerInv'
<1>1. /\ handler[h] = "next" /\ handler'[h] = "resume"
      /\ \A g \in Hosts \ {h} : handler[g] = "none" /\ handler'[g] = "none"
      /\ HandlerAlone' /\ sched # "wait"
  BY HandlerStep DEF HandlerNext, Return, HandlerAt
<1>2. UNCHANGED <<requested, sched, quanta, currentThread, completed, quit, freed,
                  ran, worker, suspended, pending, sched_queue, queue_sem, passed>>
  BY DEF HandlerNext, HandlerGoto, process
<1>3. /\ Moving = {} /\ Moving' = {} /\ Leaving = {} /\ Leaving' = {}
      /\ Queued' = Queued
  BY <1>1, <1>2 DEF Moving, Leaving, Queued
<1>4. \/ info'[h] = NoWorker /\ completed = thread_count
      \/ /\ sched_queue # <<>> /\ info'[h] = sched_queue[1]
         /\ quanta[info'[h]] > 0
  <2>1. CASE completed >= thread_count
    <3>1. info'[h] = NoWorker  BY <2>1 DEF HandlerNext, SchedulerInv, TypeOK
    <3>2. Cancelled \in SUBSET Workers  BY DEF Cancelled
    <3>3. completed <= thread_count /\ thread_count \in Nat
      BY <3>2, SchedulerAssumption, FS_Subset, FS_CardinalityType
      DEF thread_count, SchedulerInv, CountInv
    <3>4. completed = thread_count  BY <2>1, <3>3 DEF SchedulerInv, TypeOK
    <3> QED  BY <3>1, <3>4
  <2>2. CASE ~(completed >= thread_count)
    <3>1. sched_queue # <<>> /\ info'[h] = Head(sched_queue)
      BY <2>2 DEF HandlerNext, SchedulerInv, TypeOK
    <3>2. Len(sched_queue) \in Nat \ {0} /\ DOMAIN sched_queue = 1..Len(sched_queue)
      BY <3>1, EmptySeq, LenProperties DEF SchedulerInv, TypeOK
    <3>3. info'[h] = sched_queue[1] /\ sched_queue[1] \in Workers /\ sched_queue[1] \in Queued
      <4>1. sched_queue \in Seq(Workers)  BY DEF SchedulerInv, TypeOK
      <4>2. Head(sched_queue) = sched_queue[1]  BY <3>1, <4>1, HeadTailProperties
      <4>3. sched_queue[1] \in Workers  BY <3>2, <4>1, ElementOfSeq
      <4> QED  BY <3>1, <3>2, <4>2, <4>3 DEF Queued
    <3>4. sched_queue[1] \notin freed  BY <3>3 DEF SchedulerInv, QueueInv
    <3>5. /\ quanta[sched_queue[1]] # 0
          /\ quanta[sched_queue[1]] \in 0..requested[sched_queue[1]]
          /\ requested[sched_queue[1]] \in Nat
      BY <1>3, <3>3, <3>4, SchedulerAssumption DEF SchedulerInv, LifeInv, TypeOK
    <3> QED  BY <3>1, <3>3, <3>5
  <2> QED  BY <2>1, <2>2
<1>5. QuitInv' /\ HandlerInv'
  BY <1>1, <1>2, <1>4 DEF SchedulerInv, QuitInv, HandlerInv, InHandler, Charged
<1>6. HeadInv'
  BY <1>1, <1>2 DEF HeadInv, InHandler, Moved
<1>7. QueueInv'
  BY <1>2, <1>3 DEF SchedulerInv, QueueInv
<1>8. LifeInv'
  BY <1>1, <1>2, <1>3 DEF SchedulerInv, LifeInv, Active, InHandler, Charged
<1>9. CountInv'  BY <1>2, RoomSame
<1>10. OrderInv'
  BY <1>1, <1>2 DEF SchedulerInv, OrderInv, InHandler, Moved
<1> QED
  BY <1>1, <1>5, <1>6, <1>7, <1>8, <1>9, <1>10 DEF SchedulerInv

\* The worker that timer_handler is about to resume.
LEMMA ResumedHead ==
    ASSUME SchedulerInv, NEW h \in Hosts, HandlerResume(h)
    PROVE  /\ info[h] \in Workers /\ info[h] # NoWorker
           /\ sched_queue # <<>> /\ info[h] = sched_queue[1] /\ 1 \in DOMAIN sched_queue
           /\ quanta[info[h]] > 0
           /\ worker[info[h]] \in Inserted
<1>1. info[h] # NoWorker /\ info[h] \in Workers /\ handler[h] = "resume"
  BY DEF HandlerResume, Return, HandlerGoto, SchedulerInv, TypeOK
<1>2. /\ sched_queue # <<>> /\ info[h] = sched_queue[1]
      /\ quanta[info[h]] > 0
  BY <1>1 DEF SchedulerInv, HandlerInv
<1>3. 1 \in DOMAIN sched_queue
  BY <1>2, EmptySeq, LenProperties DEF SchedulerInv, TypeOK
<1>4. worker[info[h]] \in Inserted
  BY <1>1, <1>2, <1>3 DEF SchedulerInv, QueueInv, Queued
<1> QED  BY <1>1, <1>2, <1>3, <1>4

LEMMA HandlerResumeInv ==
    ASSUME SchedulerInv, TypeOK', NEW h \in Hosts, HandlerResume(h)
    PROVE  SchedulerInv'
<1> DEFINE next == info[h]
<1>1. /\ handler[h] = "resume" /\ handler'[h] = "none"
      /\ \A g \in Hosts \ {h} : handler[g] = "none" /\ handler'[g] = "none"
      /\ HandlerAlone' /\ sched # "wait"
  BY HandlerStep DEF HandlerResume, Return, HandlerAt
<1>2. /\ next \in Workers /\ next # NoWorker
      /\ sched_queue # <<>> /\ next = sched_queue[1] /\ 1 \in DOMAIN sched_queue
      /\ quanta[next] > 0 /\ worker[next] \in Inserted
  BY ResumedHead
<1>3. /\ UNCHANGED <<requested, sched, quanta, completed, quit, freed, worker,
                     suspended, sched_queue, queue_sem>>
      /\ currentThread' = next
      /\ ran'[next] = ran[next] + 1
      /\ \A w \in Workers \ {next} : ran'[w] = ran[w]
      /\ passed'[next] = {}
      /\ \A w \in Workers \ {next} : passed'[w] = passed[w] \cup {next}
      /\ pending'[next] = pending[next] \cup {"USR2"}
      /\ \A w \in Workers \ {next} : pending'[w] = pending[w]
  BY <1>2 DEF HandlerResume, Return, HandlerGoto, Send, process, SchedulerInv, TypeOK
<1>4. /\ Moving = {} /\ Moving' = {} /\ Leaving = {} /\ Leaving' = {}
      /\ Queued' = Queued
  BY <1>1, <1>3 DEF Moving, Leaving, Queued
<1>5. QuitInv' /\ HandlerInv'
  BY <1>1, <1>2, <1>3 DEF SchedulerInv, QuitInv, HandlerInv, InHandler, Charged
<1>6. HeadInv'
  BY <1>1, <1>2, <1>3 DEF HeadInv
<1>7. QueueInv'
  BY <1>3, <1>4 DEF SchedulerInv, QueueInv
<1>8. LifeInv'
  <2>1. \A w \in Workers : ran[w] = requested[w] - quanta[w] + 0
    BY <1>1 DEF SchedulerInv, LifeInv, Active, InHandler, Charged
  <2>2. \A w \in Workers : (w = currentThread' /\ ~(\E g \in Hosts : handler'[g] \in Charged)) <=> w = next
    BY <1>1, <1>3 DEF Charged
  <2>3. \A w \in Workers : requested[w] \in Int /\ quanta[w] \in Int
    <3>1. requested \in [Workers -> QuantaChoices] /\ quanta \in [Workers -> Int]
      BY DEF SchedulerInv, TypeOK
    <3>2. QuantaChoices \subseteq Int  BY SchedulerAssumption
    <3> QED  BY ONLY <3>1, <3>2
  <2>4. \A w \in Workers :
           ran'[w] = requested'[w] - quanta'[w] + (IF w = next THEN 1 ELSE 0)
    BY <1>3, <2>1, <2>3
  <2>5. \A w \in Workers :
        /\ quanta'[w] \in 0..requested'[w]
        /\ worker'[w] \notin Inserted => quanta'[w] = requested'[w] /\ pending'[w] = {}
        /\ w \in freed' <=> quanta'[w] = 0 /\ w \notin Leaving'
        /\ "TERM" \in pending'[w] \/ worker'[w] \in {"cancel", "dead"} => quanta'[w] = 0
    BY <1>2, <1>3, <1>4 DEF SchedulerInv, LifeInv
  <2> QED  BY <2>2, <2>4, <2>5 DEF LifeInv, Active, InHandler
<1>9. CountInv'  BY <1>3, RoomSame
<1>10. OrderInv'
  <2>1. \A v, w \in Workers : v \in passed'[w] => worker'[v] \in Inserted
    BY <1>2, <1>3 DEF SchedulerInv, OrderInv
  <2>2. ASSUME NEW i \in DOMAIN sched_queue, NEW j \in DOMAIN sched_queue, i < j,
               sched_queue[i] \in passed'[sched_queue[j]]
        PROVE  i = 1
    <3>1. sched_queue[j] \in Workers
      BY ElementOfSeq, LenProperties DEF SchedulerInv, TypeOK
    <3>2. sched_queue[i] \notin passed[sched_queue[j]]
      BY <1>1, <2>2 DEF SchedulerInv, OrderInv, InHandler, Moved
    <3>3. sched_queue[i] = next  BY <1>3, <2>2, <3>1, <3>2
    <3> QED  BY <1>2, <3>3 DEF SchedulerInv, QueueInv
  <2> QED  BY <1>1, <1>2, <1>3, <2>1, <2>2 DEF OrderInv, InHandler, Moved
<1> QED
  BY <1>1, <1>5, <1>6, <1>7, <1>8, <1>9, <1>10 DEF SchedulerInv

LEMMA HandlerQuitInv ==
    ASSUME SchedulerInv, TypeOK', NEW h \in Hosts, HandlerQuit(h)
    PROVE  SchedulerInv'
<1>1. /\ handler[h] = "resume" /\ handler'[h] = "none"
      /\ \A g \in Hosts \ {h} : handler[g] = "none" /\ handler'[g] = "none"
      /\ HandlerAlone' /\ sched # "wait"
  BY HandlerStep DEF HandlerQuit, Return, HandlerAt
<1>2. /\ UNCHANGED <<requested, sched, quanta, completed, freed, ran, worker,
                     suspended, pending, sched_queue, queue_sem, passed>>
      /\ currentThread' = NoWorker /\ quit'
  BY DEF HandlerQuit, Return, HandlerGoto, process
<1>3. completed = thread_count
  <2>1. info[h] = NoWorker  BY DEF HandlerQuit
  <2>2. sched_queue # <<>> => sched_queue[1] # NoWorker
    <3>1. sched_queue \in Seq(Workers)  BY DEF SchedulerInv, TypeOK
    <3>2. sched_queue # <<>> => 1 \in 1..Len(sched_queue)  BY <3>1, EmptySeq
    <3> QED  BY <3>1, <3>2, ElementOfSeq, SchedulerAssumption
  <2> QED  BY <1>1, <2>1, <2>2 DEF SchedulerInv, HandlerInv
<1>4. /\ Moving = {} /\ Moving' = {} /\ Leaving = {} /\ Leaving' = {}
      /\ Queued' = Queued
  BY <1>1, <1>2 DEF Moving, Leaving, Queued
<1>5. QuitInv' /\ HandlerInv'
  BY <1>1, <1>2, <1>3 DEF SchedulerInv, QuitInv, HandlerInv, InHandler
<1>6. HeadInv'
  BY <1>1, <1>2, <1>3 DEF HeadInv
<1>7. QueueInv'
  BY <1>2, <1>4 DEF SchedulerInv, QueueInv
<1>8. LifeInv'
  BY <1>1, <1>2, <1>4, SchedulerAssumption
  DEF SchedulerInv, LifeInv, Active, InHandler, Charged
<1>9. CountInv'  BY <1>2, RoomSame
<1>10. OrderInv'
  BY <1>1, <1>2 DEF SchedulerInv, OrderInv, InHandler, Moved
<1> QED
  BY <1>1, <1>5, <1>6, <1>7, <1>8, <1>9, <1>10 DEF SchedulerInv

LEMMA StepInv ==
    ASSUME Timely, SchedulerInv, [Next]_vars
    PROVE  SchedulerInv'
<1>1. CASE Next
  <2>1. TypeOK'  BY <1>1, TypeInv
  <2>2. CASE \E w \in Workers : Worker(w) \/ CreateWorker(w)
    BY <2>1, <2>2, WorkerQuiet, EnterInsertInv
  <2>3. CASE \E h \in Hosts : Tick(h)
    BY <2>1, <2>3, TickInv
  <2>4. CASE \E h \in Hosts : Handler(h)
    BY <2>1, <2>4, HandlerEmptyInv, HandlerSizeInv, HandlerSuspendInv, HandlerRemoveInv,
       HandlerInsertInv, HandlerCancelInv, HandlerLeaveInv, HandlerNextInv,
       HandlerResumeInv, HandlerQuitInv DEF Handler
  <2>5. CASE StartTimer \/ SchedulerDone \/ CleanUp \/ Terminated
    BY <2>1, <2>5, MainQuiet DEF Terminated
  <2> QED  BY <1>1, <2>2, <2>3, <2>4, <2>5 DEF Next
<1>2. CASE UNCHANGED vars
  <2>1. TypeOK'  BY <1>2 DEF SchedulerInv, TypeOK, vars, process
  <2> QED  BY <1>2, <2>1, MainQuiet
<1> QED  BY <1>1, <1>2

-----------------------------------------------------------------------------
(* Safety.                                                                 *)

\* The inductive invariant holds: queue, handler, counts and order together.
THEOREM Invariance == ASSUME Timely PROVE Spec => []SchedulerInv
<1>1. Init => SchedulerInv  BY InitInv
<1>2. SchedulerInv /\ [Next]_vars => SchedulerInv'  BY StepInv
<1> QED  BY <1>1, <1>2, PTL DEF Spec

\* Every variable keeps its type.
THEOREM TypeCorrect == ASSUME Timely PROVE Spec => []TypeOK
<1>1. SchedulerInv => TypeOK  BY DEF SchedulerInv
<1> QED  BY <1>1, Invariance, PTL

\* The queue lists the workers that are in the scheduler, each once, but for the one
\* the handler is moving to the tail.
THEOREM QueueIsExact == ASSUME Timely PROVE Spec => []QueueExact
<1>1. SchedulerInv => QueueExact
  <2> SUFFICES ASSUME SchedulerInv PROVE QueueExact  OBVIOUS
  <2>1. Len(sched_queue) \in Nat /\ DOMAIN sched_queue = 1..Len(sched_queue)
    BY LenProperties DEF SchedulerInv, TypeOK
  <2>2. Cardinality(Queued) = Len(sched_queue)
    <3>1. sched_queue \in Bijection(1..Len(sched_queue), Queued)
      BY <2>1 DEF SchedulerInv, TypeOK, QueueInv, Queued, Bijection, Injection, Surjection,
         IsInjective
    <3>2. ExistsBijection(1..Len(sched_queue), Queued)  BY <3>1 DEF ExistsBijection
    <3> QED  BY <2>1, <3>2, FS_CountingElements
  <2>3. InScheduler \ (Cancelled \cup Moving) \subseteq Queued
    BY DEF SchedulerInv, QueueInv, LifeInv, InScheduler, Cancelled, Inserted
  <2>4. Queued \ Cancelled \subseteq InScheduler \ Moving
    <3> SUFFICES ASSUME NEW w \in Queued \ Cancelled PROVE w \in InScheduler \ Moving
      OBVIOUS
    <3>1. w \in Workers  BY <2>1, ElementOfSeq DEF Queued, SchedulerInv, TypeOK
    <3>2. worker[w] \in Inserted /\ w \notin Moving  BY <3>1 DEF SchedulerInv, QueueInv
    <3>3. worker[w] \notin {"cancel", "dead"}  BY <3>1 DEF SchedulerInv, LifeInv, Cancelled
    <3> QED  BY <3>1, <3>2, <3>3 DEF InScheduler, Inserted
  <2> QED  BY <2>2, <2>3, <2>4 DEF QueueExact
<1> QED  BY <1>1, Invariance, PTL

\* The queue never holds more workers than queue_size, the one being moved included.
THEOREM QueueIsBounded == ASSUME Timely PROVE Spec => []QueueBounded
<1>1. SchedulerInv => QueueBounded
  <2> SUFFICES ASSUME SchedulerInv PROVE QueueBounded  OBVIOUS
  <2> DEFINE here == AtLabels(Workers, worker, Holding)
  <2>1. (Queued \ Cancelled) \cup Moving \subseteq here
    <3> SUFFICES ASSUME NEW w \in (Queued \ Cancelled) \cup Moving PROVE w \in here
      OBVIOUS
    <3>1. CASE w \in Moving
      <4>1. w \in Workers /\ worker[w] \in Inserted /\ quanta[w] > 0
        BY <3>1 DEF Moving, SchedulerInv, HandlerInv, TypeOK
      <4>2. worker[w] \notin {"cancel", "dead"}  BY <4>1 DEF SchedulerInv, LifeInv
      <4> QED  BY <4>1, <4>2 DEF Inserted, Holding, AtLabels
    <3>2. CASE w \in Queued \ Cancelled
      <4>1. w \in Workers
        BY <3>2, ElementOfSeq, LenProperties DEF Queued, SchedulerInv, TypeOK
      <4>2. worker[w] \in Inserted  BY <3>2, <4>1 DEF SchedulerInv, QueueInv
      <4>3. worker[w] \notin {"cancel", "dead"}
        BY <3>2, <4>1 DEF SchedulerInv, LifeInv, Cancelled
      <4> QED  BY <4>1, <4>2, <4>3 DEF Inserted, Holding, AtLabels
    <3> QED  BY <3>1, <3>2
  <2>2. here \in SUBSET Workers  BY DEF AtLabels
  <2>3. IsFiniteSet(here)  BY <2>2, SchedulerAssumption, FS_Subset
  <2>4. /\ Cardinality((Queued \ Cancelled) \cup Moving) <= Cardinality(here)
        /\ Cardinality((Queued \ Cancelled) \cup Moving) \in Nat
    <3>1. (Queued \ Cancelled) \cup Moving \in SUBSET here  BY <2>1
    <3> HIDE DEF here
    <3> QED  BY <2>3, <3>1, FS_Subset, FS_CardinalityType
  <2>5. queue_sem + Cardinality(here) = QueueSize /\ queue_sem \in Nat /\ Cardinality(here) \in Nat
    BY <2>3, FS_CardinalityType DEF SchedulerInv, CountInv, TypeOK
  <2>6. Cardinality(here) <= QueueSize  BY <2>5, SchedulerAssumption
  <2> HIDE DEF here
  <2> QED  BY <2>4, <2>5, <2>6, SchedulerAssumption DEF QueueBounded
<1> QED  BY <1>1, Invariance, PTL

\* A worker is resumed as often as it has quanta by the time it is cancelled, and
\* never more often.
THEOREM QuantaAreRun == ASSUME Timely PROVE Spec => []RunsItsQuanta
<1>1. SchedulerInv => RunsItsQuanta
  <2> SUFFICES ASSUME SchedulerInv, NEW w \in Workers
               PROVE  /\ ran[w] <= requested[w]
                      /\ worker[w] \in {"cancel", "dead"} => ran[w] = requested[w]
    BY DEF RunsItsQuanta
  <2>1. /\ quanta[w] \in 0..requested[w] /\ requested[w] \in Nat
        /\ worker[w] \in {"cancel", "dead"} => quanta[w] = 0
        /\ ran[w] = requested[w] - quanta[w] + (IF Active(w) THEN 1 ELSE 0)
    BY SchedulerAssumption DEF SchedulerInv, LifeInv, TypeOK
  <2>2. Active(w) => quanta[w] > 0
    BY SchedulerAssumption DEF SchedulerInv, HandlerInv, Active
  <2> QED  BY ONLY <2>1, <2>2
<1> QED  BY <1>1, Invariance, PTL

\* timer_handler has not freed what it, or a later one, is about to use.
THEOREM NothingFreedIsUsed == ASSUME Timely PROVE Spec => []NoUseAfterFree
<1>1. SchedulerInv => NoUseAfterFree
  <2> SUFFICES ASSUME SchedulerInv PROVE NoUseAfterFree  OBVIOUS
  <2>1. Queued \cap freed = {}  BY DEF SchedulerInv, QueueInv, TypeOK
  <2>2. ASSUME NEW h \in Hosts, handler[h] = "size" PROVE currentThread \notin freed
    <3>1. ~InHandler(Charged)
      BY <2>2 DEF SchedulerInv, HandlerAlone, InHandler, Charged
    <3>2. currentThread # NoWorker => quanta[currentThread] > 0
      BY <3>1 DEF SchedulerInv, HandlerInv
    <3> QED  BY <3>2, SchedulerAssumption DEF SchedulerInv, LifeInv, TypeOK
  <2>3. ASSUME NEW h \in Hosts, handler[h] \in {"suspend", "remove", "insert", "leave"}
        PROVE  info[h] \notin freed
    <3>1. info[h] = currentThread /\ currentThread # NoWorker /\ currentThread \in Workers
      BY <2>3 DEF SchedulerInv, HandlerInv, TypeOK
    <3>2. CASE handler[h] = "suspend"
      <4>1. ~InHandler(Charged)
        BY <3>2 DEF SchedulerInv, HandlerAlone, InHandler, Charged
      <4> QED  BY <3>1, <4>1 DEF SchedulerInv, HandlerInv, LifeInv
    <3>3. CASE handler[h] \in {"remove", "insert"}
      BY <3>1, <3>3 DEF SchedulerInv, HandlerInv, LifeInv
    <3>4. CASE handler[h] = "leave"
      <4>1. info[h] \in Leaving  BY <3>4 DEF Leaving
      <4> QED  BY <3>1, <4>1 DEF SchedulerInv, LifeInv
    <3> QED  BY <2>3, <3>2, <3>3, <3>4
  <2>4. ASSUME NEW h \in Hosts, handler[h] = "resume" PROVE info[h] \notin freed
    <3>1. freed \subseteq Workers  BY DEF SchedulerInv, TypeOK
    <3>2. info[h] = NoWorker \/ quanta[info[h]] > 0  BY <2>4 DEF SchedulerInv, HandlerInv
    <3>3. \A w \in freed : quanta[w] = 0  BY <3>1 DEF SchedulerInv, LifeInv
    <3> QED  BY <3>1, <3>2, <3>3, SchedulerAssumption
  <2> QED  BY <2>1, <2>2, <2>3, <2>4 DEF NoUseAfterFree
<1> QED  BY <1>1, Invariance, PTL

\* The scheduler gives up only when every worker has had all of its quanta, however
\* often timer_handler has had to wait for the queue to fill again.
THEOREM QuitsWhenComplete == ASSUME Timely PROVE Spec => []QuitOnlyWhenComplete
<1>1. SchedulerInv => QuitOnlyWhenComplete
  BY DEF SchedulerInv, QuitInv, QuitOnlyWhenComplete
<1> QED  BY <1>1, Invariance, PTL

\* Only timer_handler's last step resumes a worker, the head of the queue: nobody
\* else in the queue has seen it resumed since its own turn.
LEMMA TakesTurns ==
    ASSUME SchedulerInv, [Next]_vars
    PROVE  [\A next \in Workers : Resumed(next) =>
               \A w \in Queued \ {next} : next \notin passed[w]]_vars
<1> SUFFICES ASSUME Next, NEW next \in Workers, Resumed(next),
                    NEW w \in Queued \ {next}, next \in passed[w]
             PROVE  FALSE
  OBVIOUS
<1>1. PICK h \in Hosts : HandlerResume(h)
  BY DEF Next, Worker, BlockAlarm, EnterWait, EnterInsert, FirstSuspend, TakeSuspend,
     TakeResume, TakeCancel, CancelThread, WorkerGoto, CreateWorker, SchedulerUnchanged,
     Tick, Handler, HandlerEmpty, HandlerSize, HandlerSuspend, HandlerRemove, HandlerInsert,
     HandlerCancel, HandlerLeave, HandlerNext, HandlerQuit, Return, HandlerGoto, StartTimer,
     SchedulerDone, CleanUp, Terminated, vars, Resumed
<1>2. next = info[h]
  BY <1>1 DEF HandlerResume, Resumed, SchedulerInv, TypeOK
<1>3. next = sched_queue[1] /\ 1 \in DOMAIN sched_queue /\ handler[h] = "resume"
  BY <1>1, <1>2, ResumedHead DEF HandlerResume, Return, HandlerGoto
<1>4. PICK j \in DOMAIN sched_queue : w = sched_queue[j]  BY DEF Queued
<1>5. DOMAIN sched_queue = 1..Len(sched_queue) /\ Len(sched_queue) \in Nat
  BY LenProperties DEF SchedulerInv, TypeOK
<1>6. 1 < j  BY <1>3, <1>4, <1>5
<1>7. ~InHandler(Moved)  BY <1>3, <1>4, <1>6 DEF SchedulerInv, OrderInv
<1> QED  BY <1>3, <1>7 DEF InHandler, Moved

\* While a worker stays in the queue no other one is resumed twice.
THEOREM NobodyOvertakes == ASSUME Timely PROVE Spec => NoOvertaking
<1>1. SchedulerInv /\ [Next]_vars =>
        [\A next \in Workers : Resumed(next) =>
            \A w \in Queued \ {next} : next \notin passed[w]]_vars
  BY TakesTurns
<1> QED  BY <1>1, Invariance, PTL DEF Spec, NoOvertaking

-----------------------------------------------------------------------------
(* The signals, when every thread acts on its own within a quantum.        *)

\* A settled current worker, by itself and with no signal to come.
LEMMA SettledRuns ==
    ASSUME SchedulerInv, SignalInv, PromptSignals, Settled, currentThread # NoWorker,
           \A h \in Hosts : handler[h] = "none"
    PROVE  Runs(currentThread)
<1>1. currentThread \in Workers  BY DEF SchedulerInv, TypeOK
<1>2. Resuming(currentThread)
  BY DEF SignalInv, InHandler, Charged
<1> QED  BY <1>1, <1>2 DEF Settled, Resuming, Runs

LEMMA WorkerSignals ==
    ASSUME SchedulerInv, SignalInv, PromptSignals, NEW w \in Workers,
           Worker(w) \/ CreateWorker(w)
    PROVE  SignalInv'
<1>1. /\ UNCHANGED <<handler, currentThread>>
      /\ \A v \in Workers \ {w} :
            /\ worker'[v] = worker[v] /\ pending'[v] = pending[v]
            /\ v \in suspended' <=> v \in suspended
  BY DEF Worker, BlockAlarm, EnterWait, EnterInsert, FirstSuspend, TakeSuspend, TakeResume,
     TakeCancel, CancelThread, WorkerGoto, CreateWorker, SchedulerUnchanged, SchedulerInv, TypeOK
<1>2. Stopped(w) => Stopped(w)'
  <2> SUFFICES ASSUME Stopped(w) PROVE Stopped(w)'  OBVIOUS
  <2>1. CASE BlockAlarm(w) \/ EnterWait(w) \/ EnterInsert(w) \/ FirstSuspend(w)
             \/ CancelThread(w) \/ CreateWorker(w)
    BY <2>1 DEF Stopped, BlockAlarm, EnterWait, EnterInsert, FirstSuspend, CancelThread,
       WorkerGoto, CreateWorker, SchedulerUnchanged, SchedulerInv, TypeOK
  <2>2. CASE TakeSuspend(w) \/ TakeResume(w) \/ TakeCancel(w)
    BY <2>2 DEF Stopped, TakeSuspend, TakeResume, TakeCancel, WorkerGoto, SchedulerInv, TypeOK
  <2> QED  BY <2>1, <2>2 DEF Worker
<1>3. Resuming(w) => Resuming(w)'
  <2> SUFFICES ASSUME Resuming(w) PROVE Resuming(w)'  OBVIOUS
  <2>1. CASE BlockAlarm(w) \/ EnterWait(w) \/ EnterInsert(w) \/ FirstSuspend(w)
             \/ CancelThread(w) \/ CreateWorker(w)
    BY <2>1 DEF Resuming, Runs, BlockAlarm, EnterWait, EnterInsert, FirstSuspend, CancelThread,
       WorkerGoto, CreateWorker, SchedulerUnchanged, SchedulerInv, TypeOK
  <2>2. CASE TakeSuspend(w)
    BY <2>2 DEF Resuming, Runs, TakeSuspend, SchedulerInv, TypeOK
  <2>3. CASE TakeResume(w)
    <3>1. CASE w \in suspended
      BY <2>3, <3>1 DEF Resuming, Runs, TakeResume, WorkerGoto, SchedulerInv, TypeOK
    <3>2. CASE w \notin suspended
      BY <2>3, <3>2 DEF Resuming, Runs, TakeResume, WorkerGoto, SchedulerInv, TypeOK
    <3> QED  BY <3>1, <3>2
  <2>4. CASE TakeCancel(w)
    BY <2>4 DEF Resuming, Runs, TakeCancel
  <2> QED  BY <2>1, <2>2, <2>3, <2>4 DEF Worker
<1>4. ~Runs(w)
  BY DEF Runs, Worker, BlockAlarm, EnterWait, EnterInsert, FirstSuspend, TakeSuspend, TakeResume,
     TakeCancel, CancelThread, WorkerGoto, CreateWorker
<1>5. \A v \in Workers : ~Active(v)' => Stopped(v)'
  <2> SUFFICES ASSUME NEW v \in Workers, ~Active(v)' PROVE Stopped(v)'  OBVIOUS
  <2>1. ~Active(v)  BY <1>1 DEF Active, InHandler
  <2>2. Stopped(v)  BY <2>1 DEF SignalInv
  <2>3. CASE v = w  BY <1>2, <2>2, <2>3
  <2>4. CASE v # w  BY <1>1, <2>2, <2>4 DEF Stopped
  <2> QED  BY <2>3, <2>4
<1>6. currentThread' # NoWorker /\ ~InHandler(Charged)' => Resuming(currentThread)'
  <2> SUFFICES ASSUME currentThread # NoWorker, ~InHandler(Charged)' PROVE Resuming(currentThread)'
    BY <1>1
  <2>1. Resuming(currentThread) /\ currentThread \in Workers
    BY <1>1 DEF SignalInv, InHandler, SchedulerInv, TypeOK
  <2>2. CASE currentThread = w
    BY <1>1, <1>3, <2>1, <2>2 DEF Resuming, Runs
  <2>3. CASE currentThread # w
    BY <1>1, <2>1, <2>3 DEF Resuming, Runs
  <2> QED  BY <2>2, <2>3
<1>7. InHandler({"size", "suspend"})' /\ currentThread' # NoWorker => Runs(currentThread)'
  <2> SUFFICES ASSUME InHandler({"size", "suspend"})', currentThread # NoWorker
               PROVE  Runs(currentThread)'
    BY <1>1
  <2>1. Runs(currentThread) /\ currentThread \in Workers
    BY <1>1 DEF SignalInv, InHandler, SchedulerInv, TypeOK
  <2>2. currentThread # w  BY <1>4, <2>1
  <2> QED  BY <1>1, <2>1, <2>2 DEF Runs
<1> QED  BY <1>5, <1>6, <1>7 DEF SignalInv

LEMMA HandlerSignals ==
    ASSUME SchedulerInv, SignalInv, PromptSignals, NEW h \in Hosts, Handler(h)
    PROVE  SignalInv'
<1> DEFINE c == currentThread
<1>1. CASE \/ HandlerEmpty(h) \/ HandlerSize(h) \/ HandlerRemove(h) \/ HandlerInsert(h)
           \/ HandlerLeave(h) \/ HandlerNext(h)
  <2>1. /\ UNCHANGED <<currentThread, worker, suspended, pending>>
        /\ \A v \in Workers : (Stopped(v) => Stopped(v)') /\ (Resuming(v) => Resuming(v)')
                             /\ (Runs(v) => Runs(v)')
    BY <1>1 DEF HandlerEmpty, HandlerSize, HandlerRemove, HandlerInsert, HandlerLeave,
       HandlerNext, HandlerGoto, Stopped, Resuming, Runs
  <2>2. /\ (InHandler(Charged)' <=> InHandler(Charged)) \/ c = NoWorker
        /\ InHandler({"size", "suspend"})' => InHandler({"size", "suspend"})
    <3>1. CASE HandlerEmpty(h)
      BY <3>1, HandlerStep DEF HandlerEmpty, HandlerAt, InHandler, Charged
    <3>2. CASE HandlerSize(h)
      <4>1. /\ handler[h] = "size"
            /\ handler'[h] = IF currentThread = NoWorker THEN "next" ELSE "suspend"
            /\ \A g \in Hosts \ {h} : handler[g] = "none" /\ handler'[g] = "none"
        BY <3>2, HandlerStep DEF HandlerSize, HandlerAt
      <4> QED  BY <4>1 DEF InHandler, Charged
    <3>3. CASE HandlerRemove(h) \/ HandlerInsert(h) \/ HandlerLeave(h) \/ HandlerNext(h)
      <4>1. /\ handler[h] \in Charged /\ handler'[h] \in Charged
            /\ \A g \in Hosts \ {h} : handler[g] = "none" /\ handler'[g] = "none"
        BY <3>3, HandlerStep
        DEF HandlerRemove, HandlerInsert, HandlerLeave, HandlerNext, HandlerAt, Charged
      <4> QED  BY <4>1 DEF InHandler, Charged
    <3> QED  BY <1>1, <3>1, <3>2, <3>3
  <2>3. \A v \in Workers : Active(v)' <=> Active(v)
    <3>1. \A v \in Workers : v # NoWorker  BY SchedulerAssumption
    <3> QED  BY <2>1, <2>2, <3>1 DEF Active, InHandler
  <2>4. c # NoWorker => c \in Workers  BY DEF SchedulerInv, TypeOK
  <2>5. \A v \in Workers : ~Active(v)' => Stopped(v)'  BY <2>1, <2>3 DEF SignalInv
  <2>6. c' # NoWorker /\ ~InHandler(Charged)' => Resuming(c)'
    <3> SUFFICES ASSUME c # NoWorker, ~InHandler(Charged) PROVE Resuming(c)'
      BY <2>1, <2>2 DEF InHandler
    <3>1. Resuming(c)  BY DEF SignalInv
    <3> QED  BY <2>1, <3>1 DEF Resuming, Runs
  <2>7. InHandler({"size", "suspend"})' /\ c' # NoWorker => Runs(c)'
    <3> SUFFICES ASSUME c # NoWorker, InHandler({"size", "suspend"}) PROVE Runs(c)'
      BY <2>1, <2>2 DEF InHandler
    <3>1. Runs(c)  BY DEF SignalInv
    <3> QED  BY <2>1, <3>1 DEF Runs
  <2> QED  BY <2>5, <2>6, <2>7 DEF SignalInv
<1>2. CASE HandlerSuspend(h) \/ HandlerCancel(h)
  <2>1. /\ handler[h] = "suspend" /\ handler'[h] \in Charged
        /\ \A g \in Hosts \ {h} : handler[g] = "none" /\ handler'[g] = "none"
    BY <1>2, HandlerStep DEF HandlerSuspend, HandlerCancel, HandlerAt, Charged
  <2>2. info[h] = c /\ c \in Workers /\ c # NoWorker
    BY <2>1, HandlerHead, SchedulerAssumption
  <2>3. Runs(c)  BY <2>1, <2>2 DEF SignalInv, InHandler
  <2>4. /\ UNCHANGED <<currentThread, worker, suspended>>
        /\ \A v \in Workers \ {c} : pending'[v] = pending[v]
        /\ \E signal \in {"USR1", "TERM"} : pending'[c] = pending[c] \cup {signal}
    BY <1>2, <2>2 DEF HandlerSuspend, HandlerCancel, HandlerGoto, Send, SchedulerInv, TypeOK
  <2>5. Stopped(c)'
    <3>1. pending[c] = {}  BY <2>3 DEF Runs
    <3>2. pending'[c] \in {{"USR1"}, {"TERM"}}  BY <2>4, <3>1
    <3> QED  BY <2>3, <2>4, <3>2 DEF Runs, Stopped
  <2>6. \A v \in Workers \ {c} : Stopped(v)'
    <3> SUFFICES ASSUME NEW v \in Workers \ {c} PROVE Stopped(v)'  OBVIOUS
    <3>1. Stopped(v)  BY DEF SignalInv, Active
    <3> QED  BY <2>4, <3>1 DEF Stopped
  <2>7. InHandler(Charged)' /\ ~InHandler({"size", "suspend"})'
    BY <2>1 DEF InHandler, Charged
  <2>8. \A v \in Workers : Stopped(v)'
    <3> SUFFICES ASSUME NEW v \in Workers PROVE Stopped(v)'  OBVIOUS
    <3>1. CASE v = c  BY <2>4, <2>5, <3>1 DEF Stopped
    <3>2. CASE v # c  BY <2>6, <3>2
    <3> QED  BY <3>1, <3>2
  <2> QED  BY <2>7, <2>8 DEF SignalInv
<1>3. CASE HandlerResume(h)
  <2>1. /\ handler[h] = "resume" /\ handler'[h] = "none"
        /\ \A g \in Hosts \ {h} : handler[g] = "none" /\ handler'[g] = "none"
    BY <1>3, HandlerStep DEF HandlerResume, Return, HandlerAt
  <2>2. PICK next \in Workers :
           next = info[h] /\ quanta[next] > 0 /\ worker[next] \in Inserted
    BY <1>3, ResumedHead
  <2>3. /\ UNCHANGED <<worker, suspended>> /\ currentThread' = next
        /\ \A v \in Workers \ {next} : pending'[v] = pending[v]
        /\ pending'[next] = pending[next] \cup {"USR2"}
    BY <1>3, <2>2 DEF HandlerResume, Return, HandlerGoto, Send, SchedulerInv, TypeOK
  <2>4. \A v \in Workers : Stopped(v)
    BY <2>1 DEF SignalInv, Active, InHandler, Charged
  <2>5. "TERM" \notin pending[next] /\ worker[next] \notin {"cancel", "dead"}
    BY <2>2 DEF SchedulerInv, LifeInv
  <2>6. Resuming(next)'
    <3>1. CASE worker[next] \in {"entered", "wait"}
      <4>1. next \notin suspended /\ pending[next] = {}  BY <2>4, <2>2, <3>1 DEF Stopped
      <4> QED  BY <2>3, <3>1, <4>1 DEF Resuming
    <3>2. CASE worker[next] = "running" /\ next \in suspended
      <4>1. pending[next] = {}  BY <2>4, <2>2, <3>2 DEF Stopped
      <4> QED  BY <2>3, <3>2, <4>1 DEF Resuming
    <3>3. CASE worker[next] = "running" /\ next \notin suspended
      <4>1. pending[next] = {"USR1"}  BY <2>4, <2>2, <2>5, <3>3 DEF Stopped
      <4>2. pending'[next] = {"USR1", "USR2"}  BY <2>3, <4>1
      <4> QED  BY <2>3, <3>3, <4>2 DEF Resuming
    <3> QED  BY <2>2, <2>5, <3>1, <3>2, <3>3 DEF Inserted
  <2>7. \A v \in Workers \ {next} : Stopped(v)'
    <3> SUFFICES ASSUME NEW v \in Workers \ {next} PROVE Stopped(v)'  OBVIOUS
    <3> QED  BY <2>3, <2>4 DEF Stopped
  <2>8. ~InHandler(Charged)' /\ ~InHandler({"size", "suspend"})'
    BY <2>1 DEF InHandler, Charged
  <2>9. Active(next)'  BY <2>3, <2>8 DEF Active
  <2>10. Resuming(currentThread)'  BY <2>3, <2>6 DEF Resuming, Runs
  <2> QED  BY <2>7, <2>8, <2>9, <2>10 DEF SignalInv
<1>4. CASE HandlerQuit(h)
  <2>1. /\ handler[h] = "resume" /\ handler'[h] = "none"
        /\ \A g \in Hosts \ {h} : handler[g] = "none" /\ handler'[g] = "none"
    BY <1>4, HandlerStep DEF HandlerQuit, Return, HandlerAt
  <2>2. /\ UNCHANGED <<worker, suspended, pending>> /\ currentThread' = NoWorker
    BY <1>4 DEF HandlerQuit, Return, HandlerGoto
  <2>3. \A v \in Workers : Stopped(v)
    BY <2>1 DEF SignalInv, Active, InHandler, Charged
  <2>4. \A v \in Workers : Stopped(v)'  BY <2>2, <2>3 DEF Stopped
  <2> QED  BY <2>2, <2>4 DEF SignalInv
<1> QED  BY <1>1, <1>2, <1>3, <1>4 DEF Handler

LEMMA SignalStep ==
    ASSUME Timely, SchedulerInv, SignalInv, [Next]_vars
    PROVE  SignalInv'
<1> SUFFICES ASSUME PromptSignals PROVE SignalInv'  BY DEF SignalInv
<1>1. CASE \E w \in Workers : Worker(w) \/ CreateWorker(w)  BY <1>1, WorkerSignals
<1>2. CASE \E h \in Hosts : Handler(h)  BY <1>2, HandlerSignals
<1>3. ASSUME NEW h \in Hosts, Tick(h) PROVE SignalInv'
  <2>1. /\ \A g \in Hosts : handler[g] = "none"
        /\ \A g \in Hosts \ {h} : handler'[g] = "none"
        /\ handler'[h] = "size"
        /\ UNCHANGED <<currentThread, worker, suspended, pending>>
        /\ Settled
    BY <1>3, TickAlone DEF Tick
  <2>2. \A v \in Workers : Active(v)' <=> Active(v)
    BY <2>1 DEF Active, InHandler, Charged
  <2>3. \A v \in Workers : Stopped(v) => Stopped(v)'  BY <2>1 DEF Stopped
  <2>4. currentThread # NoWorker => Runs(currentThread)'
    BY <2>1, SettledRuns DEF Runs
  <2>5. currentThread # NoWorker => Resuming(currentThread)'  BY <2>4 DEF Resuming, Runs
  <2> QED  BY <2>1, <2>2, <2>3, <2>4, <2>5 DEF SignalInv
<1>4. CASE StartTimer \/ SchedulerDone \/ CleanUp \/ Terminated \/ UNCHANGED vars
  <2>1. UNCHANGED <<handler, currentThread, worker, suspended, pending>>
    BY <1>4 DEF StartTimer, SchedulerDone, CleanUp, SchedulerUnchanged, Terminated, vars
  <2> QED  BY <2>1 DEF SignalInv, Active, InHandler, Stopped, Resuming, Runs
<1> QED  BY <1>1, <1>2, <1>3, <1>4 DEF Next

\* With prompt signals at most one worker has the processor.
THEOREM OnlyOneRuns == ASSUME Timely, PromptSignals PROVE Spec => []OnlyCurrentRuns
<1>1. Init => SignalInv
  <2> SUFFICES ASSUME Init PROVE SignalInv  OBVIOUS
  <2>1. \A w \in Workers : Stopped(w)  BY DEF Init, Stopped
  <2>2. currentThread = NoWorker  BY DEF Init
  <2> QED  BY <2>1, <2>2 DEF SignalInv
<1>2. SchedulerInv /\ SignalInv /\ [Next]_vars => SignalInv'
  BY SignalStep
<1>3. SchedulerInv /\ SignalInv => OnlyCurrentRuns
  BY DEF SignalInv, Stopped, Active, OnlyCurrentRuns
<1> QED  BY <1>1, <1>2, <1>3, Invariance, PTL DEF Spec

=============================================================================
