----------------------------- MODULE Scheduler -----------------------------
(***************************************************************************)
(* pa4_1: a round robin scheduler of worker threads driven by signals      *)
(* (scheduler.c, worker.c, list.c).                                        *)
(*                                                                         *)
(* A timer sends SIGALRM to the process once a quantum.  Its handler runs  *)
(* on a thread that does not block the signal: main, the scheduler thread, *)
(* or a worker that has only just been created.  It suspends or cancels    *)
(* the current worker with SIGUSR1 or SIGTERM and resumes the head of the  *)
(* queue with SIGUSR2.  A signal that is sent again while pending is lost, *)
(* as signals are not queued.                                              *)
(*                                                                         *)
(* The list operations of list.c hold the list's lock throughout, so each  *)
(* is one step on a sequence.  Times are left out.                         *)
(***************************************************************************)
EXTENDS Integers, Sequences, FiniteSets

CONSTANTS
    Workers,          \* the worker threads, thread_count of them
    QueueSize,        \* queue_size
    QuantaChoices,    \* what i_1, i_2 ... on the command line may be
    NoWorker,         \* a null pointer to a thread_info_t
    \* Timing, in quanta of a second.
    PromptSignals,    \* signals are acted on within the quantum
    PromptEntry       \* a worker the handler waits for enters within the quantum

ASSUME SchedulerAssumption ==
    /\ IsFiniteSet(Workers) /\ Workers # {} /\ NoWorker \notin Workers
    /\ QueueSize \in Nat \ {0}
    /\ QuantaChoices \subseteq Nat
    /\ PromptSignals \in BOOLEAN /\ PromptEntry \in BOOLEAN

thread_count == Cardinality(Workers)
Hosts == {"main", "sched"} \cup Workers    \* threads SIGALRM may interrupt

VARIABLES
    \* scheduler.c
    requested,       \* the command line: quanta each worker is to run
    quanta,          \* quanta each worker has left
    sched_queue,     \* the queue, head first
    queue_sem,       \* room in the queue
    currentThread,
    completed,
    quit,
    main,            \* where main is
    sched,           \* where the scheduler thread is
    handler,         \* where each host is in timer_handler
    info,            \* the worker each timer_handler is dealing with
    freed,           \* workers whose thread_info_t has been freed
    \* worker.c
    worker,          \* where each worker is
    suspended,       \* workers in suspend_thread as a handler
    pending,         \* signals each worker has yet to act on
    \* history
    ran,             \* times each worker was resumed
    passed           \* workers resumed since each one last was or entered

process == <<main, sched, requested>>
vars == <<requested, quanta, sched_queue, queue_sem, currentThread, completed,
          quit, main, sched, handler, info, freed, worker,
          suspended, pending, ran, passed>>

-----------------------------------------------------------------------------
Init ==
    /\ requested \in [Workers -> QuantaChoices]
    /\ quanta = requested
    /\ sched_queue = <<>>
    /\ queue_sem = QueueSize
    /\ currentThread = NoWorker
    /\ completed = 0
    /\ quit = FALSE
    /\ main = "create"
    /\ sched = "wait"
    /\ handler = [h \in Hosts |-> "none"]
    /\ info = [h \in Hosts |-> NoWorker]
    /\ freed = {}
    /\ worker = [w \in Workers |-> "unborn"]
    /\ suspended = {}
    /\ pending = [w \in Workers |-> {}]
    /\ ran = [w \in Workers |-> 0]
    /\ passed = [w \in Workers |-> {}]

\* pthread_kill: a thread that is gone ignores it, one that has the signal
\* pending already does not get it twice.
Send(w, signal) == pending' = [pending EXCEPT ![w] = @ \cup {signal}]

\* list_size is 0 when nobody is Queued; list_insert_tail.
Queued == {sched_queue[i] : i \in DOMAIN sched_queue}
InsertTail(w) == Append(sched_queue, w)

\* list_remove unlinks the worker's element: nothing happens to one not linked.
Without(w) ==
    IF w \in Queued
    THEN LET k == CHOOSE k \in DOMAIN sched_queue : sched_queue[k] = w
         IN  SubSeq(sched_queue, 1, k - 1)
                \o SubSeq(sched_queue, k + 1, Len(sched_queue))
    ELSE sched_queue

-----------------------------------------------------------------------------
(* worker.c                                                                *)

WorkerGoto(w, from, to) ==
    /\ worker[w] = from
    /\ worker' = [worker EXCEPT ![w] = to]
    /\ UNCHANGED <<process, handler, info, quanta, currentThread, completed,
                   quit, freed, ran>>

\* start_worker: a worker inherits main's signal mask, and SIGALRM may interrupt
\* it until it has blocked the signal.
BlockAlarm(w) ==
    /\ handler[w] = "none"
    /\ WorkerGoto(w, "born", "start")
    /\ UNCHANGED <<sched_queue, queue_sem, suspended, pending, passed>>

\* Fault: a worker enters without waiting for room.
BugEnterUnchecked(w) ==
    /\ queue_sem' = queue_sem - 1
    /\ WorkerGoto(w, "start", "enter")
    /\ UNCHANGED <<sched_queue, suspended, pending, passed>>

\* enter_scheduler_queue: wait for available room in the queue.
EnterWait(w) ==
    /\ queue_sem > 0
    /\ queue_sem' = queue_sem - 1
    /\ WorkerGoto(w, "start", "enter")
    /\ UNCHANGED <<sched_queue, suspended, pending, passed>>

\* list_insert_tail: from here on the handler may send the worker signals.
EnterInsert(w) ==
    /\ sched_queue' = InsertTail(w)
    /\ passed' = [passed EXCEPT ![w] = {}]
    /\ WorkerGoto(w, "enter", "entered")
    /\ UNCHANGED <<queue_sem, suspended, pending>>

\* The call of suspend_thread that start_worker itself makes.
FirstSuspend(w) ==
    /\ w \notin suspended
    /\ WorkerGoto(w, "entered", "wait")
    /\ UNCHANGED <<sched_queue, queue_sem, suspended, pending, passed>>

\* SIGUSR1 interrupts the worker wherever it is, even in the sigwait of
\* start_worker, but for the handler of SIGUSR1 itself.
TakeSuspend(w) ==
    /\ "USR1" \in pending[w] /\ "TERM" \notin pending[w]
    /\ w \notin suspended
    /\ worker[w] \in {"entered", "wait", "running"}
    /\ suspended' = suspended \cup {w}
    /\ pending' = [pending EXCEPT ![w] = @ \ {"USR1"}]
    /\ UNCHANGED <<process, handler, info, quanta, currentThread, completed,
                   quit, freed, ran, worker, sched_queue, queue_sem, passed>>

\* sigwait takes SIGUSR2: the innermost suspend_thread returns.
TakeResume(w) ==
    /\ "USR2" \in pending[w]
    /\ pending' = [pending EXCEPT ![w] = @ \ {"USR2"}]
    /\ \/ /\ w \in suspended
          /\ suspended' = suspended \ {w}
          /\ WorkerGoto(w, worker[w], worker[w])
       \/ /\ w \notin suspended
          /\ WorkerGoto(w, "wait", "running")
          /\ UNCHANGED suspended
    /\ UNCHANGED <<sched_queue, queue_sem, passed>>

\* SIGTERM interrupts the worker.  If SIGUSR1 is pending too, its number is the
\* lower and its handler is entered first, but is itself interrupted before its
\* first instruction; cancel_thread never returns to it.
TakeCancel(w) ==
    /\ "TERM" \in pending[w]
    /\ \E from \in {"entered", "wait", "running"} :
          WorkerGoto(w, from, "cancel")
    /\ pending' = [pending EXCEPT ![w] = {}]
    /\ suspended' = suspended \ {w}
    /\ UNCHANGED <<sched_queue, queue_sem, passed>>

\* Fault: cancel_thread exits without sem_post.
BugCancelKeepsRoom(w) ==
    /\ WorkerGoto(w, "cancel", "dead")
    /\ UNCHANGED <<queue_sem, sched_queue, suspended, pending, passed>>

\* cancel_thread makes room in the queue and exits.
CancelThread(w) ==
    /\ queue_sem' = queue_sem + 1
    /\ WorkerGoto(w, "cancel", "dead")
    /\ UNCHANGED <<sched_queue, suspended, pending, passed>>

Worker(w) == BlockAlarm(w) \/ EnterWait(w) \/ EnterInsert(w)
             \/ FirstSuspend(w) \/ TakeSuspend(w) \/ TakeResume(w) \/ TakeCancel(w)
             \/ CancelThread(w)

-----------------------------------------------------------------------------
(* timer_handler                                                           *)

\* main has created the workers, which have blocked SIGALRM, and the ones that are
\* in the queue have nothing left to do but wait for the next quantum.  Those on
\* their way into the queue may take any time.
Settled ==
    /\ main # "create"
    /\ \A w \in Workers :
          /\ worker[w] \notin {"born", "entered", "cancel"}
          /\ "TERM" \notin pending[w] /\ "USR1" \notin pending[w]
          /\ "USR2" \in pending[w] => worker[w] = "running" /\ w \notin suspended

\* The thread lives and does not block SIGALRM.
Interruptible(h) ==
    CASE h = "main" -> main # "exited"
      [] h = "sched" -> sched # "done"
      [] OTHER -> worker[h] = "born"

\* timer_handler spins in wait_for_queue until a worker inserts itself.
Waiting(h) == handler[h] = "next" /\ completed < thread_count /\ sched_queue = <<>>

\* The timer is running and host h is not in its handler.  All that timer_handler does
\* but wait is over long before the next quantum.  Where a wait outlasts the quantum
\* SIGALRM interrupts another thread, for only the one in the handler blocks it.
Tick(h) ==
    /\ sched # "wait"
    /\ handler[h] = "none"
    /\ Interruptible(h)
    /\ \A g \in Hosts : handler[g] = "none" \/ (~PromptEntry /\ Waiting(g))
    /\ PromptSignals => Settled
    /\ handler' = [handler EXCEPT ![h] = "size"]
    /\ UNCHANGED <<process, info, quanta, currentThread, completed, quit,
                   freed, ran, worker, suspended, pending, sched_queue,
                   queue_sem, passed>>

HandlerGoto(h, from, to) ==
    /\ handler[h] = from
    /\ handler' = [handler EXCEPT ![h] = to]
    /\ UNCHANGED <<process, worker, suspended, queue_sem>>

\* if (list_size(&sched_queue) == 0): an empty queue ends the scheduler.
HandlerEmpty(h) ==
    /\ sched_queue = <<>>
    /\ quit' = TRUE
    /\ HandlerGoto(h, "size", "none")
    /\ UNCHANGED <<info, quanta, currentThread, completed, freed, ran, pending,
                   sched_queue, passed>>

\* Otherwise the current worker, if there is one, is passed to suspend_worker.
HandlerSize(h) ==
    /\ sched_queue # <<>>
    /\ info' = [info EXCEPT ![h] = currentThread]
    /\ HandlerGoto(h, "size", IF currentThread = NoWorker THEN "next"
                                                         ELSE "suspend")
    /\ UNCHANGED <<quanta, currentThread, completed, quit, freed, ran, pending,
                   sched_queue, passed>>

\* Fault: the test comes before the decrement.
BugLastQuantum(w) == quanta[w] = 0

\* suspend_worker decides on what is left after this quantum.
LastQuantum(w) == quanta[w] - 1 = 0

\* Fault: the worker is not told to suspend.
BugSuspendUnsent(h) ==
    /\ HandlerGoto(h, "suspend", "remove")
    /\ ~LastQuantum(info[h])
    /\ quanta' = [quanta EXCEPT ![info[h]] = @ - 1]
    /\ UNCHANGED <<info, currentThread, completed, quit, freed, ran, pending,
                   sched_queue, passed>>

\* suspend_worker, for a worker with quanta left.
HandlerSuspend(h) ==
    /\ HandlerGoto(h, "suspend", "remove")
    /\ ~LastQuantum(info[h])
    /\ quanta' = [quanta EXCEPT ![info[h]] = @ - 1]
    /\ Send(info[h], "USR1")
    /\ UNCHANGED <<info, currentThread, completed, quit, freed, ran,
                   sched_queue, passed>>

\* Fault: the worker is inserted again where it already is.
BugRemoveNothing(h) ==
    /\ HandlerGoto(h, "remove", "insert")
    /\ UNCHANGED <<info, quanta, currentThread, completed, quit, freed, ran,
                   pending, sched_queue, passed>>

HandlerRemove(h) ==
    /\ sched_queue' = Without(info[h])
    /\ HandlerGoto(h, "remove", "insert")
    /\ UNCHANGED <<info, quanta, currentThread, completed, quit, freed, ran,
                   pending, passed>>

\* Fault: list_insert_head for list_insert_tail.
BugInsertHead(h) ==
    /\ sched_queue' = <<info[h]>> \o sched_queue
    /\ HandlerGoto(h, "insert", "next")
    /\ UNCHANGED <<info, quanta, currentThread, completed, quit, freed, ran,
                   pending, passed>>

HandlerInsert(h) ==
    /\ sched_queue' = InsertTail(info[h])
    /\ HandlerGoto(h, "insert", "next")
    /\ UNCHANGED <<info, quanta, currentThread, completed, quit, freed, ran,
                   pending, passed>>

\* suspend_worker and cancel_worker, for a worker in its last quantum.
HandlerCancel(h) ==
    /\ HandlerGoto(h, "suspend", "leave")
    /\ LastQuantum(info[h])
    /\ quanta' = [quanta EXCEPT ![info[h]] = @ - 1]
    /\ Send(info[h], "TERM")
    /\ completed' = completed + 1
    /\ UNCHANGED <<info, currentThread, quit, freed, ran, sched_queue, passed>>

\* Fault: the worker's memory is freed but its list entry stays.
BugLeaveEntry(h) ==
    /\ freed' = freed \cup {info[h]}
    /\ HandlerGoto(h, "leave", "next")
    /\ UNCHANGED <<info, quanta, currentThread, completed, quit, ran, pending,
                   sched_queue, passed>>

\* leave_scheduler_queue, called by cancel_worker.
HandlerLeave(h) ==
    /\ sched_queue' = Without(info[h])
    /\ freed' = freed \cup {info[h]}
    /\ HandlerGoto(h, "leave", "next")
    /\ UNCHANGED <<info, quanta, currentThread, completed, quit, ran, pending,
                   passed>>

\* Fault: an empty queue is taken for the end.
BugNextUnwaited(h) ==
    /\ info' = [info EXCEPT ![h] = IF sched_queue = <<>> THEN NoWorker
                                                        ELSE Head(sched_queue)]
    /\ HandlerGoto(h, "next", "resume")
    /\ UNCHANGED <<quanta, currentThread, completed, quit, freed, ran, pending,
                   sched_queue, passed>>

\* next_worker: nobody when all are completed, else spin in wait_for_queue until
\* there is a head.
HandlerNext(h) ==
    /\ IF completed >= thread_count
       THEN info' = [info EXCEPT ![h] = NoWorker]
       ELSE sched_queue # <<>> /\ info' = [info EXCEPT ![h] = Head(sched_queue)]
    /\ HandlerGoto(h, "next", "resume")
    /\ UNCHANGED <<quanta, currentThread, completed, quit, freed, ran, pending,
                   sched_queue, passed>>

\* The end of timer_handler, and of its local variables.
Return(h) ==
    /\ HandlerGoto(h, "resume", "none")
    /\ info' = [info EXCEPT ![h] = NoWorker]

\* The new current worker is resumed; but for timer_handler itself nobody looks at
\* currentThread between the assignment and pthread_kill.
HandlerResume(h) ==
    LET next == info[h] IN
    /\ next # NoWorker
    /\ currentThread' = next
    /\ Send(next, "USR2")
    /\ ran' = [ran EXCEPT ![next] = @ + 1]
    /\ passed' = [w \in Workers |->
                    IF w = next THEN {} ELSE passed[w] \cup {next}]
    /\ Return(h)
    /\ UNCHANGED <<quanta, completed, quit, freed, sched_queue>>

\* There is no next worker: quit.
HandlerQuit(h) ==
    /\ info[h] = NoWorker
    /\ currentThread' = NoWorker
    /\ quit' = TRUE
    /\ Return(h)
    /\ UNCHANGED <<quanta, completed, freed, ran, pending, sched_queue,
                   passed>>

Handler(h) == HandlerEmpty(h) \/ HandlerSize(h) \/ HandlerSuspend(h) \/ HandlerRemove(h)
              \/ HandlerInsert(h) \/ HandlerCancel(h) \/ HandlerLeave(h)
              \/ HandlerNext(h) \/ HandlerResume(h) \/ HandlerQuit(h)

-----------------------------------------------------------------------------
(* The scheduler thread and main, when not in the handler                  *)

SchedulerUnchanged ==
    UNCHANGED <<requested, quanta, sched_queue, queue_sem, currentThread,
                completed, quit, handler, info, freed, suspended, pending,
                ran, passed>>

\* scheduler_run: wait_for_queue, then start the timer.
StartTimer ==
    /\ sched = "wait"
    /\ sched_queue # <<>>
    /\ sched' = "loop"
    /\ SchedulerUnchanged /\ UNCHANGED <<main, worker>>

\* while (!quit)
SchedulerDone ==
    /\ sched = "loop" /\ handler["sched"] = "none"
    /\ quit
    /\ sched' = "done"
    /\ SchedulerUnchanged /\ UNCHANGED <<main, worker>>

\* A round of the loop of create_workers.
CreateWorker(w) ==
    /\ main = "create" /\ handler["main"] = "none"
    /\ worker[w] = "unborn"
    /\ worker' = [worker EXCEPT ![w] = "born"]
    /\ main' = IF \A u \in Workers \ {w} : worker[u] # "unborn" THEN "join"
                                                                 ELSE "create"
    /\ SchedulerUnchanged /\ UNCHANGED sched

\* pthread_join, clean_up and pthread_exit.
CleanUp ==
    /\ main = "join" /\ handler["main"] = "none"
    /\ sched = "done"
    /\ main' = "exited"
    /\ SchedulerUnchanged /\ UNCHANGED <<sched, worker>>

\* The last thread is gone, and the process with it.
Terminated ==
    /\ main = "exited" /\ \A w \in Workers : worker[w] = "dead"
    /\ UNCHANGED vars

Next ==
    \/ \E w \in Workers : Worker(w) \/ CreateWorker(w)
    \/ \E h \in Hosts : Tick(h) \/ Handler(h)
    \/ StartTimer \/ SchedulerDone \/ CleanUp
    \/ Terminated

\* Every thread gets processor time and the timer is periodic.  What timer_handler
\* interrupts goes on when it returns, long before the quantum is over, hence the
\* strong fairness of main, of the scheduler thread and of new workers.
Fairness ==
    /\ \A w \in Workers :
          /\ WF_vars(EnterInsert(w) \/ FirstSuspend(w) \/ CancelThread(w))
          /\ WF_vars(EnterWait(w)) /\ WF_vars(TakeSuspend(w))
          /\ WF_vars(TakeResume(w)) /\ WF_vars(TakeCancel(w))
          /\ SF_vars(CreateWorker(w)) /\ SF_vars(BlockAlarm(w))
    /\ \A h \in Hosts : WF_vars(Handler(h))
    /\ WF_vars(\E h \in Hosts : Tick(h))
    /\ SF_vars(StartTimer \/ SchedulerDone)
    /\ SF_vars(CleanUp)

Spec == Init /\ [][Next]_vars
FairSpec == Spec /\ Fairness
-----------------------------------------------------------------------------
(* Correctness                                                             *)

WorkerAt == {"unborn", "born", "start", "enter", "entered", "wait", "running",
             "cancel", "dead"}
HandlerAt == {"none", "size", "suspend", "remove", "insert", "leave", "next",
              "resume"}

\* Every variable has its type; with no worker asked for 0 quanta, the count
\* of quanta left stays a natural number.
TypeOK ==
    /\ requested \in [Workers -> QuantaChoices]
    /\ quanta \in [Workers -> Int]
    /\ sched_queue \in Seq(Workers)
    /\ queue_sem \in Nat
    /\ currentThread \in Workers \cup {NoWorker}
    /\ completed \in Nat
    /\ quit \in BOOLEAN
    /\ main \in {"create", "join", "exited"}
    /\ sched \in {"wait", "loop", "done"}
    /\ handler \in [Hosts -> HandlerAt]
    /\ info \in [Hosts -> Workers \cup {NoWorker}]
    /\ freed \subseteq Workers
    /\ worker \in [Workers -> WorkerAt]
    /\ suspended \subseteq Workers
    /\ pending \in [Workers -> SUBSET {"USR1", "USR2", "TERM"}]
    /\ ran \in [Workers -> Nat]
    /\ passed \in [Workers -> SUBSET Workers]

InScheduler == {w \in Workers : worker[w] \in {"entered", "wait", "running"}}
Cancelled == {w \in Workers : quanta[w] = 0}
Moving == {info[h] : h \in {g \in Hosts : handler[g] = "insert"}}

\* The queue holds each worker that has entered and is not cancelled exactly
\* once, but for the one timer_handler is moving to the tail, although workers
\* enter while the handler moves others.
QueueExact ==
    /\ Len(sched_queue) = Cardinality(Queued)
    /\ InScheduler \ (Cancelled \cup Moving) \subseteq Queued
    /\ Queued \ Cancelled \subseteq InScheduler \ Moving

\* No more workers than queue_size are in the scheduler at one time.  The one
\* being cancelled does not count: it gives its room away (worker.c) before
\* the handler takes it off the list.
QueueBounded == Cardinality((Queued \ Cancelled) \cup Moving) <= QueueSize

\* A worker is resumed as many times as the quanta asked for it: never more,
\* and not less by the time it is told to end.
RunsItsQuanta ==
    \A w \in Workers :
        /\ ran[w] <= requested[w]
        /\ worker[w] \in {"cancel", "dead"} => ran[w] = requested[w]

\* A worker that does its work, and has no signal to act on that stops it, is
\* the scheduler's current one: at most one worker has the processor.
OnlyCurrentRuns ==
    \A w \in Workers :
        (/\ worker[w] = "running" /\ w \notin suspended
         /\ pending[w] \cap {"USR1", "TERM"} = {}) => w = currentThread

\* Nothing timer_handler is about to read or write has been freed, although
\* currentThread points to the worker that was cancelled until next_worker returns.
NoUseAfterFree ==
    /\ Queued \cap freed = {}
    /\ \A h \in Hosts :
          /\ handler[h] = "size" /\ sched_queue # <<>> => currentThread \notin freed
          /\ handler[h] \in {"suspend", "remove", "insert", "leave", "resume"}
                => info[h] \notin freed

\* The scheduler gives up only when every worker has had all of its quanta: "scheduler
\* being empty is not the right condition to exit scheduler" (README.txt:24), as the
\* queue may be empty while workers wait to enter.
QuitOnlyWhenComplete == quit => completed = thread_count

\* Round robin: while a worker stays in the queue, no other worker is resumed
\* twice.
Resumed(w) == ran'[w] # ran[w]
NoOvertaking ==
    [][\A next \in Workers : Resumed(next) =>
          \A w \in Queued \ {next} : next \notin passed[w]]_vars

\* Every worker runs its quanta and ends, and so do the scheduler and main,
\* whichever workers the queue has no room for at first.
Termination ==
    <>(main = "exited" /\ sched = "done"
       /\ \A w \in Workers : worker[w] = "dead")

\* README.txt, question 5: the scheduler finishes when all the worker threads
\* are dead.
FinishesWhenDead == sched = "done" => \A w \in Workers : worker[w] = "dead"
=============================================================================
