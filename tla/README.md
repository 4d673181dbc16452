# A verification project for unixSysProg

The repository holds the programming assignments of a systems course: programs
that share memory between threads, translate addresses, schedule threads with
signals, and run commands for a user.  This directory holds TLA+ models of the
ones whose behaviour is hard to test, TLC configurations that check them on small
instances, and proofs, checked by TLAPS, that what matters most holds for every
size.

    tlc -config bb.cfg BoundedBuffer          # check one run, see the table below
    tlapm BoundedBufferProofs.tla             # check one module's proofs

Source paths below are relative to `src/`.

## 1. Inventory

### pa3_1/pthread_1: a bounded buffer

* *State*: `buffer`, `buffer_index`, three semaphores: `empty` (items), `full`
  (free slots), `mutex`; one loop counter per producer.
* *Operations*: the loops of `producer_function` and `consumer_function`; `main`
  creates the threads, joins the producers, and takes the mutex in a busy loop
  until it sees `buffer_index == 0`; it then returns, which kills the consumers.
* *Interaction*: shared memory and semaphores only.
* *Hard*: every interleaving; the busy loop competes with the consumers; the end
  is decided by looking at the buffer, not by joining the consumers.
* *Correct if*: accesses are exclusive and in bounds, no slot or item is lost or
  invented, nothing is unread when `main` returns 0, and `main` returns.

### pa2_2/proc_con: a monitor

* *State*: five semaphores (the monitor's, one per condition variable's data,
  two to block on), two flags `blocked`, two counts of blocked threads, the
  buffer (one slot) and its index, -1 when empty.
* *Operations*: `monitor_insert`, `monitor_remove`, the two functions that read a
  count, and `main`, which polls until every consumer is blocked.
* *Hard*: nested locks; wakeups sent before the sleeper sleeps; counts read under
  a lock and used after it; signals that are too many; the end inferred from the
  number of blocked threads.
* *Correct if*: the locks exclude, flags and counts agree with what they
  describe, no wakeup is lost, all input is read at the end, the end comes, and
  what is removed is what was inserted.

### pa3_2/VirtualMemoryManager: translation without replacement

* *State*: a TLB of 16 entries replaced round robin, a page table, 256 frames for
  256 pages taken round robin, a backing store file, counters.
* *Operations*: `readByte` for each address of a file: TLB hit, page table hit, or
  page fault; a failing `lseek` ends the read with an error.
* *Hard*: nothing checks that a frame handed out is free; five structures must
  agree after any sequence of reads and failures.
* *Correct if*: it is a memory: each read returns the backing store's byte, each
  page is loaded once.

### pa3_3/VMM2: translation with replacement

As above, with a working set of free frames whose number the user chooses, and
FIFO or LRU replacement when there is none left: the page table numbers its
entries, finds the victim with the lowest number, looks up who owns its frame,
invalidates that page and its TLB entry.

* *Hard*: eviction touches everything; the numbers must also be right for pages
  that only ever hit the TLB; an old TLB entry may outlive its page.
* *Correct if*: frames are neither leaked nor shared, table and TLB tell the truth,
  reads return the backing store's bytes, and replacement is what its name says.

### pa4_1: a round robin scheduler

* *State*: the queue (a doubly linked list under a lock), its semaphore,
  `currentThread`, `completed`, `quit`, the quanta of each worker; for each thread
  its pending signals.
* *Operations*: a timer sends SIGALRM once a quantum; `timer_handler` suspends the
  current worker (SIGUSR1) and moves it to the tail, or cancels it (SIGTERM) and
  frees its memory, and resumes the head (SIGUSR2).  Workers wait for room, insert
  themselves, wait to be resumed, and handle the signals.  The scheduler thread
  starts the timer and ends when `quit` is set; `main` creates the workers, joins
  the scheduler thread, cleans up.
* *Interaction*: signals between threads, one semaphore, one list, globals.
* *Hard*: `timer_handler` runs on whichever thread SIGALRM interrupts and may have to
  wait there for a worker, while the next SIGALRM interrupts another thread; signals
  are delivered late and not queued; memory is freed by one thread while others use
  it; an empty queue may or may not be the end.
* *Correct if*: the queue holds who it should, in order and within its size, each
  worker runs its quanta and no more, one at a time, nothing freed is used, and
  everybody ends.

### pa4_1: a test runner

* *State*: `child_pid`, `sent_child_timeout_kill_signal`, the alarm, the counts of
  tests run, passed and failed; one child process at a time.
* *Operations*: for each test of the target: fork, `sigaction`, `alarm`, `waitpid`,
  `alarm(0)`, a last `kill`, the verdict; the handler of SIGALRM kills `child_pid`.
  The loop stops at the first failure, unless an option `-fN` is given.
* *Hard*: the handler runs between any two steps; `waitpid` is restarted or fails,
  as `sa_flags` is not initialised; a failed fork leaves `child_pid` at -1 and runs the
  test in the runner, which ends with it.
* *Correct if*: a zero exit code means that every test of the target passed (or what can
  be said of it when a test has ended the runner), a test is killed only when its own
  time is up, and the runner ends.

### a2/osh: a shell

* *State*: the tokens of a line and how many are taken; the list of commands; the
  command parsed last (`prevCommand`, kept from line to line); the descriptors of the
  shell and of its children; `exitShell`.
* *Operations*: `InputHandler` splits a line at spaces; `Parser::getCommandList` turns
  it into a list of commands joined by `|`, `||`, `&&`, `;` with redirections, or
  rejects it; `Executor::executeCommandList` makes a pipe if the command writes to
  one, forks, closes its write end, waits for those it must wait for, and skips a
  command according to the last status; `osh::run` does this for up to 23 lines.
* *Interaction*: the parser hands the executor a linked list; children inherit the
  descriptors the shell has open when they are forked, and block on pipes.
* *Hard*: which process has which end of a pipe; who waits for whom; skipping along
  `&&` and `||`; lines the grammar does not foresee; what the parser remembers.
* *Correct if*: the list is the one the line means and wrong lines are rejected, the
  commands run are those a shell would run, the shell never waits for ever, and no
  child outlives it for ever.

### The rest

`t1` sends a child one message through a pipe; `t2` and `t3` demonstrate `write` and `dup`;
`zlog` is a logging library copied into both memory managers; the memory
managers' `main.cpp` parse arguments and print statistics.

The hazards of all of these, each at its line, are in `PROJECT.json`, with the
properties that would catch them.

## 2. Modules

| Module | Models | Extends or instantiates |
|---|---|---|
| `ItemPool` | abstract: a bounded pool of items that is closed when all have come and gone | |
| `BoundedBuffer` | pa3_1 | instance of `ItemPool` |
| `ThreadCounting` | lemmas on the number of threads at some labels | |
| `BoundedBufferProofs` | theorems about `BoundedBuffer` | `BoundedBuffer`, `ThreadCounting` |
| `Monitor` | pa2_2 | instance of `ItemPool` |
| `MonitorProofs` | theorems about `Monitor` | `Monitor`, `ThreadCounting` |
| `DemandPaging` | abstract: demand paging with exact FIFO or LRU, no TLB, no frames | |
| `Tlb` | tlb.cpp of both managers, as operators on a value | |
| `PageTable` | pagetable.cpp of pa3_3, as operators on a value | |
| `Vmm2` | pa3_3: vmm.cpp composing TLB, page table, working set, memory, store | `Tlb`, `PageTable`, instance of `DemandPaging` |
| `Vmm2Proofs` | theorems about `Vmm2` | `Vmm2` |
| `Vmm1` | pa3_2 | `Tlb`, instance of `DemandPaging` |
| `Vmm1Proofs` | theorems about `Vmm1` | `Vmm1` |
| `Scheduler` | pa4_1 | |
| `SchedulerProofs` | theorems about `Scheduler` | `Scheduler` |
| `Grammar` | reference: what a command line means, by cutting it at its connectors | |
| `Parser` | a2/osh: parser.cpp, command.h, InputHandler.cpp | `Grammar` |
| `Osh` | a2/osh: executor.cpp and osh.cpp, composed with the parser and the children | `Parser` |
| `OshProofs` | theorems about `Osh` and the parser in it | `Osh` |
| `TestRunner` | pa4_1: testrunner.c | |
| `TestRunnerProofs` | theorems about `TestRunner` | `TestRunner` |
| `MCVmm1`, `MCVmm2`, `MCScheduler` | symmetry sets for TLC | |
| `MCParser`, `MCOsh` | the lines a user types | |

The operators called `Bug...` are plausible faults of the operation they precede.
They are used by no specification; each property is known to fail when one of
them takes the place of the operation.

### How state and actions correspond to the code

**BoundedBuffer.**  `pc[t]` is the line a thread is at: one action for each
`sem_wait` and `sem_post`, and `Load` and `StoreProduced`/`StoreConsumed` for the
two halves of `buffer_index += 1`, so that mutual exclusion is a property and not
an assumption.  All characters are 'X', hence the buffer is its index.  `stored`
and `fetched` are history.  `CreateFails` is the `bad_alloc` the code throws when
`pthread_create` fails; once `main` has returned no thread moves.

**Monitor.**  The labels `i_...` are the steps of `monitor_insert`, `r_...` of
`monitor_remove`, in the code's order; `Insert` and `Remove` read as the two
functions do.  `num[t]` is the value a count had when it was read.  The byte
before the array, which the first insert writes, is one more slot: it exists in
the heap block and the array is never freed.  `Fail` is an `exit` on a failed
`malloc` of a thread or the exception of `main`.

**Tlb, PageTable, Vmm2.**  Tables are values that the operators named after the
functions transform, and `Vmm2`'s five actions are the five ways through
`translate` and `readByte`: a TLB hit, a page hit, a failed seek, a fault with a
free frame, a fault with a victim.  An address is its page, as the offset is
carried along, and a block is the page it belongs to.  Access numbers are kept as
an order.  `TlbInvalidate` leaves the TLB alone because the code changes a copy.
`GetPage` can return garbage with success, as the code does when `read` fails; a
file that could not be opened is a seek that fails every time.

**Vmm1.**  The same four ways through `translate`, without victims.

**Scheduler.**  `worker[w]` is where a worker is in `start_worker` or
`cancel_thread`, `suspended` those interrupted by SIGUSR1, `pending` the signals
yet to be acted on (a set: signals are not queued).  `handler[h]` is where
`timer_handler` is on thread h, with one step per list operation, as each holds
the list's lock.  SIGALRM can interrupt `main`, the scheduler thread, and a
worker before it has blocked it (`BlockAlarm`), for workers inherit the mask of
`main`.  `ran` and `passed` are history.  Two constants name what the code
assumes of time:

* `PromptSignals`: signals are acted on within a quantum (one second): a tick comes only
  when they have been, and when `main` has created its workers and they have blocked
  SIGALRM.  Workers on their way into the queue may still take any time.
* `PromptEntry`: a worker `timer_handler` waits for, because the queue is empty
  (`Waiting`, `scheduler.c:178, 301-308`), enters within the quantum.  All else the
  handler does takes microseconds.  Only the thread in the handler blocks SIGALRM, so that
  a wait that outlasts the quantum lets the next tick run the handler on another thread
  (`Tick`).  With FALSE that is allowed, and is finding 4.

**Parser.**  One action per branch of `getCommandList` and what it calls.  A line is a
sequence of words and symbols; what the words are does not matter.  `Argv` takes the
words up to a symbol, `Continue` is the end of a round of the inner loop, `command`
the one being built, `prevOutput` all that is ever asked of `prevCommand`, and an
`argv` that is a null pointer is an empty one.  The symbol after a redirection is
taken as a file name, as in the code, and then also as a connector
(`RunAfterFile`).  `SkipBlank` is the `continue` that takes nothing from the line, and
`SpinOnWord` the round of the inner loop that changes nothing.

**Grammar.**  Written without the parser in mind: `Meaning` cuts a line at its
connectors and describes each segment; `WellFormed` and `Faulty` say which lines have
a meaning and which deserve an error.  It shares with `Parser` only the symbols and
`LeadingWords`.

**Osh.**  `phase` is where the shell is.  One round of `executeCommandList` is `Fork`
(with the pipe), `CloseWriteEnd`, and `WaitForChild` or `GoOn`, children moving in
between.  A process has the set of pipes whose read and write ends it has open; a pipe
is the number of bytes in it.  `Exec` is all a child does before `execvp`, with every
`open` failing or not; `KeptReads` is its `close`.  What a program does then is
external: `Readers` copy their input to their output, `Writers` write `Volume` bytes,
`Failing` ones fail.  A crash or an exit of the shell closes its descriptors.  A
`pipe` that fails is left out: 23 lines of 20 commands cannot use up the descriptors.

**TestRunner.**  `pc` is a line of the runner, and `AlarmGoesOff` the signal handler at
any of them; when `waitpid` is blocked it goes on or fails.  The wait statuses are the
numbers of `wait(2)`, because the verdict decodes them: the exit status of a process
that was killed reads as 0.  `fired` is history.  `kill(-1)` cannot happen, for the
alarm is not set when a test runs in the runner.  Such a test may return
(`InlineReturns`), be killed (`InlineCrashes`), hang, or end the process it runs in
(`InlineEndsRunner`): those of `smp5_tests.c` do the last, since `smp5_main` ends in
`pthread_exit(0)` or `exit(0)` and `quit_if` in `exit(1)`, and the runner's exit code is
then theirs.

## 3. Runs

Each run is the `.cfg` of its name.

| Run | Module | Shows |
|---|---|---|
| `bb` | `BoundedBuffer` | 3 producers, 2 consumers, 2 slots, 2 writes: exclusion, bounds, conservation, all input read, termination, implements `ItemPool` |
| `monitor` | `Monitor` | 2 producers, 2 consumers, 2 slots, 2 writes: locks, flags, counts, all input read, termination, implements `ItemPool` |
| `vmm1` | `MCVmm1` | 5 pages and frames, 3 TLB entries, 2 failed seeks: frames, fault count, implements `DemandPaging` |
| `vmm2_lru` | `MCVmm2` | 6 pages, 5 frames, 3 TLB entries, seeks fail: frames, table, TLB, reads, implements `DemandPaging` with LRU |
| `sched_prompt` | `MCScheduler` | 3 workers, queue of 2, 1 or 2 quanta, prompt signals and entries: one runs at a time, queue, quanta, freed memory, end, round robin, everybody ends |
| `parser` | `MCParser` | lines of up to 5 tokens, one after the other: the list is what the grammar means, faulty lines are rejected, the parser returns |
| `osh` | `MCOsh` | 2 lines out of 14: who has the write ends, which commands are run, crashes only on malformed lines, each line ends, nothing outlives the shell |
| `testrunner` | `TestRunner` | 3 tests of 4 kinds, any target, failing forks: a zero exit code is earned, nobody is killed for another, the runner ends |
| `monitor_slots` | `Monitor` | finding 1 |
| `vmm2_fifo_stale` | `MCVmm2` | finding 2 |
| `sched_finish` | `MCScheduler` | finding 3 |
| `sched_empty` | `MCScheduler` | finding 4 |

### Bounds

* `bb`: fewer slots than producers and more than one, so that both kinds of thread
  block and the buffer is empty, full and in between; two writes let a producer
  come back.  The theorems need no bound.
* `monitor`: `monitor.c` has one slot and `main.c` two threads of each kind; two
  slots add the state in which the buffer is neither full nor empty.  One slot
  passes too.
* `vmm2_lru`: a TLB entry of a page is overwritten at the latest by the third page
  that misses after it, and LRU keeps a page for as long as there are frames for
  everything read since.  A sweep over small sizes found the TLB right under LRU
  exactly when NumFrames >= 2*TlbSize-1; that it is right then is now a theorem.  The
  run has equality, and one page more than frames.  With fewer frames LRU fails like
  FIFO does.  The code has 16 entries and 256 frames unless told otherwise.
* `vmm1`: as many frames as pages, as in `globals.h`, and more than TLB entries;
  `MaxFailures` bounds only the number of failed seeks, which change nothing but
  counters.
* `sched_prompt`: three workers for a queue of two, so that one waits for room while
  the others go round; one quantum and two, so that some are cancelled at once
  and others move to the tail.  Workers take any time to enter, so that the handler does
  find the queue empty after a cancellation and waits.  `sched_empty` has two workers for
  a queue of one, where it always does.
* `parser`: five tokens over two words, `<`, `>`, `|` and `&&`, and three over all
  symbols, are enough for a command with both redirections, two redirections of one
  kind, a pipe or a conditional between redirected commands, and every symbol where
  it does not belong; the state carried over is one of five, so that lines are read
  one after the other without end.  Three rounds, not 50: some lines are cut short.
* `osh`: a chain of two pipes and one of three, which is longer than the three commands
  a list may execute here (20 in the code); each conditional taken and not taken; a
  file that does and does not open; a rejected line and two that crash the shell, each
  before and after every other line.  A pipe holds one byte and writers write two, so
  that writers block.  `MaxLines` is 2: what a line leaves behind (the command
  remembered, read ends, blocked children) meets each line that can follow.
* `testrunner`: three tests are needed for an alarm or a `child_pid` left over from one to
  meet the next, with a test before to make the counts differ.
* Symmetry: workers and pages are only compared for equality and every initial
  state set is closed under permutation.  It is used in no run with a liveness
  property.

### Fairness

* `BoundedBuffer`: weak fairness for each thread: the operating system gives
  processor time to all.  Strong fairness for a consumer's `sem_wait(mutex)`: `main`
  releases the mutex infinitely often and a scheduler that never lets the consumer
  in between is excluded.  Creation may fail but is never owed a failure.
* `Monitor`: likewise, strong only for a consumer's wait on the consumers' mutex,
  which `main` takes once in five seconds.
* `Scheduler`: weak fairness for the workers and the handler, and for the periodic
  timer; strong for `main`, the scheduler thread and new workers, which go on
  whenever the handler that interrupts them has returned.

* `Parser`, `Osh`, `TestRunner`: weak fairness for the sequential program, as it is
  scheduled; for each child likewise, and a program that reads a terminal is taken to
  get its end of input.  A user need not type another line; `LeaveShell` after the last
  one is fair.  An alarm that is set goes off.  Nothing is asked of tests that hang.

The reads of the memory managers are a sequential program without liveness
properties: every read is one step.

`osh` and `testrunner` do not check for deadlock, as the program ends there, with or
without its children; that it does end is what their liveness properties say.  All other runs check for it.

### Findings

1. `monitor_insert` stores at an index and increments it afterwards, starting
   from -1; `monitor_remove` loads at an index and decrements it afterwards.  The
   first store is outside the array and a remove never returns what the matching
   insert stored (`monitor.c:173, 259` against the comments at 129 and 213).
2. `Tlb::invalidate` clears the valid bit of a copy (`tlb.cpp:113-121`).  Under FIFO
   a TLB of two entries is enough for a read to return another page's byte.
3. The scheduler finishes when the last worker has been told to end, not when it is
   dead (`scheduler.c:205-210` against `README.txt:22`), so that the semaphore can be
   destroyed before the worker posts it.
4. The scheduler takes an empty queue for the end (`scheduler.c:192-195` against
   `README.txt:24`).  At the end of the only worker in the queue the handler waits for the
   next one to enter; if that takes until the next SIGALRM, which interrupts another
   thread, the handler on that thread finds the queue empty and sets `quit` with workers
   left.

### Variants not among the runs

* Monitor: `SignalsOnlyBlocked` is violated.  The count of blocked producers only grows:
  after the first one has blocked, every remove posts `cond_full` (`monitor.c:263-269`
  against the comment at 262).  It does no harm, as `Termination` shows.
  `IndexInRange` holds.
* Scheduler: with 0 among `QuantaChoices`, `RunsItsQuanta` is violated: such a worker runs
  for ever (`scheduler.c:152` against the usage text at 331).
  With late signals (`PromptSignals = FALSE`) and prompt entries the other six safety
  properties of `sched_prompt` hold, as the theorems say for every size.
  `OnlyCurrentRuns` is violated (a worker resumed before it acted on its suspension loses
  one of the two signals' effects) and so is `Termination`: `wait_for_queue` inside
  `timer_handler` can spin on `main` for a worker `main` has yet to create.
  With `PromptEntry = FALSE`, signals prompt or not, `NoUseAfterFree`, `RunsItsQuanta`,
  `QueueExact` and `QueueBounded` are violated besides `QuitOnlyWhenComplete`: while one handler waits `currentThread` is the worker
  that has been cancelled and freed, and a second handler that finds the queue no longer
  empty suspends it once more (`scheduler.c:198`).
* Vmm2: with `"read"` among `DiskFaults`, `TableCoherent` is violated, because `getPage`
  reports success for a failed `read`.  Under FIFO with a single TLB entry, 4 pages and
  3 frames, `PagingSpec` holds: replacement is exactly FIFO.
* The type invariants of the modules hold in their runs as well; they are not listed
  there, as the other properties say more.
* Parser: `ParsesGrammar` fails without `carried # "pipe"`: after `a | | b` the next
  line's first command reads from a pipe that does not exist (`parser.cpp:42`).
  `ParserReturns` fails without its condition: `ls > out foo` makes the parser spin
  (`parser.cpp:316-354`).  `RejectsExactlyFaulty` leaves out lines that end in a pipe,
  which are accepted and crash the executor, and lines that start with a
  symbol: those are dropped in silence if they come first, and otherwise give a command
  whose `argv` is a null pointer, which crashes the executor too.
* Osh: `SkipsAsShell` fails with `RepeatedConditional`: `false && a && b` runs `b`, for a skip
  takes exactly one command (`executor.cpp:344`).  In `false && a | b` the skip takes `a`
  and runs `b` on a pipe that was never made, which is why the property is stated of
  lists without pipes.  `gen | true` leaves `gen` blocked until the shell ends, for the
  shell keeps the read end (`executor.cpp:326`).
* TestRunner: a test that has passed may be reported `TIMEOUT`, when the alarm goes off
  between `waitpid` and `alarm(0)`.  With a failed fork and a test that hangs the runner
  hangs (`testrunner.c:93` against the comment at 72).  A zero exit code does not always
  mean that every test of the target passed: after a failed fork the test runs in the
  runner, `smp5_main` ends it with 0 (`scheduler.c:462`), and the tests after it never run;
  with `-fN` one before it may have failed.  `GreenMeansAllPassed` says what is left of the
  claim then.

## 4. Proofs

The modules `...Proofs` hold theorems for every value of the constants, under the
assumptions named in the modules: finite, disjoint sets of threads, at least one slot;
at least one frame and TLB entry, `NoFrame` not a number; at least one
test; lines of words and symbols, and `NoToken`, the empty string, none of them nor an
output mode.  Where a theorem needs more it says so as a
hypothesis, and the hypothesis is discussed below.

**Bounded buffer.**  `TypeCorrect` needs `mutex \in {0,1}`, which is not inductive on
its own, so it rests on `LockInv`: `mutex` plus the number of threads in the locked
section, `main` included, is 1.  `MutexHeldByOne` follows.  `IndexIsExact` then shows
that whoever is between load and store has the current index in its register.
`SlotsAreConserved` is `CountInv`, two sums over program counters; each step moves
one thread between labels, which changes each cardinality by at most one, as
the lemmas of `ThreadCounting` say.  `BufferNeverOverrun` follows from the two sums:
a producer at its load is itself one of those counted as having claimed a slot.
`AllInputIsRead` takes the count of items written as a count of pairs of producer and
round, so that no sum over a set is needed, and `BufferIsPool` maps every step to a step
of `ItemPool` or a stutter.

**Monitor.**  The same argument with three mutexes: `MonitorHeldByOne` is that each
semaphore plus the threads between its `wait` and `post` is 1.  `FlagsAreExact` and
`IndexStaysInRange` need each other: the flags keep the index in range only because they
are right whenever nobody is inside, and they are right only because the index moves by
one.  `NoLostWakeup` relates the two counts of blocked threads, the semaphores they block
on and the posts under way.  `AllInputIsRead` and `MonitorIsPool` follow, as above.

**Memory manager with replacement.**  `FramesNeverLeaked` is inductive with the type
invariant: an eviction invalidates exactly the page that owns the victim's frame, a
failed seek takes nothing.  `TableNeverLies` adds that only the owner's frame is
overwritten; it is proved under the hypothesis that `read` does not fail, which is
necessary (see the variants).  `TlbNeverAmbiguous` holds because an entry is added only
after a miss.  That the TLB is right although `invalidate` has no effect is proved twice:

* with as many frames as pages `FramesNeverLeaked` leaves a free frame for every fault
  (`AlwaysAFreeFrame`), and nothing is ever evicted;
* under LRU with at least `2 * TlbSize - 1` frames, for any number of pages, a page's
  entry is overwritten before the page is evicted.  The inductive invariant,
  `RecencyInv`, bounds the pages read after a cached one that are not cached themselves
  by the age of its entry.  The victim is the page read before all others in memory
  (`OrderInv`, `NumberedOrder`); those are `NumFrames - 1`, at most `TlbSize - 1` of them
  cached, so that a cached victim's entry must be the oldest (`VictimIsOldest`), and it
  is the one the victim's successor overwrites in the same step.

`ReadsRightWithEnoughFrames` and `ReadsRightUnderLru` follow, and so do
`ManagerIsPagingWithEnoughFrames` and `ManagerIsLruPaging`: every read maps to a hit, a
fault or a failure of `DemandPaging`.  The sequence of pages in memory is the only one
that lists the valid pages in the order of their numbers (`OneEnumeration`); a number
given to a page moves it to the end (`NumberedKeeps`, `NumberedJoins`, `OthersStay`); and
the victim is the head of that sequence.

**Memory manager without replacement.**  `FrameInv` relates the frame number last
handed out to the valid pages, which bounds it: a page is never loaded twice, so the
round robin cannot come round.  `PageFaultsMaxOut` and `FramesStayOwned` follow;
`ManagerIsDemandPaging` adds `ReadInv`, that table and TLB tell the truth, again provided
`read` does not fail.

**Scheduler.**  One invariant, `SchedulerInv`, proved in `Invariance`, carries all
theorems: what a handler at each of its steps knows (`HandlerInv`), who is at the head of
the queue (`HeadInv`) and in it (`QueueInv`), what each worker has run and has left to run
(`LifeInv`), the two counters (`CountInv`), and who was resumed since whom (`OrderInv`).
`NobodyOvertakes` is an action property: a worker is resumed only from the head, and
whoever it has overtaken once is ahead of it.  `OnlyOneRuns` adds `SignalInv`,
which signals a worker can have pending, and needs `PromptSignals`, without which it is
violated.  All theorems are under `Timely`: a worker the handler waits for enters within
the quantum, and no worker asks for 0 quanta.  The first is no detail: it is what keeps
a second handler from starting before the first has ended, the code does nothing to
ensure it, and without it `QuitsWhenComplete` is false (run `sched_empty`), as are the
theorems on the properties named in the variants.  Under it nothing else is asked of the timing: threads
may be held up at will, and the queue may be empty when there are workers left.  Without
the second `QuantaAreRun` is false.

**Parser.**  `ParserTypeCorrect` is inductive.  `ParserFollowsGrammar` and
`FailsExactlyWhenFaulty` compare a parser that reads one token at a time with `Grammar`,
which cuts the whole line at its connectors.  They rest on one invariant, `Understood`.
For a line with a word first, a file after each redirection and no pipe at the end
(`Regular`; each line of the two properties is one, `WellFormedRegular`) it says that
while the line is parsed

* the commands taken are the first segments of the line, each acceptable and with the
  fields the segment asks for (`ParsedSoFar`), and `prevOutput` is the last one's output;
* between two commands the next token is the first of the next segment (`AtSegment`);
* within a command the tokens passed over are its words and pairs of a redirection and a
  file, and `command` holds what those alone mean (`InSegment`);

and that at the end (`Outcome`) all segments were taken, or none because one of them is
not acceptable.  `CutFacts`, `SegmentFacts` and `InSomeSegment` are about the cuts, which
are defined with a sort; `InputTaken`, `OutputTaken` and `Completed` say what one more
redirection, or the end of the segment, does to the meaning.  `AcceptedIsClear` and
`ExpectedIsMeant` connect the invariant with the grammar.  Both theorems keep the hypothesis of the
properties that no pipe was left behind by the line before (`carried # "pipe"`; without
it they are false, section 3).

**Shell.**  `GoodLinesAreSafe` follows from the same invariant, now of the shell: on a
line that follows the grammar each command has words and a pipe is never the last
output, so that the two pointers `NullDereference` speaks of are not null.  A pipe left
behind does no harm here: the parser either rejects the line or takes commands that have
words.  `WritersAreAlone` rests on `OshInvariance`:
the write ends a process has are of the pipe made for it, pipes made for different
processes differ, and the shell has at most the last one, between `fork` and `close`.
`SkippingIsShells` speaks of `SucceededBy`, which is defined by recursion over the list: the
library's induction theorems take a predicate, which the provers cannot instantiate, so
`LeastNatural` is proved from the well-foundedness of finite sets, `InductiveSet` is
induction for a set, and `RecursiveFunction` shows that the recursive definition has a
solution, from which `StatusEquation` follows.  `SkipInv` then says that all commands before
the current one were run exactly if due, and that the current one is due; without a
repeated operator the one after a skipped command is due again (`SkipStep`).

**Test runner.**  One inductive invariant, `Inv`, carries all three theorems.
`KilledInItsOwnTime` needs `ChildIsOwn` and `AlarmIsOwn`: while an alarm is set it is the
one for test `i`, and `child_pid` is that test's child.  `GreenMeansAllPassed` needs to
look back: `CountsAddUp` makes a zero exit code the absence of failures, and
`NoFailureSoFar` says that without failures every test before `i` has succeeded.  A test
adds to that only when its verdict is right, which is `ChildEnded` (a status that was
returned is the child's own) and the lemma `PassedMeansSuccess` (among the numbers
`wait(2)` can leave behind, -1 included, only that of `exit(0)` decodes as success).
When a test has ended the runner itself nothing is known of the tests after it;
`OneFailureAtMost` says that without `-fN` the failure counted is that test's own, as yet,
so that those before it have succeeded.

**Only model-checked**: liveness under fairness and the absence of deadlock
(`Termination`, `LineEnds` and the like), which are out of the prover's reach.  Every
invariant and every step property of a passing run is stated by a theorem, under the
hypotheses given above.

## 5. Not modelled

The accounting of times in pa4_1, the counters printed by the memory managers but
for the page faults of pa3_2, log output, argument parsing (the memory managers accept
any number of frames and any strategy; the scheduler any number of workers and a queue
of size 0), the locks of the C library that `printf` takes in signal handlers, the bytes
within a page, the splitting of a line into tokens, and the functions nothing calls.
Some functions of the memory managers that return `int` end without a return
statement; their results are not used and they are modelled as what they do.

`t1` is a straight line in a parent and one child, with one write that fits the pipe;
`t2`, `t3` and `zlog` have no state of interest.

## 6. Plan

1. Done: all components that keep state; theorems about each of them.
2. Done: a theorem for every safety property of the runs that pass, and for the
   refinements of `ItemPool` and `DemandPaging`.
