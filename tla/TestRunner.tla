----------------------------- MODULE TestRunner -----------------------------
(***************************************************************************)
(* pa4_1/testrunner.c: every selected test runs in a process of its own    *)
(* under a time limit.                                                     *)
(*                                                                         *)
(* The runner forks, sets an alarm, and waits for the child.  SIGALRM may  *)
(* be handled between any two steps of the runner while the alarm is set,  *)
(* and kills whatever child_pid holds then.  sa_flags is uninitialised:    *)
(* waitpid either goes on after the handler or fails with EINTR.  When     *)
(* fork fails the test runs in the runner itself, without a time limit,    *)
(* and what ends the test's process then ends the runner's.                *)
(*                                                                         *)
(* Wait statuses are those of wait(2).                                     *)
(***************************************************************************)
EXTENDS Integers

CONSTANT TestCount

ASSUME TestRunnerAssumption == TestCount \in Nat \ {0}

Tests == 1..TestCount

\* What a test does when it runs.
Behaviours == {"passes", "fails", "crashes", "hangs"}

NoChild == 0          \* child_pid when there is none
Failed == -1          \* what fork and waitpid return on errors
NoStatus == -1        \* what wait_status is set to before waitpid
Unset == 0            \* no alarm, or no test

\* exit(0), exit(1), SIGSEGV and SIGKILL.
ExitSuccess == 0
ExitFailure == 256
Crashed == 11
Killed == 9

Statuses == {NoStatus, ExitSuccess, ExitFailure, Crashed, Killed}

WIFEXITED(s) == s % 128 = 0
WEXITSTATUS(s) == (s \div 256) % 256

VARIABLES
    pc,
    i,            \* the test the loop has come to
    selected,     \* the tests that match the target
    behaviour,    \* what each of them does
    maxErrors,    \* max_errors_before_quit
    ran, passed, failed,
    childPid,     \* child_pid; the child of a test has its number
    child,        \* state and wait status of every child
    alarm,        \* the test for which the alarm is set
    sent,         \* sent_child_timeout_kill_signal
    waitVal, waitStatus,
    exitCode,     \* what the runner's process exits with
    fired         \* history: the tests whose alarm has gone off

stats == <<ran, passed, failed>>
setup == <<selected, behaviour, maxErrors>>
vars == <<pc, i, setup, stats, childPid, child, alarm, sent, waitVal,
          waitStatus, exitCode, fired>>

\* The errors tolerated are 1 or, with any option -fN, atoi("fN") = 0: no limit.
Init ==
    /\ pc = "loop" /\ i = 1
    /\ selected \in SUBSET Tests
    /\ behaviour \in [Tests -> Behaviours]
    /\ maxErrors \in {0, 1}
    /\ ran = 0 /\ passed = 0 /\ failed = 0
    /\ childPid = NoChild
    /\ child = [t \in Tests |-> [state |-> "none", status |-> NoStatus]]
    /\ alarm = Unset /\ sent = FALSE
    /\ waitVal = Failed /\ waitStatus = NoStatus
    /\ exitCode = 1
    /\ fired = {}

-----------------------------------------------------------------------------
(* run_testrunner                                                          *)

MoreTests == i <= TestCount /\ (maxErrors < 1 \/ failed # maxErrors)

SkipTest ==
    /\ pc = "loop" /\ MoreTests /\ i \notin selected
    /\ i' = i + 1
    /\ UNCHANGED <<pc, setup, stats, childPid, child, alarm, sent, waitVal,
                   waitStatus, exitCode, fired>>

\* run_one_test counts a test as failed until it has passed.
StartTest ==
    /\ pc = "loop" /\ MoreTests /\ i \in selected
    /\ pc' = "invoke"
    /\ ran' = ran + 1 /\ failed' = failed + 1
    /\ UNCHANGED <<i, setup, passed, childPid, child, alarm, sent, waitVal,
                   waitStatus, exitCode, fired>>

Return ==
    /\ pc = "loop" /\ ~MoreTests
    /\ pc' = "returned"
    /\ exitCode' = IF passed = ran /\ ran > 0 THEN 0 ELSE 1
    /\ UNCHANGED <<i, setup, stats, childPid, child, alarm, sent, waitVal,
                   waitStatus, fired>>

\* The end of run_one_test.
Count(result) ==
    /\ failed' = IF result = 0 THEN failed - 1 ELSE failed
    /\ passed' = IF result = 0 THEN passed + 1 ELSE passed
    /\ i' = i + 1
    /\ pc' = "loop"
    /\ UNCHANGED ran

-----------------------------------------------------------------------------
(* invoke_test_with_timelimit                                              *)

\* assert(!child_pid): a fork that failed has left -1 there.
Abort ==
    /\ pc = "invoke" /\ childPid # NoChild
    /\ pc' = "aborted"
    /\ UNCHANGED <<i, setup, stats, childPid, child, alarm, sent, waitVal,
                   waitStatus, exitCode, fired>>

Fork ==
    /\ pc = "invoke" /\ childPid = NoChild
    /\ pc' = "arm"
    /\ childPid' = i
    /\ child' = [child EXCEPT ![i].state = "running"]
    /\ UNCHANGED <<i, setup, stats, alarm, sent, waitVal, waitStatus, exitCode,
                   fired>>

ForkFails ==
    /\ pc = "invoke" /\ childPid = NoChild
    /\ pc' = "inline"
    /\ childPid' = Failed
    /\ UNCHANGED <<i, setup, stats, child, alarm, sent, waitVal, waitStatus,
                   exitCode, fired>>

InlineEnds(status) == child' = [child EXCEPT ![i] =
                                  [state |-> "inline", status |-> status]]

\* A test function may return to the runner.  None of smp5_tests.c does: they call
\* smp5_main, which ends in pthread_exit or exit.
InlineReturns ==
    /\ pc = "inline" /\ behaviour[i] \in {"passes", "fails"}
    /\ LET result == IF behaviour[i] = "passes" THEN 0 ELSE 1 IN
       /\ InlineEnds(256 * result)
       /\ Count(result)
    /\ UNCHANGED <<setup, childPid, alarm, sent, waitVal, waitStatus, exitCode,
                   fired>>

\* The test ends the process it runs in, which is the runner's: smp5_main with
\* pthread_exit(0) or exit(0), quit_if and exit_error with exit(1).
InlineEndsRunner ==
    /\ pc = "inline" /\ behaviour[i] \in {"passes", "fails"}
    /\ pc' = "exited"
    /\ LET result == IF behaviour[i] = "passes" THEN 0 ELSE 1 IN
       /\ InlineEnds(256 * result)
       /\ exitCode' = result
    /\ UNCHANGED <<i, setup, stats, childPid, alarm, sent, waitVal, waitStatus,
                   fired>>

\* A signal that kills the test kills the runner.
InlineCrashes ==
    /\ pc = "inline" /\ behaviour[i] = "crashes"
    /\ pc' = "aborted"
    /\ InlineEnds(Crashed)
    /\ UNCHANGED <<i, setup, stats, childPid, alarm, sent, waitVal, waitStatus,
                   exitCode, fired>>

\* Fault: the alarm is set only for the first test.
BugArm ==
    /\ pc = "arm"
    /\ pc' = "wait"
    /\ waitStatus' = NoStatus /\ sent' = FALSE
    /\ alarm' = IF i = 1 THEN i ELSE Unset
    /\ UNCHANGED <<i, setup, stats, childPid, child, waitVal, exitCode, fired>>

\* sigaction and alarm.
Arm ==
    /\ pc = "arm"
    /\ pc' = "wait"
    /\ waitStatus' = NoStatus /\ sent' = FALSE
    /\ alarm' = i
    /\ UNCHANGED <<i, setup, stats, childPid, child, waitVal, exitCode, fired>>

\* waitpid returns the child.
Reap ==
    /\ pc = "wait" /\ child[i].state = "zombie"
    /\ pc' = "disarm"
    /\ child' = [child EXCEPT ![i].state = "reaped"]
    /\ waitVal' = childPid /\ waitStatus' = child[i].status
    /\ UNCHANGED <<i, setup, stats, childPid, alarm, sent, exitCode, fired>>

\* Fault: the alarm stays set.
BugDisarm ==
    /\ pc = "disarm"
    /\ pc' = "conclude"
    /\ UNCHANGED <<i, setup, stats, childPid, child, alarm, sent, waitVal,
                   waitStatus, exitCode, fired>>

\* alarm(0)
Disarm ==
    /\ pc = "disarm"
    /\ pc' = "conclude"
    /\ alarm' = Unset
    /\ UNCHANGED <<i, setup, stats, childPid, child, sent, waitVal, waitStatus,
                   exitCode, fired>>

\* kill(pid, SIGKILL) of a child that may have ended.
AfterKill(pid) ==
    [t \in Tests |-> IF t = pid /\ child[t].state = "running"
                     THEN [state |-> "zombie", status |-> Killed]
                     ELSE child[t]]

\* Fault: the exit status counts whether the child has exited or not.
BugPassed == childPid = waitVal /\ WEXITSTATUS(waitStatus) = 0

Passed ==
    /\ childPid = waitVal
    /\ WEXITSTATUS(waitStatus) = 0 /\ WIFEXITED(waitStatus)

Conclude ==
    /\ pc = "conclude"
    /\ child' = AfterKill(childPid)
    /\ childPid' = NoChild
    /\ Count(IF sent THEN 2 ELSE IF Passed THEN 0 ELSE 1)
    /\ UNCHANGED <<setup, alarm, sent, waitVal, waitStatus, exitCode, fired>>

-----------------------------------------------------------------------------
(* SIGALRM and the children                                                *)

\* kill_child_signal_handler, after which a waitpid that was blocked goes on or
\* returns -1.
AlarmGoesOff ==
    /\ alarm # Unset /\ pc \notin {"returned", "exited", "aborted"}
    /\ alarm' = Unset /\ fired' = fired \cup {alarm}
    /\ child' = AfterKill(childPid)
    /\ sent' = (sent \/ childPid # NoChild)
    /\ \/ UNCHANGED <<pc, waitVal>>
       \/ /\ pc = "wait" /\ child[i].state = "running"
          /\ pc' = "disarm" /\ waitVal' = Failed
    /\ UNCHANGED <<i, setup, stats, childPid, waitStatus, exitCode>>

StatusOf(b) == CASE b = "passes"  -> ExitSuccess
                 [] b = "fails"   -> ExitFailure
                 [] b = "crashes" -> Crashed

TestProcessEnds(t) ==
    /\ child[t].state = "running" /\ behaviour[t] # "hangs"
    /\ child' = [child EXCEPT ![t] =
                   [state |-> "zombie", status |-> StatusOf(behaviour[t])]]
    /\ UNCHANGED <<pc, i, setup, stats, childPid, alarm, sent, waitVal,
                   waitStatus, exitCode, fired>>

Runner ==
    \/ SkipTest \/ StartTest \/ Return
    \/ Abort \/ Fork \/ ForkFails \/ InlineReturns \/ InlineEndsRunner \/ InlineCrashes
    \/ Arm \/ Reap \/ Disarm \/ Conclude

Next == Runner \/ AlarmGoesOff \/ \E t \in Tests : TestProcessEnds(t)

\* The runner is scheduled, an alarm goes off, a test that does not hang ends.
Spec == Init /\ [][Next]_vars
        /\ WF_vars(Runner) /\ WF_vars(AlarmGoesOff)
        /\ \A t \in Tests : WF_vars(TestProcessEnds(t))

-----------------------------------------------------------------------------
(* Properties                                                              *)

\* The type invariant.
TypeOK ==
    /\ pc \in {"loop", "invoke", "inline", "arm", "wait", "disarm", "conclude",
               "returned", "exited", "aborted"}
    /\ i \in 1..(TestCount + 1)
    /\ selected \in SUBSET Tests
    /\ behaviour \in [Tests -> Behaviours]
    /\ maxErrors \in {0, 1}
    /\ ran \in Nat /\ passed \in Nat /\ failed \in Nat
    /\ childPid \in Tests \cup {NoChild, Failed}
    /\ child \in [Tests ->
                    [state : {"none", "running", "zombie", "reaped", "inline"},
                     status : Statuses]]
    /\ alarm \in Tests \cup {Unset}
    /\ sent \in BOOLEAN
    /\ waitVal \in Tests \cup {Failed}
    /\ waitStatus \in Statuses
    /\ exitCode \in {0, 1}
    /\ fired \in SUBSET Tests

\* When the runner exits with 0 every test of the target has ended, by itself and
\* with success: none was left out, killed, lost to an interrupted waitpid, or
\* counted by the exit status that a signalled process does not have.  If it has
\* exited because fork failed and the test in the runner was a success, this is so
\* for that test and those before it, and with -fN not even for those.
GreenMeansAllPassed ==
    pc \in {"returned", "exited"} /\ exitCode = 0
    => \A t \in selected :
          pc = "returned" \/ t = i \/ (t < i /\ maxErrors = 1)
          => /\ child[t].state \in {"reaped", "inline"}
             /\ child[t].status = ExitSuccess

\* A test is killed only after the alarm set for it has gone off, never by one
\* left over from the test before.
KilledInItsOwnTime ==
    \A t \in Tests : child[t].status = Killed => t \in fired

\* The runner comes to its end, whatever the tests do and whether waitpid is
\* restarted or not, but for a test that hangs in the runner itself.
RunnerEnds ==
    <>(\/ pc \in {"returned", "exited", "aborted"}
       \/ pc = "inline" /\ behaviour[i] = "hangs")
=============================================================================
