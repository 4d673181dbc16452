--------------------------- MODULE TestRunnerProofs ---------------------------
(***************************************************************************)
(* Theorems about TestRunner, for any number of tests.                     *)
(***************************************************************************)
EXTENDS TestRunner, TLAPS

\* The runner is busy with test i.
Invoking == {"invoke", "inline", "arm", "wait", "disarm", "conclude"}

\* It has forked a child for it.
WithChild == {"arm", "wait", "disarm", "conclude"}

Succeeded(t) == child[t].state \in {"reaped", "inline"}
                /\ child[t].status = ExitSuccess

\* child_pid is the child of test i, and nothing else outside of
\* invoke_test_with_timelimit.
ChildIsOwn ==
    /\ pc \in Invoking => i \in Tests
    /\ pc \in WithChild => childPid = i
    /\ pc \notin WithChild => childPid \notin Tests

\* The alarm is set only for the child there is, and only while it is awaited.
AlarmIsOwn ==
    alarm # Unset => pc \in {"wait", "disarm"} /\ alarm = i

\* Once waitpid has returned the child has ended, and if it was waitpid that said
\* so its status is the one returned.
ChildEnded ==
    pc \in {"disarm", "conclude"} =>
       /\ child[i].state \in {"zombie", "reaped"}
       /\ waitVal = childPid => /\ child[i].state = "reaped"
                                /\ waitStatus = child[i].status

\* Each test is counted once, as failed until it has passed.
CountsAddUp ==
    /\ passed + failed = ran
    /\ pc \in Invoking => failed > 0

\* Without a failure all tests so far have succeeded.
NoFailureSoFar ==
    /\ pc = "loop" /\ failed = 0 => \A t \in selected : t < i => Succeeded(t)
    /\ pc \in Invoking /\ failed = 1 => \A t \in selected : t < i => Succeeded(t)

\* The exit code is zero only when the runner returns from its loop or when a test that
\* runs in it exits with success.
ExitCodeEarned ==
    exitCode = 0 =>
       \/ pc = "returned" /\ \A t \in selected : Succeeded(t)
       \/ /\ pc = "exited" /\ i \in Tests /\ Succeeded(i)
          /\ maxErrors = 1 => \A t \in selected : t < i => Succeeded(t)

\* With no -fN no test is begun after a failure.
OneFailureAtMost ==
    maxErrors = 1 => /\ pc = "loop" => failed \in {0, 1}
                     /\ pc \in Invoking => failed = 1

Inv == /\ TypeOK /\ ChildIsOwn /\ AlarmIsOwn /\ ChildEnded
       /\ CountsAddUp /\ NoFailureSoFar /\ ExitCodeEarned
       /\ KilledInItsOwnTime /\ OneFailureAtMost
-----------------------------------------------------------------------------
\* Whoever has passed has returned 0: the status of no other test reads so.
LEMMA PassedMeansSuccess ==
    ASSUME TypeOK, Passed PROVE waitStatus = ExitSuccess
<1>1. waitStatus \in {NoStatus, ExitSuccess, ExitFailure, Crashed, Killed}
  BY DEF TypeOK, Statuses
<1>2. waitStatus % 128 = 0 /\ (waitStatus \div 256) % 256 = 0
  BY DEF Passed, WIFEXITED, WEXITSTATUS
<1>3. waitStatus \in {ExitSuccess, ExitFailure}
  BY <1>1, <1>2 DEF NoStatus, ExitSuccess, ExitFailure, Crashed, Killed
<1>4. (256 \div 256) % 256 # 0
  OBVIOUS
<1> QED
  BY <1>2, <1>3, <1>4 DEF ExitFailure

LEMMA InvInit == Init => Inv
<1> SUFFICES ASSUME Init PROVE Inv
  OBVIOUS
<1> USE DEF Init
<1>1. TypeOK
  <2>1. child \in [Tests -> [state : {"none", "running", "zombie", "reaped",
                                     "inline"}, status : Statuses]]
    BY DEF Statuses
  <2>2. i \in 1..(TestCount + 1) /\ ran \in Nat /\ passed \in Nat /\ failed \in Nat
    BY TestRunnerAssumption
  <2>3. waitStatus \in Statuses
    BY DEF Statuses
  <2> QED
    BY <2>1, <2>2, <2>3 DEF TypeOK
<1>2. ChildIsOwn
  BY DEF ChildIsOwn, Tests, NoChild, Invoking, WithChild
<1>3. AlarmIsOwn /\ ChildEnded
  BY DEF AlarmIsOwn, ChildEnded
<1>4. CountsAddUp /\ NoFailureSoFar
  BY DEF CountsAddUp, NoFailureSoFar, Invoking, Tests
<1>5. ExitCodeEarned /\ KilledInItsOwnTime
  BY DEF ExitCodeEarned, KilledInItsOwnTime, NoStatus, Killed
<1>6. OneFailureAtMost
  BY DEF OneFailureAtMost, Invoking
<1> QED
  BY <1>1, <1>2, <1>3, <1>4, <1>5, <1>6 DEF Inv

\* Every step preserves the invariant: whoever is disturbed by a step is shown
\* to hold after it, a part of the invariant at a time.
LEMMA InvNext == Inv /\ [Next]_vars => Inv'
<1> SUFFICES ASSUME Inv, [Next]_vars PROVE Inv'
  OBVIOUS
<1>0. /\ TypeOK /\ ChildIsOwn /\ AlarmIsOwn /\ ChildEnded
      /\ CountsAddUp /\ NoFailureSoFar /\ OneFailureAtMost /\ ExitCodeEarned
      /\ KilledInItsOwnTime
  BY DEF Inv
<1>1. CASE SkipTest
  <2>1. TypeOK'
    BY <1>1, <1>0, TestRunnerAssumption DEF SkipTest, TypeOK, Tests, NoChild,
         Failed, Unset, Statuses, MoreTests, setup, stats
  <2>2. ChildIsOwn' /\ AlarmIsOwn'
    BY <1>1, <1>0, TestRunnerAssumption DEF SkipTest, TypeOK, ChildIsOwn,
         AlarmIsOwn, Invoking, WithChild, Tests, NoChild, Failed, Unset,
         setup, stats
  <2>3. ChildEnded'
    BY <1>1, <1>0 DEF SkipTest, TypeOK, ChildEnded, ChildIsOwn, WithChild,
         Invoking, Tests, Failed, setup, stats
  <2>4. CountsAddUp' /\ NoFailureSoFar'
    BY <1>1, <1>0 DEF SkipTest, TypeOK, CountsAddUp, NoFailureSoFar,
         ChildIsOwn, Invoking, Succeeded, Tests, setup, stats
  <2>5. ExitCodeEarned' /\ KilledInItsOwnTime'
    BY <1>1, <1>0 DEF SkipTest, TypeOK, ExitCodeEarned, KilledInItsOwnTime,
         Succeeded, Tests, setup, stats
  <2>6. OneFailureAtMost'
    BY <1>1, <1>0 DEF SkipTest, MoreTests, TypeOK, OneFailureAtMost,
         Invoking, setup, stats
  <2> QED
    BY <2>1, <2>2, <2>3, <2>4, <2>5, <2>6 DEF Inv
<1>2. CASE StartTest
  <2>1. TypeOK'
    BY <1>2, <1>0, TestRunnerAssumption DEF StartTest, TypeOK, Tests, NoChild,
         Failed, Unset, Statuses, setup, stats
  <2>2. ChildIsOwn' /\ AlarmIsOwn'
    BY <1>2, <1>0, TestRunnerAssumption DEF StartTest, TypeOK, ChildIsOwn,
         AlarmIsOwn, Invoking, WithChild, Tests, NoChild, Failed, Unset,
         MoreTests, setup, stats
  <2>3. ChildEnded'
    BY <1>2, <1>0 DEF StartTest, TypeOK, ChildEnded, ChildIsOwn, WithChild,
         Invoking, Tests, Failed, setup, stats
  <2>4. CountsAddUp' /\ NoFailureSoFar'
    BY <1>2, <1>0 DEF StartTest, TypeOK, CountsAddUp, NoFailureSoFar,
         ChildIsOwn, Invoking, Succeeded, Tests, setup, stats
  <2>5. ExitCodeEarned' /\ KilledInItsOwnTime'
    BY <1>2, <1>0 DEF StartTest, TypeOK, ExitCodeEarned, KilledInItsOwnTime,
         Succeeded, Tests, setup, stats
  <2>6. OneFailureAtMost'
    BY <1>2, <1>0 DEF StartTest, MoreTests, TypeOK, OneFailureAtMost,
         Invoking, setup, stats
  <2> QED
    BY <2>1, <2>2, <2>3, <2>4, <2>5, <2>6 DEF Inv
<1>3. CASE Return
  <2>1. TypeOK'
    BY <1>3, <1>0, TestRunnerAssumption DEF Return, TypeOK, Tests, NoChild,
         Failed, Unset, Statuses, setup, stats
  <2>2. ChildIsOwn' /\ AlarmIsOwn'
    BY <1>3, <1>0, TestRunnerAssumption DEF Return, TypeOK, ChildIsOwn,
         AlarmIsOwn, Invoking, WithChild, Tests, NoChild, Failed, Unset,
         setup, stats
  <2>3. ChildEnded'
    BY <1>3, <1>0 DEF Return, TypeOK, ChildEnded, ChildIsOwn, WithChild,
         Invoking, Tests, Failed, setup, stats
  <2>4. CountsAddUp' /\ NoFailureSoFar'
    BY <1>3, <1>0 DEF Return, TypeOK, CountsAddUp, NoFailureSoFar, ChildIsOwn,
         Invoking, Succeeded, Tests, setup, stats
  <2>5. ExitCodeEarned' /\ KilledInItsOwnTime'
    <3>1. CASE passed = ran /\ ran > 0
      <4>1. failed = 0
        BY <3>1, <1>0 DEF CountsAddUp, TypeOK
      <4>2. i = TestCount + 1
        BY <4>1, <1>3, <1>0, TestRunnerAssumption DEF Return, MoreTests, TypeOK
      <4>3. \A t \in selected : Succeeded(t)
        BY <4>1, <4>2, <1>3, <1>0, TestRunnerAssumption
           DEF Return, NoFailureSoFar, TypeOK, Tests
      <4> QED
        BY <4>3, <1>3, <1>0 DEF Return, ExitCodeEarned, KilledInItsOwnTime,
           Succeeded, setup
    <3>2. CASE ~(passed = ran /\ ran > 0)
      BY <3>2, <1>3, <1>0 DEF Return, ExitCodeEarned, KilledInItsOwnTime
    <3> QED
      BY <3>1, <3>2
  <2>6. OneFailureAtMost'
    BY <1>3, <1>0 DEF Return, TypeOK, OneFailureAtMost,
         Invoking, setup, stats
  <2> QED
    BY <2>1, <2>2, <2>3, <2>4, <2>5, <2>6 DEF Inv
<1>4. CASE Abort
  <2>1. TypeOK'
    BY <1>4, <1>0, TestRunnerAssumption DEF Abort, TypeOK, Tests, NoChild,
         Failed, Unset, Statuses, setup, stats
  <2>2. ChildIsOwn' /\ AlarmIsOwn'
    BY <1>4, <1>0, TestRunnerAssumption DEF Abort, TypeOK, ChildIsOwn,
         AlarmIsOwn, Invoking, WithChild, Tests, NoChild, Failed, Unset,
         setup, stats
  <2>3. ChildEnded'
    BY <1>4, <1>0 DEF Abort, TypeOK, ChildEnded, ChildIsOwn, WithChild,
         Invoking, Tests, Failed, setup, stats
  <2>4. CountsAddUp' /\ NoFailureSoFar'
    BY <1>4, <1>0 DEF Abort, TypeOK, CountsAddUp, NoFailureSoFar, ChildIsOwn,
         Invoking, Succeeded, Tests, setup, stats
  <2>5. ExitCodeEarned' /\ KilledInItsOwnTime'
    BY <1>4, <1>0 DEF Abort, TypeOK, ExitCodeEarned, KilledInItsOwnTime,
         Succeeded, Tests, setup, stats
  <2>6. OneFailureAtMost'
    BY <1>4, <1>0 DEF Abort, TypeOK, OneFailureAtMost,
         Invoking, setup, stats
  <2> QED
    BY <2>1, <2>2, <2>3, <2>4, <2>5, <2>6 DEF Inv
<1>5. CASE Fork
  <2>1. TypeOK'
    BY <1>5, <1>0, TestRunnerAssumption DEF Fork, TypeOK, Tests, NoChild,
         Failed, Unset, Statuses, ChildIsOwn, Invoking, setup, stats
  <2>2. ChildIsOwn' /\ AlarmIsOwn'
    BY <1>5, <1>0, TestRunnerAssumption DEF Fork, TypeOK, ChildIsOwn,
         AlarmIsOwn, Invoking, WithChild, Tests, NoChild, Failed, Unset,
         setup, stats
  <2>3. ChildEnded'
    BY <1>5, <1>0 DEF Fork, TypeOK, ChildEnded, ChildIsOwn, WithChild,
         Invoking, Tests, Failed, setup, stats
  <2>4. CountsAddUp' /\ NoFailureSoFar'
    BY <1>5, <1>0 DEF Fork, TypeOK, CountsAddUp, NoFailureSoFar, ChildIsOwn,
         Invoking, Succeeded, Tests, setup, stats
  <2>5. ExitCodeEarned' /\ KilledInItsOwnTime'
    BY <1>5, <1>0 DEF Fork, TypeOK, ExitCodeEarned, KilledInItsOwnTime,
         Succeeded, Tests, ChildIsOwn, Invoking, setup, stats
  <2>6. OneFailureAtMost'
    BY <1>5, <1>0 DEF Fork, TypeOK, OneFailureAtMost,
         Invoking, setup, stats
  <2> QED
    BY <2>1, <2>2, <2>3, <2>4, <2>5, <2>6 DEF Inv
<1>6. CASE ForkFails
  <2>1. TypeOK'
    BY <1>6, <1>0, TestRunnerAssumption DEF ForkFails, TypeOK, Tests, NoChild,
         Failed, Unset, Statuses, setup, stats
  <2>2. ChildIsOwn' /\ AlarmIsOwn'
    BY <1>6, <1>0, TestRunnerAssumption DEF ForkFails, TypeOK, ChildIsOwn,
         AlarmIsOwn, Invoking, WithChild, Tests, NoChild, Failed, Unset,
         setup, stats
  <2>3. ChildEnded'
    BY <1>6, <1>0 DEF ForkFails, TypeOK, ChildEnded, ChildIsOwn, WithChild,
         Invoking, Tests, Failed, setup, stats
  <2>4. CountsAddUp' /\ NoFailureSoFar'
    BY <1>6, <1>0 DEF ForkFails, TypeOK, CountsAddUp, NoFailureSoFar,
         ChildIsOwn, Invoking, Succeeded, Tests, setup, stats
  <2>5. ExitCodeEarned' /\ KilledInItsOwnTime'
    BY <1>6, <1>0 DEF ForkFails, TypeOK, ExitCodeEarned, KilledInItsOwnTime,
         Succeeded, Tests, setup, stats
  <2>6. OneFailureAtMost'
    BY <1>6, <1>0 DEF ForkFails, TypeOK, OneFailureAtMost,
         Invoking, setup, stats
  <2> QED
    BY <2>1, <2>2, <2>3, <2>4, <2>5, <2>6 DEF Inv
<1>7. CASE InlineReturns
  <2>1. TypeOK'
    BY <1>7, <1>0, TestRunnerAssumption DEF InlineReturns, InlineEnds, Count,
         TypeOK, Tests, NoChild, Failed, Unset, Statuses, ChildIsOwn,
         Invoking, CountsAddUp, ExitSuccess, ExitFailure, setup, stats
  <2>2. ChildIsOwn' /\ AlarmIsOwn'
    BY <1>7, <1>0, TestRunnerAssumption DEF InlineReturns, InlineEnds, Count,
         TypeOK, ChildIsOwn, AlarmIsOwn, Invoking, WithChild, Tests, NoChild,
         Failed, Unset, setup, stats
  <2>3. ChildEnded'
    BY <1>7, <1>0 DEF InlineReturns, InlineEnds, Count, TypeOK, ChildEnded,
         ChildIsOwn, WithChild, Invoking, Tests, Failed, setup, stats
  <2>4. CountsAddUp' /\ NoFailureSoFar'
    BY <1>7, <1>0 DEF InlineReturns, InlineEnds, Count, TypeOK, CountsAddUp,
         NoFailureSoFar, ChildIsOwn, Invoking, Succeeded, Tests, ExitSuccess,
         setup, stats
  <2>5. ExitCodeEarned' /\ KilledInItsOwnTime'
    BY <1>7, <1>0 DEF InlineReturns, InlineEnds, Count, TypeOK,
         ExitCodeEarned, KilledInItsOwnTime, Succeeded, Tests, ChildIsOwn,
         Invoking, Killed, ExitSuccess, ExitFailure, setup, stats
  <2>6. OneFailureAtMost'
    BY <1>7, <1>0 DEF InlineReturns, Count, CountsAddUp, TypeOK, OneFailureAtMost,
         Invoking, setup, stats
  <2> QED
    BY <2>1, <2>2, <2>3, <2>4, <2>5, <2>6 DEF Inv
<1>8. CASE InlineEndsRunner
  <2>0. \E r \in {0, 1} :
           /\ exitCode' = r
           /\ child' = [child EXCEPT ![i] =
                           [state |-> "inline", status |-> 256 * r]]
    BY <1>8 DEF InlineEndsRunner, InlineEnds
  <2>1. TypeOK'
    BY <1>8, <1>0, <2>0, TestRunnerAssumption DEF InlineEndsRunner, TypeOK, Tests,
         NoChild, Failed, Unset, Statuses, ExitSuccess, ExitFailure,
         ChildIsOwn, Invoking, setup, stats
  <2>2. ChildIsOwn' /\ AlarmIsOwn'
    BY <1>8, <1>0, TestRunnerAssumption DEF InlineEndsRunner, InlineEnds,
         TypeOK, ChildIsOwn, AlarmIsOwn, Invoking, WithChild, Tests, NoChild,
         Failed, Unset, setup, stats
  <2>3. ChildEnded'
    BY <1>8, <1>0 DEF InlineEndsRunner, InlineEnds, TypeOK, ChildEnded,
         ChildIsOwn, WithChild, Invoking, Tests, Failed, setup, stats
  <2>4. CountsAddUp' /\ NoFailureSoFar'
    BY <1>8, <1>0 DEF InlineEndsRunner, InlineEnds, TypeOK, CountsAddUp,
         NoFailureSoFar, ChildIsOwn, Invoking, Succeeded, Tests, setup, stats
  <2>5. ExitCodeEarned' /\ KilledInItsOwnTime'
    <3>1. i \in Tests
      BY <1>8, <1>0 DEF InlineEndsRunner, ChildIsOwn, Invoking
    <3>2. KilledInItsOwnTime'
      BY <2>0, <3>1, <1>8, <1>0 DEF InlineEndsRunner, KilledInItsOwnTime, TypeOK,
         Killed
    <3>3. exitCode' = 0 => Succeeded(i)'
      BY <2>0, <3>1, <1>8, <1>0 DEF InlineEndsRunner, Succeeded, TypeOK,
         ExitSuccess
    <3>4. maxErrors = 1 => \A t \in selected : t < i => Succeeded(t)
      BY <1>8, <1>0 DEF InlineEndsRunner, OneFailureAtMost, NoFailureSoFar,
         Invoking
    <3>5. \A t \in selected : t < i /\ Succeeded(t) => Succeeded(t)'
      BY <2>0, <3>1, <1>8, <1>0 DEF Succeeded, TypeOK, Tests
    <3>6. i' = i /\ selected' = selected /\ maxErrors' = maxErrors /\ pc' = "exited"
      BY <1>8 DEF InlineEndsRunner, setup
    <3> QED
      BY <3>1, <3>2, <3>3, <3>4, <3>5, <3>6 DEF ExitCodeEarned
  <2>6. OneFailureAtMost'
    BY <1>8, <1>0 DEF InlineEndsRunner, TypeOK, OneFailureAtMost,
         Invoking, setup, stats
  <2> QED
    BY <2>1, <2>2, <2>3, <2>4, <2>5, <2>6 DEF Inv
<1>9. CASE InlineCrashes
  <2>1. TypeOK'
    BY <1>9, <1>0, TestRunnerAssumption DEF InlineCrashes, InlineEnds, TypeOK,
         Tests, NoChild, Failed, Unset, Statuses, Crashed, ChildIsOwn,
         Invoking, setup, stats
  <2>2. ChildIsOwn' /\ AlarmIsOwn'
    BY <1>9, <1>0, TestRunnerAssumption DEF InlineCrashes, InlineEnds,
         TypeOK, ChildIsOwn, AlarmIsOwn, Invoking, WithChild, Tests, NoChild,
         Failed, Unset, setup, stats
  <2>3. ChildEnded'
    BY <1>9, <1>0 DEF InlineCrashes, InlineEnds, TypeOK, ChildEnded,
         ChildIsOwn, WithChild, Invoking, Tests, Failed, setup, stats
  <2>4. CountsAddUp' /\ NoFailureSoFar'
    BY <1>9, <1>0 DEF InlineCrashes, InlineEnds, TypeOK, CountsAddUp,
         NoFailureSoFar, ChildIsOwn, Invoking, Succeeded, Tests, setup, stats
  <2>5. ExitCodeEarned' /\ KilledInItsOwnTime'
    BY <1>9, <1>0 DEF InlineCrashes, InlineEnds, TypeOK, ExitCodeEarned,
         KilledInItsOwnTime, Crashed, Killed, setup, stats
  <2>6. OneFailureAtMost'
    BY <1>9, <1>0 DEF InlineCrashes, TypeOK, OneFailureAtMost,
         Invoking, setup, stats
  <2> QED
    BY <2>1, <2>2, <2>3, <2>4, <2>5, <2>6 DEF Inv
<1>10. CASE Arm
  <2>1. TypeOK'
    BY <1>10, <1>0, TestRunnerAssumption DEF Arm, TypeOK, Tests, NoChild,
         Failed, Unset, Statuses, ChildIsOwn, Invoking, setup, stats
  <2>2. ChildIsOwn' /\ AlarmIsOwn'
    BY <1>10, <1>0, TestRunnerAssumption DEF Arm, TypeOK, ChildIsOwn,
         AlarmIsOwn, Invoking, WithChild, Tests, NoChild, Failed, Unset,
         setup, stats
  <2>3. ChildEnded'
    BY <1>10, <1>0 DEF Arm, TypeOK, ChildEnded, ChildIsOwn, WithChild,
         Invoking, Tests, Failed, setup, stats
  <2>4. CountsAddUp' /\ NoFailureSoFar'
    BY <1>10, <1>0 DEF Arm, TypeOK, CountsAddUp, NoFailureSoFar, ChildIsOwn,
         Invoking, Succeeded, Tests, setup, stats
  <2>5. ExitCodeEarned' /\ KilledInItsOwnTime'
    BY <1>10, <1>0 DEF Arm, TypeOK, ExitCodeEarned, KilledInItsOwnTime,
         Succeeded, Tests, setup, stats
  <2>6. OneFailureAtMost'
    BY <1>10, <1>0 DEF Arm, TypeOK, OneFailureAtMost,
         Invoking, setup, stats
  <2> QED
    BY <2>1, <2>2, <2>3, <2>4, <2>5, <2>6 DEF Inv
<1>11. CASE Reap
  <2>1. TypeOK'
    BY <1>11, <1>0, TestRunnerAssumption DEF Reap, TypeOK, Tests, NoChild,
         Failed, Unset, Statuses, ChildIsOwn, Invoking, WithChild, setup,
         stats
  <2>2. ChildIsOwn' /\ AlarmIsOwn'
    BY <1>11, <1>0, TestRunnerAssumption DEF Reap, TypeOK, ChildIsOwn,
         AlarmIsOwn, Invoking, WithChild, Tests, NoChild, Failed, Unset,
         setup, stats
  <2>3. ChildEnded'
    BY <1>11, <1>0 DEF Reap, TypeOK, ChildEnded, ChildIsOwn, WithChild,
         Invoking, Tests, Failed, setup, stats
  <2>4. CountsAddUp' /\ NoFailureSoFar'
    BY <1>11, <1>0 DEF Reap, TypeOK, CountsAddUp, NoFailureSoFar, ChildIsOwn,
         Invoking, Succeeded, Tests, setup, stats
  <2>5. ExitCodeEarned' /\ KilledInItsOwnTime'
    BY <1>11, <1>0 DEF Reap, TypeOK, ExitCodeEarned, KilledInItsOwnTime,
         Succeeded, Tests, ChildIsOwn, Invoking, setup, stats
  <2>6. OneFailureAtMost'
    BY <1>11, <1>0 DEF Reap, TypeOK, OneFailureAtMost,
         Invoking, setup, stats
  <2> QED
    BY <2>1, <2>2, <2>3, <2>4, <2>5, <2>6 DEF Inv
<1>12. CASE Disarm
  <2>1. TypeOK'
    BY <1>12, <1>0, TestRunnerAssumption DEF Disarm, TypeOK, Tests, NoChild,
         Failed, Unset, Statuses, setup, stats
  <2>2. ChildIsOwn' /\ AlarmIsOwn'
    BY <1>12, <1>0, TestRunnerAssumption DEF Disarm, TypeOK, ChildIsOwn,
         AlarmIsOwn, Invoking, WithChild, Tests, NoChild, Failed, Unset,
         setup, stats
  <2>3. ChildEnded'
    BY <1>12, <1>0 DEF Disarm, TypeOK, ChildEnded, ChildIsOwn, WithChild,
         Invoking, Tests, Failed, setup, stats
  <2>4. CountsAddUp' /\ NoFailureSoFar'
    BY <1>12, <1>0 DEF Disarm, TypeOK, CountsAddUp, NoFailureSoFar,
         ChildIsOwn, Invoking, Succeeded, Tests, setup, stats
  <2>5. ExitCodeEarned' /\ KilledInItsOwnTime'
    BY <1>12, <1>0 DEF Disarm, TypeOK, ExitCodeEarned, KilledInItsOwnTime,
         Succeeded, Tests, setup, stats
  <2>6. OneFailureAtMost'
    BY <1>12, <1>0 DEF Disarm, TypeOK, OneFailureAtMost,
         Invoking, setup, stats
  <2> QED
    BY <2>1, <2>2, <2>3, <2>4, <2>5, <2>6 DEF Inv
<1>13. CASE Conclude
  <2>1. TypeOK'
    BY <1>13, <1>0, TestRunnerAssumption DEF Conclude, Count, AfterKill,
         TypeOK, Tests, NoChild, Failed, Unset, Statuses, CountsAddUp,
         ChildIsOwn, Invoking, setup, stats
  <2>2. ChildIsOwn' /\ AlarmIsOwn'
    BY <1>13, <1>0, TestRunnerAssumption DEF Conclude, Count, AfterKill,
         TypeOK, ChildIsOwn, AlarmIsOwn, Invoking, WithChild, Tests, NoChild,
         Failed, Unset, setup, stats
  <2>3. ChildEnded'
    BY <1>13, <1>0 DEF Conclude, Count, AfterKill, TypeOK, ChildEnded,
         ChildIsOwn, WithChild, Invoking, Tests, Failed, setup, stats
  <2>4. CountsAddUp' /\ NoFailureSoFar'
    <3>1. CountsAddUp'
      BY <1>13, <1>0 DEF Conclude, Count, TypeOK, CountsAddUp, Invoking
    <3>2. /\ i \in Tests /\ childPid = i /\ failed > 0
          /\ child[i].state # "running"
      BY <1>13, <1>0 DEF Conclude, ChildIsOwn, Invoking, WithChild, ChildEnded,
         CountsAddUp
    <3>3. child' = child
      BY <3>2, <1>13, <1>0 DEF Conclude, AfterKill, TypeOK, Tests
    <3>4. Passed => Succeeded(i)
      BY <1>13, <1>0, PassedMeansSuccess
         DEF Conclude, Passed, ChildEnded, Succeeded
    <3>5. CASE failed' = 0
      <4>1. Passed /\ failed = 1
        BY <3>2, <3>5, <1>13, <1>0 DEF Conclude, Count, TypeOK
      <4>2. \A t \in selected : t < i => Succeeded(t)
        BY <4>1, <1>13, <1>0 DEF Conclude, NoFailureSoFar, Invoking
      <4> QED
        BY <3>3, <3>4, <4>1, <4>2, <1>13, <3>1, <1>0
           DEF Conclude, Count, NoFailureSoFar, Succeeded, setup, Invoking,
               TypeOK, Tests
    <3> QED
      BY <3>1, <3>5, <1>13 DEF Conclude, Count, NoFailureSoFar, Invoking
  <2>5. ExitCodeEarned' /\ KilledInItsOwnTime'
    BY <1>13, <1>0 DEF Conclude, Count, AfterKill, TypeOK, ExitCodeEarned,
         KilledInItsOwnTime, Succeeded, Tests, ChildEnded, ChildIsOwn,
         Invoking, WithChild, setup, stats
  <2>6. OneFailureAtMost'
    BY <1>13, <1>0 DEF Conclude, Count, CountsAddUp, TypeOK, OneFailureAtMost,
         Invoking, setup, stats
  <2> QED
    BY <2>1, <2>2, <2>3, <2>4, <2>5, <2>6 DEF Inv
<1>14. CASE AlarmGoesOff
  <2>1. TypeOK'
    BY <1>14, <1>0, TestRunnerAssumption DEF AlarmGoesOff, AfterKill, TypeOK,
         Tests, NoChild, Failed, Unset, Statuses, setup, stats
  <2>2. ChildIsOwn' /\ AlarmIsOwn'
    BY <1>14, <1>0, TestRunnerAssumption DEF AlarmGoesOff, AfterKill, TypeOK,
         ChildIsOwn, AlarmIsOwn, Invoking, WithChild, Tests, NoChild, Failed,
         Unset, setup, stats
  <2>3. ChildEnded'
    BY <1>14, <1>0 DEF AlarmGoesOff, AfterKill, TypeOK, ChildEnded,
         ChildIsOwn, WithChild, Invoking, Tests, Failed, AlarmIsOwn, NoChild,
         setup, stats
  <2>4. CountsAddUp' /\ NoFailureSoFar'
    BY <1>14, <1>0 DEF AlarmGoesOff, AfterKill, TypeOK, CountsAddUp,
         NoFailureSoFar, ChildIsOwn, Invoking, Succeeded, Tests, setup, stats
  <2>5. ExitCodeEarned' /\ KilledInItsOwnTime'
    BY <1>14, <1>0 DEF AlarmGoesOff, AfterKill, TypeOK, ExitCodeEarned,
         KilledInItsOwnTime, Succeeded, Tests, AlarmIsOwn, ChildIsOwn,
         WithChild, setup, stats
  <2>6. OneFailureAtMost'
    BY <1>14, <1>0 DEF AlarmGoesOff, TypeOK, OneFailureAtMost,
         Invoking, setup, stats
  <2> QED
    BY <2>1, <2>2, <2>3, <2>4, <2>5, <2>6 DEF Inv
<1>15. ASSUME NEW t \in Tests, TestProcessEnds(t) PROVE Inv'
  <2>1. TypeOK'
    BY <1>15, <1>0, TestRunnerAssumption DEF TestProcessEnds, StatusOf,
         Behaviours, TypeOK, Tests, NoChild, Failed, Unset, Statuses,
         ExitSuccess, ExitFailure, Crashed, setup, stats
  <2>2. ChildIsOwn' /\ AlarmIsOwn'
    BY <1>15, <1>0, TestRunnerAssumption DEF TestProcessEnds, StatusOf,
         Behaviours, TypeOK, ChildIsOwn, AlarmIsOwn, Invoking, WithChild,
         Tests, NoChild, Failed, Unset, setup, stats
  <2>3. ChildEnded'
    BY <1>15, <1>0 DEF TestProcessEnds, StatusOf, Behaviours, TypeOK,
         ChildEnded, ChildIsOwn, WithChild, Invoking, Tests, Failed, setup,
         stats
  <2>4. CountsAddUp' /\ NoFailureSoFar'
    BY <1>15, <1>0 DEF TestProcessEnds, StatusOf, Behaviours, TypeOK,
         CountsAddUp, NoFailureSoFar, ChildIsOwn, Invoking, Succeeded, Tests,
         setup, stats
  <2>5. ExitCodeEarned' /\ KilledInItsOwnTime'
    BY <1>15, <1>0 DEF TestProcessEnds, StatusOf, Behaviours, TypeOK,
         ExitCodeEarned, KilledInItsOwnTime, Succeeded, Tests, ExitSuccess,
         ExitFailure, Crashed, Killed, setup, stats
  <2>6. OneFailureAtMost'
    BY <1>15, <1>0 DEF TestProcessEnds, TypeOK, OneFailureAtMost,
         Invoking, setup, stats
  <2> QED
    BY <2>1, <2>2, <2>3, <2>4, <2>5, <2>6 DEF Inv
<1>16. CASE UNCHANGED vars
  BY <1>16, <1>0 DEF vars, setup, stats, Inv, TypeOK, ChildIsOwn, AlarmIsOwn,
       ChildEnded, CountsAddUp, NoFailureSoFar, OneFailureAtMost,
       ExitCodeEarned,
       KilledInItsOwnTime, Succeeded
<1> QED
  BY <1>1, <1>2, <1>3, <1>4, <1>5, <1>6, <1>7, <1>8, <1>9, <1>10, <1>11,
     <1>12, <1>13, <1>14, <1>15, <1>16 DEF Next, Runner

LEMMA Invariance == Spec => []Inv
<1>1. Init => Inv
  BY InvInit
<1>2. Inv /\ [Next]_vars => Inv'
  BY InvNext
<1> QED
  BY <1>1, <1>2, PTL DEF Spec

-----------------------------------------------------------------------------
\* The variables of the runner keep their types.
THEOREM TypeCorrect == Spec => []TypeOK
<1>1. Inv => TypeOK
  BY DEF Inv
<1> QED
  BY <1>1, Invariance, PTL

\* The exit code of the runner can be trusted as long as fork does not fail: it is
\* zero only if each test of the target has run and ended by itself with success,
\* however many tests there are.  A test that runs in the runner may end it before
\* the others have run; it then vouches for itself and, without -fN, for those before.
THEOREM GreenIsEarned == Spec => []GreenMeansAllPassed
<1>1. Inv => GreenMeansAllPassed
  BY DEF Inv, ExitCodeEarned, GreenMeansAllPassed, Succeeded
<1> QED
  BY <1>1, Invariance, PTL

\* No alarm set for one test ever kills another.
THEOREM NobodyKilledForAnother == Spec => []KilledInItsOwnTime
<1>1. Inv => KilledInItsOwnTime
  BY DEF Inv
<1> QED
  BY <1>1, Invariance, PTL
=============================================================================
