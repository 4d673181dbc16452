-------------------------------- MODULE Osh --------------------------------
(***************************************************************************)
(* a2/osh: the shell, its parser, and the processes its executor starts    *)
(* (osh.cpp, executor.cpp, and Parser).                                    *)
(*                                                                         *)
(* The executor takes the list one command after another: it makes a pipe  *)
(* if the command's output goes to one, forks, and waits for the child     *)
(* unless the next command reads from it.  The parent never closes the     *)
(* read end of a pipe, so all later children inherit it.                   *)
(*                                                                         *)
(* What a program does once started is external: it reads its input to the *)
(* end and copies it, or writes something of its own, and it fails or not. *)
(* A full pipe blocks its writer, an empty one its reader until nobody has *)
(* the other end open.                                                     *)
(***************************************************************************)
EXTENDS Parser

CONSTANTS
    Exit,        \* the word that ends the shell
    Readers,     \* programs that copy their input to their output
    Writers,     \* programs that write Volume bytes
    Failing,     \* programs that fail, or are not there to be executed
    Volume,
    PipeSize,    \* bytes a pipe holds
    MaxLines,    \* rounds of osh::run, 23 in the code
    MaxSteps     \* rounds of executeCommandList, 20 in the code

ASSUME OshAssumption ==
    /\ Exit \in Words
    /\ Readers \cup Writers \cup Failing \subseteq Words \ {Exit}
    /\ Readers \cap Writers = {}
    /\ {Volume, PipeSize, MaxLines, MaxSteps} \subseteq Nat \ {0}

VARIABLES
    linesRead,     \* j of osh::run
    exitShell,
    curr,          \* place of curr in commands
    steps,         \* i of executeCommandList
    inputFid,      \* the pipe made for curr to read from
    shellReads,    \* pipes whose read end the shell has open
    shellWrites,   \* pipes whose write end the shell has open
    pipes,         \* the bytes in each pipe ever made
    process,       \* the children, in the order they were forked
    result         \* history: how each command of the list fared

executorVars == <<linesRead, exitShell, curr, steps, inputFid, shellReads,
                  shellWrites, pipes, process, result>>
vars == <<parserVars, executorVars>>

Processes == 1..(MaxLines * MaxSteps)
NoPipe == 0           \* a terminal or a file
Unreadable == -1      \* a descriptor open for writing only

Init ==
    /\ ParserInit
    /\ linesRead = 0 /\ exitShell = FALSE
    /\ curr = 0 /\ steps = 0 /\ inputFid = NoPipe
    /\ shellReads = {} /\ shellWrites = {}
    /\ pipes = <<>> /\ process = <<>>
    /\ result = <<>>

-----------------------------------------------------------------------------
(* Processes and pipes                                                     *)

Alive(c) == c \in DOMAIN process /\ process[c].state \in {"forked", "running"}

ReadersOf(p) == {c \in DOMAIN process : Alive(c) /\ p \in process[c].reads}
WritersOf(p) == {c \in DOMAIN process : Alive(c) /\ p \in process[c].writes}

ReadEndOpen(p) == p \in shellReads \/ ReadersOf(p) # {}
WriteEndOpen(p) == p \in shellWrites \/ WritersOf(p) # {}

\* The end of a process closes its descriptors.
End(c, code) ==
    process' = [process EXCEPT ![c].state = "zombie", ![c].status = code,
                  ![c].left = 0, ![c].reads = {}, ![c].writes = {}]

-----------------------------------------------------------------------------
(* A child: childExecFunction and fixupStdinOut                            *)

\* Fault: the child keeps the read end of the pipe it writes to.
BugKeptReads(c) == process[c].reads

\* close(pipeid[PipeReadIndex])
KeptReads(c) == process[c].reads \ {process[c].outFid}

\* Open files and pipes take the place of the standard descriptors.  When a file
\* cannot be opened fixupStdinOut returns at once; its error is ignored and the
\* program runs all the same.  Pipes come last, the output first: a child without
\* a pipe to read from then duplicates its own output.
FixupStdinOut(c, opened) ==
    LET child == process[c].command
        fid == process[c].fid
    IN [out |-> IF opened /\ child.output = "pipe" THEN process[c].outFid
                                                  ELSE NoPipe,
        in  |-> IF ~opened \/ child.input # "pipe" THEN NoPipe
                ELSE IF fid # NoPipe THEN fid
                ELSE IF child.output = "stdout" THEN NoPipe ELSE Unreadable]

NeedsFile(c) ==
    \/ process[c].command.input = "file"
    \/ process[c].command.output \in {"new", "append"}

\* From fork to exec.
Exec(c) ==
    /\ Alive(c) /\ process[c].state = "forked"
    /\ \E opened \in BOOLEAN :
          /\ opened \/ NeedsFile(c)
          /\ LET std == FixupStdinOut(c, opened)
                 program == process[c].command.argv[1]
             IN process' = [process EXCEPT
                   ![c].state = "running",
                   ![c].reads = KeptReads(c),
                   ![c].in = std.in, ![c].out = std.out,
                   ![c].left = IF program \in Writers THEN Volume ELSE 0]
    /\ UNCHANGED pipes

Running(c) == Alive(c) /\ process[c].state = "running"
Program(c) == process[c].command.argv[1]

\* A byte goes to a terminal or file, or to a pipe with room for it.
Write(c) ==
    /\ Running(c) /\ process[c].left > 0
    /\ LET p == process[c].out IN
       IF p = NoPipe THEN UNCHANGED pipes
       ELSE /\ ReadEndOpen(p) /\ pipes[p] < PipeSize
            /\ pipes' = [pipes EXCEPT ![p] = @ + 1]
    /\ process' = [process EXCEPT ![c].left = @ - 1]

\* SIGPIPE: nobody has the read end open.
BrokenPipe(c) ==
    /\ Running(c) /\ process[c].left > 0
    /\ process[c].out # NoPipe /\ ~ReadEndOpen(process[c].out)
    /\ End(c, 1)
    /\ UNCHANGED pipes

Read(c) ==
    /\ Running(c) /\ process[c].left = 0 /\ Program(c) \in Readers
    /\ LET p == process[c].in IN
       /\ p \in DOMAIN pipes /\ pipes[p] > 0
       /\ pipes' = [pipes EXCEPT ![p] = @ - 1]
    /\ process' = [process EXCEPT ![c].left = 1]

AtEndOfInput(c) ==
    LET p == process[c].in
    IN p \in DOMAIN pipes => pipes[p] = 0 /\ ~WriteEndOpen(p)

\* The program has nothing left to write, or to read.
Finish(c) ==
    /\ Running(c) /\ process[c].left = 0
    /\ Program(c) \in Readers => AtEndOfInput(c)
    /\ End(c, IF \/ Program(c) \in Failing
                 \/ Program(c) \in Readers /\ process[c].in = Unreadable
              THEN 1 ELSE 0)
    /\ UNCHANGED pipes

Child(c) ==
    /\ Exec(c) \/ Write(c) \/ BrokenPipe(c) \/ Read(c) \/ Finish(c)
    /\ UNCHANGED <<parserVars, linesRead, exitShell, curr, steps, inputFid,
                   shellReads, shellWrites, result>>

-----------------------------------------------------------------------------
(* osh::run                                                                *)

\* The shell process ends, and its descriptors are closed.
EndShell(how) ==
    /\ phase' = how
    /\ shellReads' = {} /\ shellWrites' = {}
    /\ UNCHANGED <<line, tokenIndex, command, commands, rounds, status,
                   prevOutput, carried, linesRead, exitShell, curr, steps,
                   inputFid, pipes, process, result>>

ReadCommandLine ==
    /\ linesRead < MaxLines /\ ~exitShell
    /\ ReadLine
    /\ linesRead' = linesRead + 1
    /\ UNCHANGED <<exitShell, curr, steps, inputFid, shellReads, shellWrites,
                   pipes, process, result>>

Parse == ParserStep /\ UNCHANGED executorVars

\* An ambiguous line gets an error message, an empty list nothing at all.
NothingToExecute ==
    /\ commands = <<>>
    /\ TakeList
    /\ UNCHANGED executorVars

\* executeCommandList is called.
BeginList ==
    /\ phase = "done" /\ commands # <<>>
    /\ phase' = "execute"
    /\ curr' = 1 /\ steps' = 0 /\ inputFid' = NoPipe
    /\ result' = [k \in DOMAIN commands |-> "none"]
    /\ UNCHANGED <<line, tokenIndex, command, commands, rounds, status,
                   prevOutput, carried, linesRead, exitShell, shellReads,
                   shellWrites, pipes, process>>

\* stop, or the last round.
LeaveShell ==
    /\ phase = "read"
    /\ exitShell \/ linesRead = MaxLines
    /\ EndShell("exited")

-----------------------------------------------------------------------------
(* executeCommandList                                                      *)

currCommand == commands[curr]
IsLast == curr = Len(commands)

\* The way back to the prompt.
LeaveList(exit) ==
    /\ phase' = "read"
    /\ line' = <<>> /\ tokenIndex' = 0 /\ commands' = <<>> /\ rounds' = 0
    /\ status' = "success" /\ carried' = NoToken
    /\ curr' = 0 /\ steps' = 0 /\ inputFid' = NoPipe /\ result' = <<>>
    /\ exitShell' = exit
    /\ UNCHANGED <<command, prevOutput, linesRead, shellReads, shellWrites,
                   pipes, process>>

EndOfList ==
    /\ phase = "execute"
    /\ curr > Len(commands) \/ steps = MaxSteps
    /\ LeaveList(exitShell)

InLoop == phase = "execute" /\ curr <= Len(commands) /\ steps < MaxSteps

\* isCommandExit looks at argv[0] before anything else.
IsExit == currCommand.argv # <<>> /\ currCommand.argv[1] = Exit

ExecuteExit == InLoop /\ IsExit /\ LeaveList(TRUE)

\* get_executable through a null argv, or pipeCommands through a null next.
NullDereference ==
    /\ InLoop
    /\ \/ currCommand.argv = <<>>
       \/ ~IsExit /\ currCommand.output = "pipe" /\ IsLast
    /\ EndShell("crashed")

\* The child starts with the descriptors of the shell and a copy of the command.
NewProcess(outFid) ==
    [state |-> "forked", command |-> currCommand,
     fid |-> inputFid, outFid |-> outFid,
     in |-> NoPipe, out |-> NoPipe, left |-> 0, status |-> 0,
     reads |-> shellReads \cup ({outFid} \ {NoPipe}),
     writes |-> shellWrites \cup ({outFid} \ {NoPipe})]

\* pipe and pipeCommands if the output is a pipe, then fork.
Fork ==
    /\ InLoop
    /\ currCommand.argv # <<>> /\ ~IsExit
    /\ currCommand.output = "pipe" => ~IsLast
    /\ LET fresh == Len(pipes) + 1 IN
       IF currCommand.output = "pipe"
       THEN /\ pipes' = Append(pipes, 0)
            /\ shellReads' = shellReads \cup {fresh}
            /\ shellWrites' = shellWrites \cup {fresh}
            /\ process' = Append(process, NewProcess(fresh))
       ELSE /\ process' = Append(process, NewProcess(NoPipe))
            /\ UNCHANGED <<pipes, shellReads, shellWrites>>
    /\ phase' = "forked"
    /\ result' = [result EXCEPT ![curr] = "started"]
    /\ UNCHANGED <<line, tokenIndex, command, commands, rounds, status,
                   prevOutput, carried, linesRead, exitShell, curr, steps,
                   inputFid>>

\* fork fails: exit(1).
ForkFails ==
    /\ InLoop
    /\ currCommand.argv # <<>> /\ ~IsExit
    /\ currCommand.output = "pipe" => ~IsLast
    /\ EndShell("exited")

\* Fault: the parent keeps the write end.
BugCloseWriteEnd ==
    /\ phase = "forked"
    /\ phase' = "wait"
    /\ UNCHANGED <<line, tokenIndex, command, commands, rounds, status,
                   prevOutput, carried, executorVars>>

\* if(true == piped) close(pipeid[PipeWriteIndex])
CloseWriteEnd ==
    /\ phase = "forked"
    /\ phase' = "wait"
    /\ shellWrites' = shellWrites \ {process[Len(process)].outFid}
    /\ UNCHANGED <<line, tokenIndex, command, commands, rounds, status,
                   prevOutput, carried, linesRead, exitShell, curr, steps,
                   inputFid, shellReads, pipes, process, result>>

\* Fault: the shell waits for a writer before it starts the reader.
BugMustWait == TRUE

\* isWaitForChild, or the end of the list.
MustWait == currCommand.run \in Conditionals \/ IsLast

\* Fault: the operators are swapped.
BugIsSkipNextCommand(code) ==
    \/ currCommand.run = "&&" /\ code = 0
    \/ currCommand.run = "||" /\ code # 0

IsSkipNextCommand(code) ==
    \/ currCommand.run = "||" /\ code = 0
    \/ currCommand.run = "&&" /\ code # 0

\* On to the next command, or to the one after it.
Advance(skip) ==
    /\ curr' = curr + (IF skip THEN 2 ELSE 1)
    /\ steps' = steps + 1
    /\ inputFid' = IF currCommand.output = "pipe"
                   THEN process[Len(process)].outFid ELSE NoPipe
    /\ phase' = "execute"
    /\ UNCHANGED <<line, tokenIndex, command, commands, rounds, status,
                   prevOutput, carried, linesRead, exitShell, shellReads,
                   shellWrites, pipes>>

\* waitpid
WaitForChild ==
    LET child == Len(process) IN
    /\ phase = "wait" /\ MustWait
    /\ process[child].state = "zombie"
    /\ process' = [process EXCEPT ![child].state = "reaped"]
    /\ result' = [result EXCEPT ![curr] =
                    IF process[child].status = 0 THEN "succeeded" ELSE "failed"]
    /\ Advance(IsSkipNextCommand(process[child].status))

GoOn ==
    /\ phase = "wait" /\ ~MustWait
    /\ Advance(FALSE)
    /\ UNCHANGED <<process, result>>

ShellStep ==
    \/ Parse \/ NothingToExecute \/ BeginList
    \/ EndOfList \/ ExecuteExit \/ NullDereference
    \/ Fork \/ ForkFails \/ CloseWriteEnd \/ WaitForChild \/ GoOn

Next ==
    \/ ReadCommandLine \/ LeaveShell \/ ShellStep
    \/ \E c \in Processes : Child(c)

\* The system runs every process; the user may stop typing, but does leave in
\* the end (the last round of osh::run).
Spec == Init /\ [][Next]_vars
        /\ WF_vars(ShellStep) /\ WF_vars(LeaveShell)
        /\ \A c \in Processes : WF_vars(Child(c))

-----------------------------------------------------------------------------
(* Properties                                                              *)

\* The write end of a pipe is open in the process that writes to it, for a moment
\* after the fork in the shell too, and nowhere else: no other process can keep the
\* reader from the end of its input.
WriteEndsPrivate ==
    \A c \in DOMAIN process : \A p \in process[c].writes :
       /\ \A d \in DOMAIN process \ {c} : p \notin process[d].writes
       /\ p \in shellWrites => phase = "forked" /\ c = Len(process)

\* What sh does with a list of commands without pipes.  A command that is
\* not due leaves the exit status as it was: SucceededBy(k) is the status after
\* the first k commands.
DueAfter(succeeded, connector) ==
    CASE connector = "&&" -> succeeded
      [] connector = "||" -> ~succeeded
      [] OTHER -> TRUE

SucceededBy[k \in Nat] ==
    IF k = 0 THEN TRUE
    ELSE IF k > 1 /\ ~DueAfter(SucceededBy[k - 1], commands[k - 1].run)
         THEN SucceededBy[k - 1]
         ELSE result[k] = "succeeded"

Due(k) == k = 1 \/ DueAfter(SucceededBy[k - 1], commands[k - 1].run)

\* The same operator twice in a row, as in a && b && c: then a skip stops short.
RepeatedConditional ==
    \E k \in 1..(Len(commands) - 1) :
       commands[k].run \in {"&&", "||"} /\ commands[k].run = commands[k + 1].run

\* Without pipes and such repetitions, the commands that have been run are those
\* that a shell runs, whatever failed on the way.
SkipsAsShell ==
    /\ phase = "execute" /\ ~RepeatedConditional
    /\ \A k \in DOMAIN commands : commands[k].output # "pipe"
    => \A k \in 1..(curr - 1) :
          k <= Len(commands) => (result[k] # "none" <=> Due(k))

\* The shell comes back to the prompt, or ends, from every list: no chain of
\* pipes makes it wait for ever, although writers without a reader stay blocked.
LineEnds ==
    (phase \in {"execute", "forked", "wait"})
       ~> (phase \in {"read", "exited", "crashed"})

\* Once the shell has ended so do its children, those that were left blocked on
\* a pipe too: nobody else keeps a read end open for ever.
AllEndAfterExit ==
    (phase \in {"exited", "crashed"}) ~> (\A c \in DOMAIN process : ~Alive(c))

\* The null pointers that argv and next may be are followed only on lines that do
\* not follow the grammar, or have more commands than the parser takes.
CrashesOnlyOnMalformed ==
    phase = "crashed" => ~WellFormed(line) \/ SegmentCount(line) > MaxCommands
=============================================================================
