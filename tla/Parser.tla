------------------------------- MODULE Parser -------------------------------
(***************************************************************************)
(* a2/osh: the parser of command lines (parser.cpp, command.h,             *)
(* InputHandler.cpp).                                                      *)
(*                                                                         *)
(* A line is its tokens.  getCommandList takes one command after another   *)
(* off the line: its words, then what the symbols after them say, until a  *)
(* symbol or the end of the line ends the command.  The command parsed     *)
(* last is remembered, from one line to the next.                          *)
(***************************************************************************)
EXTENDS Grammar

CONSTANTS
    Lines,          \* lines a user may type
    MaxCommands     \* rounds of the loop of getCommandList, 50 in the code

ASSUME ParserAssumption ==
    /\ Words \cap Symbols = {} /\ NoToken \notin Words \cup Symbols
    /\ NoToken \notin {"stdout", "new", "append", "pipe"}
    /\ Lines \subseteq Seq(Words \cup Symbols)
    /\ MaxCommands \in Nat \ {0}

VARIABLES
    phase,       \* where the shell is: "read", "list" and "symbols" here, "done"
    line,        \* inputHandler.tokens
    tokenIndex,  \* how many of them have been taken
    command,     \* tempCommand
    commands,    \* the list from first to curr
    rounds,      \* i
    status,      \* what getCommandList returns
    prevOutput,  \* outputMode of prevCommand, NoToken if there is none
    carried      \* history: prevOutput when the line was read

parserVars == <<phase, line, tokenIndex, command, commands, rounds, status,
                prevOutput, carried>>

\* Command::Command.  An argv that is a null pointer is empty here.
NewCommand == [argv |-> <<>>, input |-> "stdin", inFile |-> NoToken,
               output |-> "stdout", outFile |-> NoToken, run |-> NoToken]

ParserInit ==
    /\ phase = "read"
    /\ line = <<>> /\ tokenIndex = 0
    /\ command = NewCommand /\ commands = <<>>
    /\ rounds = 0 /\ status = "success"
    /\ prevOutput = NoToken /\ carried = NoToken

-----------------------------------------------------------------------------
(* InputHandler                                                            *)

\* readInput.  At the end of file getline leaves an empty line.
ReadLine ==
    /\ phase = "read"
    /\ phase' = "list"
    /\ line' \in Lines /\ tokenIndex' = 0
    /\ commands' = <<>> /\ rounds' = 0 /\ status' = "success"
    /\ carried' = prevOutput
    /\ UNCHANGED <<command, prevOutput>>

\* isEndOfLine, and peekNextToken when there is a token.
EndOfLine == tokenIndex = Len(line)
Token == line[tokenIndex + 1]

-----------------------------------------------------------------------------
(* Ways to leave a round of getCommandList                                 *)

\* The command is Parsed: append it to the list.
AppendCommand(cmd) ==
    /\ commands' = Append(commands, cmd)
    /\ prevOutput' = cmd.output
    /\ rounds' = rounds + 1
    /\ phase' = "list"
    /\ command' = NewCommand
    /\ UNCHANGED <<line, status, carried>>

\* The command is Invalid: it is deleted and the list dropped.
Reject ==
    /\ commands' = <<>>
    /\ status' = "fail"
    /\ phase' = "done"
    /\ command' = NewCommand
    /\ UNCHANGED <<line, prevOutput, rounds, carried>>

\* Symbols are still to come if the line goes on after `taken` more tokens.
Continue(cmd, taken) ==
    /\ tokenIndex' = tokenIndex + taken
    /\ IF tokenIndex + taken = Len(line)
       THEN AppendCommand(cmd)
       ELSE /\ phase' = "symbols"
            /\ command' = cmd
            /\ UNCHANGED <<line, commands, rounds, status, prevOutput, carried>>

-----------------------------------------------------------------------------
(* initCommand and initArgv                                                *)

Argv == LeadingWords(SubSeq(line, tokenIndex + 1, Len(line)))

\* Fault: the input mode does not follow the command before.
BugFreshCommand == [NewCommand EXCEPT !.argv = Argv]

FreshCommand == [NewCommand EXCEPT !.argv = Argv,
                    !.input = IF prevOutput = "pipe" THEN "pipe" ELSE "stdin"]

\* Fault: one round too few.
BugNextRound == phase = "list" /\ ~EndOfLine /\ rounds < MaxCommands - 1

NextRound == phase = "list" /\ ~EndOfLine /\ rounds < MaxCommands

\* Words, or no words after a command that is not a pipe: then argv stays null.
StartCommand ==
    /\ NextRound
    /\ Argv # <<>> \/ prevOutput \notin {NoToken, "pipe"}
    /\ Continue(FreshCommand, Len(Argv))

\* A blank command before the first command ever: the symbol is not taken, so
\* that all remaining rounds find it again.
SkipBlank ==
    /\ NextRound
    /\ Argv = <<>> /\ prevOutput = NoToken
    /\ rounds' = rounds + 1
    /\ UNCHANGED <<phase, line, tokenIndex, command, commands, status,
                   prevOutput, carried>>

\* Fault: a blank command is an error after any other command.
BugRejectBlank ==
    /\ NextRound
    /\ Argv = <<>> /\ prevOutput # NoToken
    /\ Reject
    /\ UNCHANGED tokenIndex

\* A blank command after a pipe.
RejectBlank ==
    /\ NextRound
    /\ Argv = <<>> /\ prevOutput = "pipe"
    /\ Reject
    /\ UNCHANGED tokenIndex

-----------------------------------------------------------------------------
(* initInputOutput and initConditionalExecSymbol                           *)

\* getNextToken after a redirection: any token, or none at the end of the line.
FileName == IF tokenIndex + 2 <= Len(line) THEN line[tokenIndex + 2] ELSE NoToken

\* Fault: the file name stays on the line.
BugTakenWithFile == 1

TakenWithFile == IF FileName = NoToken THEN 1 ELSE 2

\* set_runNextCommand, called with the file name.
RunAfterFile == IF FileName \in Symbols THEN FileName ELSE command.run

RedirectInput ==
    /\ phase = "symbols" /\ Token = "<"
    /\ command.input = "stdin"
    /\ Continue([command EXCEPT !.input = "file", !.inFile = FileName,
                                !.run = RunAfterFile], TakenWithFile)

RedirectOutput ==
    /\ phase = "symbols" /\ Token \in {">", ">>"}
    /\ command.output = "stdout"
    /\ Continue([command EXCEPT !.output = IF Token = ">" THEN "new" ELSE "append",
                                !.outFile = FileName, !.run = RunAfterFile],
                TakenWithFile)

\* Input that is already redirected or piped, or output that is redirected.
RejectAmbiguous ==
    /\ phase = "symbols"
    /\ \/ Token = "<" /\ command.input # "stdin"
       \/ Token \in {">", ">>", "|"} /\ command.output # "stdout"
    /\ tokenIndex' = tokenIndex + 1
    /\ Reject

MakePipe ==
    /\ phase = "symbols" /\ Token = "|"
    /\ command.output = "stdout"
    /\ tokenIndex' = tokenIndex + 1
    /\ AppendCommand([command EXCEPT !.output = "pipe", !.run = "|"])

MakeConditional ==
    /\ phase = "symbols" /\ Token \in Conditionals
    /\ tokenIndex' = tokenIndex + 1
    /\ AppendCommand([command EXCEPT !.run = Token])

\* A word where a symbol is expected: no branch of the loop takes it, and the
\* loop goes round for ever.
SpinOnWord ==
    /\ phase = "symbols" /\ Token \in Words
    /\ UNCHANGED parserVars

-----------------------------------------------------------------------------
\* getCommandList returns at the end of the line or after its last round.
ReturnList ==
    /\ phase = "list" /\ ~NextRound
    /\ phase' = "done"
    /\ UNCHANGED <<line, tokenIndex, command, commands, rounds, status,
                   prevOutput, carried>>

ParserStep ==
    \/ StartCommand \/ SkipBlank \/ RejectBlank
    \/ RedirectInput \/ RedirectOutput \/ RejectAmbiguous
    \/ MakePipe \/ MakeConditional \/ SpinOnWord
    \/ ReturnList

\* The shell is done with the list and reads the next line.
TakeList ==
    /\ phase = "done"
    /\ phase' = "read"
    /\ line' = <<>> /\ tokenIndex' = 0 /\ commands' = <<>> /\ rounds' = 0
    /\ status' = "success" /\ carried' = NoToken
    /\ UNCHANGED <<command, prevOutput>>

ParserNext == ReadLine \/ ParserStep \/ TakeList

\* A sequential program goes on; a user need not.
ParserSpec == ParserInit /\ [][ParserNext]_parserVars
                         /\ WF_parserVars(ParserStep)

-----------------------------------------------------------------------------
CommandType ==
    [argv : Seq(Words), input : {"stdin", "file", "pipe"},
     inFile : Words \cup Symbols \cup {NoToken},
     output : {"stdout", "new", "append", "pipe"},
     outFile : Words \cup Symbols \cup {NoToken},
     run : Symbols \cup {NoToken}]

\* The type invariant.
ParserTypeOK ==
    /\ phase \in {"read", "list", "symbols", "done"}
    /\ line \in Seq(Words \cup Symbols)
    /\ tokenIndex \in 0..Len(line)
    /\ command \in CommandType
    /\ commands \in Seq(CommandType)
    /\ rounds \in 0..MaxCommands
    /\ status \in {"success", "fail"}
    /\ prevOutput \in {NoToken, "stdout", "new", "append", "pipe"}
    /\ carried \in {NoToken, "stdout", "new", "append", "pipe"}

\* A line that follows the grammar is parsed to what the grammar says it means,
\* whatever was typed before, unless a line that was rejected has left a pipe
\* behind as its last command: initCommand then takes the first command of this
\* line for the reader of that pipe.
ParsesGrammar ==
    phase = "done" /\ WellFormed(line) /\ carried # "pipe"
    /\ SegmentCount(line) <= MaxCommands
       => status = "success" /\ commands = Meaning(line)

\* Of the lines that start with a word and name a file after each redirection,
\* getCommandList fails for exactly those with two inputs, two outputs or nothing
\* between a pipe and the next symbol.  (A pipe that ends the line goes unnoticed.)
RejectsExactlyFaulty ==
    phase = "done" /\ NamesFiles(line) /\ line[1] \in Words
    /\ line[Len(line)] # "|" /\ carried # "pipe"
    /\ SegmentCount(line) <= MaxCommands
       => (status = "fail" <=> Faulty(line))

\* getCommandList returns, but for the lines on which its inner loop spins.
ParserReturns ==
    (phase \in {"list", "symbols"} /\ ~WordAfterFile(line)) ~> (phase = "done")
=============================================================================
