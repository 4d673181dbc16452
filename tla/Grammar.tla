------------------------------ MODULE Grammar ------------------------------
(***************************************************************************)
(* What a command line of the shell of a2/osh means, without reference to  *)
(* how the parser goes about it: commands joined by connectors, each a     *)
(* list of words followed by redirections.                                 *)
(***************************************************************************)
EXTENDS Integers, Sequences, FiniteSets

CONSTANTS
    Words,     \* tokens that are not symbols
    NoToken    \* the empty string

\* The symbols of globals.h.
Redirections == {"<", ">", ">>"}
Conditionals == {";", "&&", "||"}
Connectors == Conditionals \cup {"|"}
Symbols == Redirections \cup Connectors

-----------------------------------------------------------------------------
(* A line is cut into segments at its connectors.                          *)

\* The connectors and both ends of the line, and the k-th of them.
CutPlaces(line) ==
    {0, Len(line) + 1} \cup {i \in DOMAIN line : line[i] \in Connectors}

Cut(line, k) ==
    LET places == CutPlaces(line)
    IN CHOOSE i \in places : Cardinality({j \in places : j < i}) = k - 1

\* A conditional at the end of the line, or a blank line, leaves nothing behind it.
SegmentCount(line) ==
    LET n == Cardinality(CutPlaces(line)) - 1
    IN IF line = <<>> \/ line[Len(line)] \in Conditionals THEN n - 1 ELSE n

Segment(line, k) == SubSeq(line, Cut(line, k) + 1, Cut(line, k + 1) - 1)

ConnectorAfter(line, k) ==
    LET cut == Cut(line, k + 1)
    IN IF cut \in DOMAIN line THEN line[cut] ELSE NoToken

PipedInto(line, k) == k > 1 /\ ConnectorAfter(line, k - 1) = "|"
PipedOut(line, k) == ConnectorAfter(line, k) = "|"

\* The words before the first symbol of a segment.
LeadingWords(s) ==
    LET n == CHOOSE n \in 0..Len(s) :
                /\ \A i \in 1..n : s[i] \notin Symbols
                /\ n < Len(s) => s[n + 1] \in Symbols
    IN SubSeq(s, 1, n)

Places(s, symbols) == {i \in DOMAIN s : s[i] \in symbols}

-----------------------------------------------------------------------------
(* Which lines have a meaning, and which one.                              *)

\* Words, then redirections, each followed by a file name.
IsCommand(s) ==
    LET n == Len(LeadingWords(s))
    IN /\ n > 0
       /\ (Len(s) - n) % 2 = 0
       /\ \A i \in (n + 1)..Len(s) :
             s[i] \in (IF (i - n) % 2 = 1 THEN Redirections ELSE Words)

\* More than one source of input, or more than one place for output.
Clashes(line, k) ==
    LET s == Segment(line, k)
        one(b) == IF b THEN 1 ELSE 0
    IN \/ Cardinality(Places(s, {"<"})) + one(PipedInto(line, k)) > 1
       \/ Cardinality(Places(s, {">", ">>"})) + one(PipedOut(line, k)) > 1

WellFormed(line) ==
    \A k \in 1..SegmentCount(line) :
       /\ IsCommand(Segment(line, k))
       /\ ~Clashes(line, k)
       /\ PipedOut(line, k) => k < SegmentCount(line)

\* A line that deserves an error message.
Faulty(line) ==
    \E k \in 1..SegmentCount(line) :
       \/ Clashes(line, k)
       \/ PipedInto(line, k) /\ LeadingWords(Segment(line, k)) = <<>>

\* The line is not blank and a word follows each redirection.
NamesFiles(line) ==
    /\ line # <<>>
    /\ \A i \in Places(line, Redirections) :
          i < Len(line) /\ line[i + 1] \in Words

\* A word that follows a file name, where only a symbol can.
WordAfterFile(line) ==
    \E i \in DOMAIN line :
       /\ i + 2 \in DOMAIN line
       /\ line[i] \in Redirections /\ line[i + 2] \in Words

FileAfter(s, symbols) ==
    IF Places(s, symbols) = {} THEN NoToken
    ELSE s[(CHOOSE i \in Places(s, symbols) : TRUE) + 1]

CommandMeant(line, k) ==
    LET s == Segment(line, k)
        has(symbol) == Places(s, {symbol}) # {}
    IN [argv    |-> LeadingWords(s),
        input   |-> IF PipedInto(line, k) THEN "pipe"
                    ELSE IF has("<") THEN "file" ELSE "stdin",
        inFile  |-> FileAfter(s, {"<"}),
        output  |-> IF PipedOut(line, k) THEN "pipe"
                    ELSE IF has(">") THEN "new"
                    ELSE IF has(">>") THEN "append" ELSE "stdout",
        outFile |-> FileAfter(s, {">", ">>"}),
        run     |-> ConnectorAfter(line, k)]

Meaning(line) == [k \in 1..SegmentCount(line) |-> CommandMeant(line, k)]
=============================================================================
