------------------------------ MODULE OshProofs ------------------------------
(***************************************************************************)
(* Safety of the shell of a2/osh and of its parser, for any lines typed    *)
(* and any behaviour of the programs that they start.                      *)
(***************************************************************************)
EXTENDS Osh, FiniteSetTheorems, SequenceTheorems, WellFoundedInduction, TLAPS

-----------------------------------------------------------------------------
(* Natural numbers.                                                        *)

\* A set of natural numbers has a least element: of the intervals that end in one
\* of them, one has no proper part among the others.
LEMMA LeastNatural ==
    ASSUME NEW T \in SUBSET Nat, T # {}
    PROVE  \E x \in T : \A y \in T : x <= y
<1> DEFINE R == StrictSubsetOrdering(Nat)
           F == FiniteSubsetsOf(Nat)
           B == {0..x : x \in T}
<1>1. IsWellFoundedOn(R, F)  BY FS_StrictSubsetOrderingWellFounded
<1>2. B \subseteq F
  <2>1. ASSUME NEW x \in T PROVE 0..x \in FiniteSubsetsOf(Nat)
    <3>1. IsFiniteSet(0..x)  BY FS_Interval
    <3>2. 0..x \in SUBSET Nat  OBVIOUS
    <3> QED  BY <3>1, <3>2 DEF FiniteSubsetsOf
  <2> QED  BY <2>1
<1>3. B # {}  OBVIOUS
<1>4. \E b \in B : \A c \in B : ~(<<c, b>> \in R)
  <2> HIDE DEF B, R, F
  <2> QED  BY <1>1, <1>2, <1>3, WFMin
<1>5. PICK x \in T : \A y \in T : ~(<<0..y, 0..x>> \in R)  BY <1>4
<1>6. SUFFICES ASSUME NEW y \in T, y < x PROVE FALSE  BY DEF R
<1>7. 0..y \subseteq 0..x  BY <1>6
<1>8. x \in 0..x /\ x \notin 0..y  BY <1>6
<1>9. 0..x \in SUBSET Nat /\ 0..y \in SUBSET Nat  OBVIOUS
<1> QED  BY <1>5, <1>7, <1>8, <1>9 DEF StrictSubsetOrdering

\* Induction, for a set rather than for a predicate.
LEMMA InductiveSet ==
    ASSUME NEW S \in SUBSET Nat, 0 \in S, \A n \in S : n + 1 \in S
    PROVE  S = Nat
<1> SUFFICES ASSUME Nat \ S # {} PROVE FALSE  OBVIOUS
<1>1. PICK x \in Nat \ S : \A y \in Nat \ S : x <= y  BY LeastNatural
<1>2. x - 1 \in Nat  OBVIOUS
<1>3. x - 1 \in S  BY <1>1, <1>2
<1> QED  BY <1>3

\* The functions on the natural numbers that are defined from the value one below.
\* There is one: it is put together from functions on 0..n for each n.
Recursions(S, base, step) ==
    {f \in [Nat -> S] : /\ f[0] = base
                        /\ \A n \in Nat \ {0} : f[n] = step[<<n, f[n - 1]>>]}

LEMMA RecursiveFunction ==
    ASSUME NEW S, NEW base \in S, NEW step \in [(Nat \ {0}) \X S -> S]
    PROVE  Recursions(S, base, step) # {}
<1> DEFINE Upto(n) == {g \in [0..n -> S] : /\ g[0] = base
                                          /\ \A i \in 1..n : g[i] = step[<<i, g[i - 1]>>]}
<1>1. \A n \in Nat : Upto(n) # {}
  <2> DEFINE T == {n \in Nat : Upto(n) # {}}
  <2>1. 0 \in T
    <3>1. [i \in 0..0 |-> base] \in Upto(0)  OBVIOUS
    <3> QED  BY <3>1
  <2>2. ASSUME NEW n \in T PROVE n + 1 \in T
    <3>1. PICK g \in Upto(n) : TRUE  OBVIOUS
    <3> DEFINE h == [i \in 0..(n + 1) |-> IF i \in 0..n THEN g[i] ELSE step[<<n + 1, g[n]>>]]
    <3>2. /\ n \in Nat /\ n + 1 \in Nat \ {0} /\ n \in 0..n /\ 0 \in 0..n
          /\ n + 1 \notin 0..n /\ n + 1 \in 0..(n + 1) /\ (n + 1) - 1 = n
      OBVIOUS
    <3>3. g[n] \in S  BY <3>1, <3>2
    <3>4. step[<<n + 1, g[n]>>] \in S  BY <3>2, <3>3
    <3>5. h \in [0..(n + 1) -> S]  BY <3>1, <3>4
    <3>6. \A i \in 0..n : i \in 0..(n + 1) /\ h[i] = g[i]  BY <3>2
    <3>7. h[n + 1] = step[<<n + 1, g[n]>>]  BY <3>2
    <3> HIDE DEF h
    <3>8. h[0] = base  BY <3>1, <3>2, <3>6
    <3>9. ASSUME NEW i \in 1..(n + 1) PROVE h[i] = step[<<i, h[i - 1]>>]
      <4>1. CASE i = n + 1
        <5>1. i - 1 = n /\ h[n] = g[n]  BY <3>2, <3>6, <4>1
        <5> QED  BY <3>7, <4>1, <5>1
      <4>2. CASE i # n + 1
        <5>1. i \in 1..n /\ i \in 0..n /\ i - 1 \in 0..n  BY <3>2, <4>2
        <5> QED  BY <3>1, <3>6, <5>1
      <4> QED  BY <4>1, <4>2
    <3>10. h \in Upto(n + 1)  BY <3>5, <3>8, <3>9
    <3> QED  BY <3>2, <3>10
  <2>3. T \in SUBSET Nat  OBVIOUS
  <2>4. T = Nat
    <3> HIDE DEF T
    <3> QED  BY <2>1, <2>2, <2>3, InductiveSet
  <2> QED  BY <2>4
<1>2. \A i \in Nat : \A m, n \in Nat : i <= m /\ i <= n =>
         \A g \in Upto(m), h \in Upto(n) : g[i] = h[i]
  <2> DEFINE T == {i \in Nat : \A m, n \in Nat : i <= m /\ i <= n =>
                      \A g \in Upto(m), h \in Upto(n) : g[i] = h[i]}
  <2>1. 0 \in T  OBVIOUS
  <2>2. ASSUME NEW i \in T PROVE i + 1 \in T
    <3>1. i \in Nat /\ i + 1 \in Nat  OBVIOUS
    <3>2. ASSUME NEW m \in Nat, NEW n \in Nat, i + 1 <= m, i + 1 <= n,
                 NEW g \in Upto(m), NEW h \in Upto(n)
          PROVE  g[i + 1] = h[i + 1]
      <4>1. i <= m /\ i <= n /\ (i + 1) - 1 = i /\ i + 1 \in 1..m /\ i + 1 \in 1..n
        BY <3>1, <3>2
      <4>2. g[i] = h[i]
        <5> HIDE DEF Upto
        <5> QED  BY <3>2, <4>1
      <4>3. g[i + 1] = step[<<i + 1, g[i]>>] /\ h[i + 1] = step[<<i + 1, h[i]>>]
        BY <3>2, <4>1
      <4> QED  BY <4>2, <4>3
    <3> HIDE DEF Upto
    <3> QED  BY <3>1, <3>2
  <2>3. T \in SUBSET Nat  OBVIOUS
  <2>4. T = Nat
    <3> HIDE DEF T
    <3> QED  BY <2>1, <2>2, <2>3, InductiveSet
  <2> QED  BY <2>4
<1> DEFINE G(n) == CHOOSE g \in Upto(n) : TRUE
           f == [n \in Nat |-> G(n)[n]]
<1>3. \A n \in Nat : G(n) \in Upto(n)  BY <1>1
<1>4. \A n \in Nat : f[n] = G(n)[n]  OBVIOUS
<1>5. f \in [Nat -> S]
  <2>1. \A n \in Nat : G(n)[n] \in S  BY <1>3
  <2> QED  BY <2>1
<1>6. f[0] = base
  <2>1. G(0) \in Upto(0)  BY <1>3
  <2>2. G(0)[0] = base  BY <2>1
  <2> QED  BY <1>4, <2>2
<1>7. ASSUME NEW n \in Nat \ {0} PROVE f[n] = step[<<n, f[n - 1]>>]
  <2>1. n \in Nat /\ n - 1 \in Nat /\ n \in 1..n /\ n - 1 <= n /\ n - 1 <= n - 1
    OBVIOUS
  <2>2. G(n) \in Upto(n) /\ G(n - 1) \in Upto(n - 1)  BY <1>3, <2>1
  <2> HIDE DEF G
  <2>3. G(n)[n] = step[<<n, G(n)[n - 1]>>]  BY <2>1, <2>2
  <2>4. G(n)[n - 1] = G(n - 1)[n - 1]
    <3> HIDE DEF Upto
    <3> QED  BY <1>2, <2>1, <2>2
  <2>5. f[n] = G(n)[n] /\ f[n - 1] = G(n - 1)[n - 1]  BY <1>4, <2>1
  <2> QED  BY <2>3, <2>4, <2>5
<1> HIDE DEF f, G, Upto
<1> QED  BY <1>5, <1>6, <1>7 DEF Recursions

-----------------------------------------------------------------------------
(* The words a command begins with.                                        *)

LEMMA LeadingWordsProperties ==
    ASSUME NEW s \in Seq(Words \cup Symbols)
    PROVE  \E n \in 0..Len(s) :
              /\ \A i \in 1..n : s[i] \in Words
              /\ n < Len(s) => s[n + 1] \in Symbols
              /\ LeadingWords(s) = SubSeq(s, 1, n)
              /\ LeadingWords(s) \in Seq(Words)
              /\ Len(LeadingWords(s)) = n
<1> DEFINE Good(n) == /\ \A i \in 1..n : s[i] \notin Symbols
                      /\ n < Len(s) => s[n + 1] \in Symbols
           m == CHOOSE n \in 0..Len(s) : Good(n)
<1>1. Len(s) \in Nat /\ \A i \in 1..Len(s) : s[i] \in Words \cup Symbols
  BY LenProperties, ElementOfSeq
<1>2. \E n \in 0..Len(s) : Good(n)
  <2> DEFINE T == {n \in 0..Len(s) : n < Len(s) => s[n + 1] \in Symbols}
  <2>1. T \in SUBSET Nat /\ Len(s) \in T  BY <1>1
  <2>2. PICK n \in T : \A k \in T : n <= k  BY <2>1, LeastNatural
  <2>3. ASSUME NEW i \in 1..n PROVE s[i] \notin Symbols
    <3>1. i - 1 \in 0..Len(s) /\ i - 1 < n /\ i - 1 < Len(s) /\ (i - 1) + 1 = i
      BY <1>1
    <3>2. i - 1 \notin T  BY <2>2, <3>1
    <3> QED  BY <3>1, <3>2
  <2> QED  BY <2>2, <2>3
<1>3. m \in 0..Len(s) /\ Good(m)  BY <1>2
<1>4. LeadingWords(s) = SubSeq(s, 1, m)  BY DEF LeadingWords
<1> HIDE DEF m
<1>5. \A i \in 1..m : s[i] \in Words  BY <1>1, <1>3
<1>6. LeadingWords(s) \in Seq(Words) /\ Len(LeadingWords(s)) = m
  <2>1. CASE m = 0
    <3>1. LeadingWords(s) = <<>>  BY <1>4, <2>1, SubSeqEmpty
    <3> QED  BY <2>1, <3>1, EmptySeq
  <2>2. CASE m # 0
    <3>1. /\ SubSeq(s, 1, m) \in Seq(Words \cup Symbols)
          /\ Len(SubSeq(s, 1, m)) = m
          /\ \A i \in 1..m : SubSeq(s, 1, m)[i] = s[i]
      BY <1>1, <1>3, <2>2, SubSeqProperties
    <3>2. \A i \in 1..Len(SubSeq(s, 1, m)) : SubSeq(s, 1, m)[i] \in Words
      BY <1>5, <3>1
    <3> QED  BY <1>4, <3>1, <3>2
  <2> QED  BY <2>1, <2>2
<1> QED  BY <1>3, <1>4, <1>5, <1>6

-----------------------------------------------------------------------------
(* Types of the parser.                                                    *)

Outputs == {"stdout", "new", "append", "pipe"}

ParserData ==
    /\ line \in Seq(Words \cup Symbols)
    /\ tokenIndex \in 0..Len(line)
    /\ command \in CommandType
    /\ commands \in Seq(CommandType)
    /\ rounds \in 0..MaxCommands
    /\ status \in {"success", "fail"}
    /\ prevOutput \in Outputs \cup {NoToken}
    /\ carried \in Outputs \cup {NoToken}
    /\ phase = "symbols" => tokenIndex < Len(line) /\ rounds < MaxCommands

LEMMA NewCommandType == NewCommand \in CommandType
<1>1. <<>> \in Seq(Words)  BY EmptySeq
<1> QED  BY <1>1 DEF NewCommand, CommandType

\* A command is appended to the list in a round that may still take one.
LEMMA AppendData ==
    ASSUME ParserData, NEW cmd \in CommandType, rounds < MaxCommands, AppendCommand(cmd),
           tokenIndex' \in 0..Len(line)
    PROVE  ParserData' /\ phase' = "list"
<1>1. commands' \in Seq(CommandType)
  BY AppendProperties DEF ParserData, AppendCommand
<1>2. prevOutput' \in Outputs
  BY DEF AppendCommand, CommandType, Outputs
<1>3. rounds' \in 0..MaxCommands
  BY ParserAssumption DEF ParserData, AppendCommand
<1>4. command' \in CommandType  BY NewCommandType DEF AppendCommand
<1>5. UNCHANGED <<line, status, carried>> /\ phase' = "list"  BY DEF AppendCommand
<1> QED  BY <1>1, <1>2, <1>3, <1>4, <1>5 DEF ParserData

LEMMA ContinueData ==
    ASSUME ParserData, NEW cmd \in CommandType, NEW taken \in Nat, rounds < MaxCommands,
           tokenIndex + taken <= Len(line), Continue(cmd, taken)
    PROVE  ParserData' /\ phase' \in {"list", "symbols"}
<1>1. Len(line) \in Nat /\ tokenIndex \in Nat
  BY LenProperties DEF ParserData
<1>2. tokenIndex' = tokenIndex + taken /\ tokenIndex' \in 0..Len(line)
  BY <1>1 DEF Continue
<1>3. CASE tokenIndex + taken = Len(line)
  <2>1. AppendCommand(cmd)  BY <1>3 DEF Continue
  <2> QED  BY <1>2, <2>1, AppendData
<1>4. CASE tokenIndex + taken # Len(line)
  <2>1. /\ UNCHANGED <<line, commands, rounds, status, prevOutput, carried>>
        /\ phase' = "symbols" /\ command' = cmd
    BY <1>4 DEF Continue
  <2>2. tokenIndex' < Len(line)  BY <1>1, <1>2, <1>4
  <2> QED  BY <1>2, <2>1, <2>2 DEF ParserData
<1> QED  BY <1>3, <1>4

LEMMA RejectData ==
    ASSUME ParserData, Reject, tokenIndex' \in 0..Len(line)
    PROVE  ParserData' /\ phase' = "done"
<1>1. command' \in CommandType /\ commands' \in Seq(CommandType)
  BY NewCommandType, EmptySeq DEF Reject
<1> QED  BY <1>1 DEF Reject, ParserData

\* Where the next token is, what it is, and what a file name would be.
LEMMA TokenData ==
    ASSUME ParserData, phase = "symbols"
    PROVE  /\ Len(line) \in Nat /\ tokenIndex \in Nat /\ tokenIndex + 1 <= Len(line)
           /\ Token \in Words \cup Symbols
           /\ FileName \in Words \cup Symbols \cup {NoToken}
           /\ TakenWithFile \in Nat /\ tokenIndex + TakenWithFile <= Len(line)
           /\ RunAfterFile \in Symbols \cup {NoToken}
<1>1. Len(line) \in Nat /\ tokenIndex \in Nat /\ tokenIndex + 1 <= Len(line)
  BY LenProperties DEF ParserData
<1>2. \A i \in 1..Len(line) : line[i] \in Words \cup Symbols
  BY ElementOfSeq DEF ParserData
<1>3. Token \in Words \cup Symbols  BY <1>1, <1>2 DEF Token
<1>4. FileName \in Words \cup Symbols \cup {NoToken}
  BY <1>1, <1>2 DEF FileName
<1>5. TakenWithFile \in Nat /\ tokenIndex + TakenWithFile <= Len(line)
  <2>1. FileName # NoToken => tokenIndex + 2 <= Len(line)  BY DEF FileName
  <2> QED  BY <1>1, <2>1 DEF TakenWithFile
<1>6. RunAfterFile \in Symbols \cup {NoToken}
  BY DEF RunAfterFile, ParserData, CommandType
<1> QED  BY <1>1, <1>3, <1>4, <1>5, <1>6

LEMMA ArgvData ==
    ASSUME ParserData
    PROVE  /\ Argv \in Seq(Words) /\ Len(Argv) \in Nat
           /\ tokenIndex + Len(Argv) <= Len(line)
           /\ FreshCommand \in CommandType
<1>1. Len(line) \in Nat /\ tokenIndex \in 0..Len(line)
  BY LenProperties DEF ParserData
<1>2. \A i \in 1..Len(line) : line[i] \in Words \cup Symbols
  BY ElementOfSeq DEF ParserData
<1> DEFINE rest == SubSeq(line, tokenIndex + 1, Len(line))
<1>3. rest \in Seq(Words \cup Symbols)
      /\ Len(rest) = (IF tokenIndex + 1 <= Len(line) THEN Len(line) - (tokenIndex + 1) + 1 ELSE 0)
  BY <1>1, <1>2, SubSeqProperties
<1>4. Len(rest) = Len(line) - tokenIndex  BY <1>1, <1>3
<1> HIDE DEF rest
<1>5. \E n \in 0..Len(rest) : LeadingWords(rest) \in Seq(Words) /\ Len(LeadingWords(rest)) = n
  BY <1>3, LeadingWordsProperties
<1>6. Argv = LeadingWords(rest)  BY DEF Argv, rest
<1>7. Argv \in Seq(Words) /\ Len(Argv) \in Nat /\ tokenIndex + Len(Argv) <= Len(line)
  BY <1>1, <1>4, <1>5, <1>6
<1>8. FreshCommand \in CommandType
  BY <1>7 DEF FreshCommand, NewCommand, CommandType
<1> QED  BY <1>7, <1>8

LEMMA ParserStepData ==
    ASSUME ParserData, ParserStep
    PROVE  ParserData' /\ phase' \in {"list", "symbols", "done"}
<1>1. Len(line) \in Nat /\ tokenIndex \in 0..Len(line)
  BY LenProperties DEF ParserData
<1>2. CASE StartCommand
  <2>1. Continue(FreshCommand, Len(Argv)) /\ rounds < MaxCommands
    BY <1>2 DEF StartCommand, NextRound
  <2> QED  BY <2>1, ArgvData, ContinueData
<1>3. CASE SkipBlank
  <2>1. rounds' \in 0..MaxCommands
    BY <1>3, ParserAssumption DEF SkipBlank, NextRound, ParserData
  <2> QED  BY <1>3, <2>1 DEF SkipBlank, NextRound, ParserData
<1>4. CASE RejectBlank
  BY <1>1, <1>4, RejectData DEF RejectBlank
<1>5. CASE RedirectInput
  <2>1. phase = "symbols" /\ rounds < MaxCommands  BY <1>5 DEF RedirectInput, ParserData
  <2> DEFINE cmd == [command EXCEPT !.input = "file", !.inFile = FileName,
                                    !.run = RunAfterFile]
  <2>2. cmd \in CommandType  BY <2>1, TokenData DEF CommandType, ParserData
  <2>3. Continue(cmd, TakenWithFile)  BY <1>5 DEF RedirectInput
  <2> HIDE DEF cmd
  <2> QED  BY <2>1, <2>2, <2>3, TokenData, ContinueData
<1>6. CASE RedirectOutput
  <2>1. phase = "symbols" /\ rounds < MaxCommands  BY <1>6 DEF RedirectOutput, ParserData
  <2> DEFINE cmd == [command EXCEPT !.output = IF Token = ">" THEN "new" ELSE "append",
                                    !.outFile = FileName, !.run = RunAfterFile]
  <2>2. cmd \in CommandType  BY <2>1, TokenData DEF CommandType, ParserData
  <2>3. Continue(cmd, TakenWithFile)  BY <1>6 DEF RedirectOutput
  <2> HIDE DEF cmd
  <2> QED  BY <2>1, <2>2, <2>3, TokenData, ContinueData
<1>7. CASE RejectAmbiguous
  <2>1. phase = "symbols"  BY <1>7 DEF RejectAmbiguous
  <2>2. tokenIndex' \in 0..Len(line)
    BY <1>7, <2>1, TokenData DEF RejectAmbiguous
  <2> QED  BY <1>7, <2>2, RejectData DEF RejectAmbiguous
<1>8. CASE MakePipe
  <2>1. phase = "symbols" /\ rounds < MaxCommands  BY <1>8 DEF MakePipe, ParserData
  <2> DEFINE cmd == [command EXCEPT !.output = "pipe", !.run = "|"]
  <2>2. cmd \in CommandType  BY DEF CommandType, ParserData, Symbols, Connectors
  <2>3. AppendCommand(cmd) /\ tokenIndex' \in 0..Len(line)
    BY <1>8, <2>1, TokenData DEF MakePipe
  <2> HIDE DEF cmd
  <2> QED  BY <2>1, <2>2, <2>3, AppendData
<1>9. CASE MakeConditional
  <2>1. phase = "symbols" /\ rounds < MaxCommands  BY <1>9 DEF MakeConditional, ParserData
  <2> DEFINE cmd == [command EXCEPT !.run = Token]
  <2>2. cmd \in CommandType
    BY <1>9 DEF MakeConditional, CommandType, ParserData, Symbols, Connectors
  <2>3. AppendCommand(cmd) /\ tokenIndex' \in 0..Len(line)
    BY <1>9, <2>1, TokenData DEF MakeConditional
  <2> HIDE DEF cmd
  <2> QED  BY <2>1, <2>2, <2>3, AppendData
<1>10. CASE SpinOnWord
  BY <1>10 DEF SpinOnWord, parserVars, ParserData
<1>11. CASE ReturnList
  BY <1>11 DEF ReturnList, ParserData
<1> QED
  BY <1>2, <1>3, <1>4, <1>5, <1>6, <1>7, <1>8, <1>9, <1>10, <1>11 DEF ParserStep

LEMMA InitData == ASSUME ParserInit PROVE ParserData /\ phase = "read"
<1>1. /\ line \in Seq(Words \cup Symbols) /\ Len(line) = 0
      /\ commands \in Seq(CommandType)
  BY EmptySeq DEF ParserInit
<1>2. command \in CommandType  BY NewCommandType DEF ParserInit
<1>3. 0 \in 0..MaxCommands  BY ParserAssumption
<1> QED  BY <1>1, <1>2, <1>3 DEF ParserInit, ParserData

LEMMA ReadLineData == ASSUME ParserData, ReadLine PROVE ParserData' /\ phase' = "list"
<1>1. line' \in Seq(Words \cup Symbols) /\ Len(line') \in Nat
  BY ParserAssumption, LenProperties DEF ReadLine
<1>2. commands' \in Seq(CommandType)  BY EmptySeq DEF ReadLine
<1>3. tokenIndex' \in 0..Len(line') /\ rounds' \in 0..MaxCommands
  BY <1>1, ParserAssumption DEF ReadLine
<1> QED  BY <1>1, <1>2, <1>3 DEF ReadLine, ParserData

LEMMA TakeListData == ASSUME ParserData, TakeList PROVE ParserData' /\ phase' = "read"
<1>1. line' \in Seq(Words \cup Symbols) /\ Len(line') = 0
      /\ commands' \in Seq(CommandType)
  BY EmptySeq DEF TakeList
<1>2. tokenIndex' \in 0..Len(line') /\ rounds' \in 0..MaxCommands
  BY <1>1, ParserAssumption DEF TakeList
<1> QED  BY <1>1, <1>2 DEF TakeList, ParserData

\* getCommandList never takes a token beyond the end of the line nor goes round its
\* loop more than MaxCommands times.
THEOREM ParserTypeCorrect == ParserSpec => []ParserTypeOK
<1> DEFINE Inv == ParserData /\ phase \in {"read", "list", "symbols", "done"}
<1>1. ParserInit => Inv  BY InitData
<1>2. Inv /\ [ParserNext]_parserVars => Inv'
  <2> SUFFICES ASSUME Inv, [ParserNext]_parserVars PROVE Inv'  OBVIOUS
  <2>1. CASE ReadLine  BY <2>1, ReadLineData
  <2>2. CASE ParserStep  BY <2>2, ParserStepData
  <2>3. CASE TakeList  BY <2>3, TakeListData
  <2>4. CASE UNCHANGED parserVars  BY <2>4 DEF parserVars, ParserData
  <2> QED  BY <2>1, <2>2, <2>3, <2>4 DEF ParserNext
<1>3. Inv => ParserTypeOK  BY DEF ParserData, ParserTypeOK, Outputs
<1> QED  BY <1>1, <1>2, <1>3, PTL DEF ParserSpec

-----------------------------------------------------------------------------
(* The segments of a line.                                                 *)

\* A finite set of numbers has an element with k - 1 smaller ones, for each k.
LEMMA Ranks ==
    ASSUME NEW P \in SUBSET Nat, IsFiniteSet(P), NEW k \in 1..Cardinality(P)
    PROVE  \E i \in P : Cardinality({j \in P : j < i}) = k - 1
<1> DEFINE below(i) == {j \in P : j < i}
           T == {m \in Nat : m < Cardinality(P) => \E i \in P : Cardinality(below(i)) = m}
<1>0. Cardinality(P) \in Nat  BY FS_CardinalityType
<1>1. 0 \in T
  <2> SUFFICES ASSUME 0 < Cardinality(P) PROVE \E i \in P : Cardinality(below(i)) = 0
    OBVIOUS
  <2>1. P # {}  BY FS_EmptySet
  <2>2. PICK i \in P : \A j \in P : i <= j  BY <2>1, LeastNatural
  <2>3. \A j \in P : ~(j < i)
    <3>1. \A j \in P : j \in Nat /\ i \in Nat  OBVIOUS
    <3> QED  BY <2>2, <3>1
  <2>4. below(i) = {}  BY <2>3
  <2> HIDE DEF below
  <2> QED  BY <2>4, FS_EmptySet
<1>2. ASSUME NEW m \in T PROVE m + 1 \in T
  <2> SUFFICES ASSUME m + 1 < Cardinality(P)
               PROVE  \E i \in P : Cardinality(below(i)) = m + 1
    OBVIOUS
  <2>1. PICK i \in P : Cardinality(below(i)) = m  BY <1>0
  <2>2. below(i) \in SUBSET P /\ i \notin below(i)  OBVIOUS
  <2>3. IsFiniteSet(below(i))  BY <2>2, FS_Subset
  <2> DEFINE D == below(i) \cup {i}
             R == P \ D
  <2>4. IsFiniteSet(D) /\ Cardinality(D) = m + 1
    <3> HIDE DEF below
    <3> QED  BY <2>1, <2>2, <2>3, FS_AddElement
  <2>5. R # {}
    <3>1. CASE R = {}
      <4>1. P = D  BY <2>2, <3>1
      <4> QED  BY <2>4, <4>1, <1>0
    <3> QED  BY <3>1
  <2>6. PICK h \in R : \A j \in R : h <= j  BY <2>5, LeastNatural
  <2>7. below(h) = D
    <3>1. i < h  BY <2>6
    <3>2. \A j \in P : j < h => j \in D  BY <2>6
    <3>3. \A j \in D : j \in P /\ j < h  BY <2>2, <3>1
    <3> HIDE DEF D
    <3> QED  BY <3>2, <3>3
  <2> QED  BY <2>4, <2>6, <2>7
<1>3. T = Nat
  <2>1. T \in SUBSET Nat  OBVIOUS
  <2> HIDE DEF T
  <2> QED  BY <1>1, <1>2, <2>1, InductiveSet
<1>4. k - 1 \in T /\ k - 1 < Cardinality(P)  BY <1>0, <1>3
<1> QED  BY <1>4

\* The k-th cut of a line is one of its cut places, and they come in order.
Cuts(l) == Cardinality(CutPlaces(l))

LEMMA CutFacts ==
    ASSUME NEW l \in Seq(Words \cup Symbols)
    PROVE  /\ Cuts(l) \in Nat /\ Cuts(l) >= 2
           /\ CutPlaces(l) \subseteq 0..(Len(l) + 1)
           /\ \A k \in 1..Cuts(l) : Cut(l, k) \in CutPlaces(l)
           /\ \A j, k \in 1..Cuts(l) : j < k => Cut(l, j) < Cut(l, k)
           /\ \A i \in CutPlaces(l) : \E k \in 1..Cuts(l) : Cut(l, k) = i
           /\ Cut(l, 1) = 0 /\ Cut(l, Cuts(l)) = Len(l) + 1
<1> DEFINE P == CutPlaces(l)
           K == Cuts(l)
           below(i) == {j \in P : j < i}
<1>1. Len(l) \in Nat /\ DOMAIN l = 1..Len(l)  BY LenProperties
<1>2. P \subseteq 0..(Len(l) + 1) /\ 0 \in P /\ Len(l) + 1 \in P
  BY <1>1 DEF CutPlaces
<1>3. IsFiniteSet(P) /\ K \in Nat
  <2>1. IsFiniteSet(0..(Len(l) + 1))  BY <1>1, FS_Interval
  <2> HIDE DEF P
  <2> QED  BY <1>2, <2>1, FS_Subset, FS_CardinalityType DEF Cuts, P
<1>4. P \in SUBSET Nat /\ K = Cardinality(P)  BY <1>1, <1>2 DEF Cuts
<1>5. \A k \in 1..K : Cut(l, k) = CHOOSE i \in P : Cardinality(below(i)) = k - 1
  BY DEF Cut
<1> HIDE DEF P, K
<1>6. \A k \in 1..K : Cut(l, k) \in P /\ Cardinality(below(Cut(l, k))) = k - 1
  <2> SUFFICES ASSUME NEW k \in 1..K
               PROVE  Cut(l, k) \in P /\ Cardinality(below(Cut(l, k))) = k - 1
    OBVIOUS
  <2>1. \E i \in P : Cardinality(below(i)) = k - 1  BY <1>3, <1>4, Ranks
  <2> HIDE DEF below
  <2> QED  BY <1>5, <2>1
<1>7. \A i \in P : IsFiniteSet(below(i)) /\ Cardinality(below(i)) \in Nat
  <2> SUFFICES ASSUME NEW i \in P
               PROVE  IsFiniteSet(below(i)) /\ Cardinality(below(i)) \in Nat
    OBVIOUS
  <2>1. below(i) \in SUBSET P  OBVIOUS
  <2> HIDE DEF below
  <2> QED  BY <1>3, <2>1, FS_Subset, FS_CardinalityType
<1>8. ASSUME NEW a \in P, NEW b \in P, a < b
      PROVE  Cardinality(below(a)) < Cardinality(below(b))
  <2>1. below(a) \cup {a} \in SUBSET below(b) /\ a \notin below(a)
    <3>1. \A j \in P : j \in Nat  BY <1>4
    <3>2. \A j \in P : j < a => j < b  BY <1>8, <3>1
    <3>3. \A j \in below(a) : j \in P /\ j < a  OBVIOUS
    <3>4. a \notin below(a)  BY <3>1
    <3>5. \A j \in below(a) \cup {a} : j \in P /\ j < b  BY <1>8, <3>2, <3>3
    <3> QED  BY <3>4, <3>5
  <2> HIDE DEF below
  <2>2. /\ IsFiniteSet(below(a)) /\ IsFiniteSet(below(b))
        /\ Cardinality(below(a)) \in Nat /\ Cardinality(below(b)) \in Nat
    BY <1>7
  <2>3. Cardinality(below(a) \cup {a}) = Cardinality(below(a)) + 1
    BY <2>1, <2>2, FS_AddElement
  <2>4. Cardinality(below(a) \cup {a}) <= Cardinality(below(b))
    BY <2>1, <2>2, FS_Subset
  <2> QED  BY <2>2, <2>3, <2>4
<1>9. \A i \in P : Cardinality(below(i)) + 1 \in 1..K
  <2> SUFFICES ASSUME NEW i \in P PROVE Cardinality(below(i)) + 1 \in 1..K
    OBVIOUS
  <2>1. below(i) \in SUBSET P /\ i \in P /\ i \notin below(i)  BY <1>4
  <2>2. below(i) \cup {i} \in SUBSET P  BY <2>1
  <2> HIDE DEF below
  <2>3. Cardinality(below(i) \cup {i}) = Cardinality(below(i)) + 1
    BY <1>7, <2>1, FS_AddElement
  <2>4. Cardinality(below(i) \cup {i}) <= K  BY <1>3, <1>4, <2>2, FS_Subset
  <2>5. PICK q \in Nat : q = Cardinality(below(i))  BY <1>7
  <2>6. q + 1 <= K  BY <2>3, <2>4, <2>5
  <2>7. q + 1 \in 1..K  BY <1>3, <2>6
  <2> QED  BY <2>5, <2>7
<1> HIDE DEF below
<1>10. ASSUME NEW j \in 1..K, NEW k \in 1..K, j < k PROVE Cut(l, j) < Cut(l, k)
  <2>1. PICK a \in P, b \in P : a = Cut(l, j) /\ b = Cut(l, k)  BY <1>6
  <2>2. Cardinality(below(a)) = j - 1 /\ Cardinality(below(b)) = k - 1
    BY <1>6, <2>1
  <2>3. a # b /\ ~(b < a)
    <3>1. ASSUME b < a PROVE FALSE
      <4>1. Cardinality(below(b)) < Cardinality(below(a))  BY <1>8, <3>1
      <4> QED  BY <1>3, <1>10, <2>2, <4>1
    <3>2. a # b  BY <1>3, <1>10, <2>2
    <3> QED  BY <3>1, <3>2
  <2> QED  BY <1>4, <2>1, <2>3
<1>11. ASSUME NEW i \in P PROVE \E k \in 1..K : Cut(l, k) = i
  <2>1. PICK k \in 1..K : k = Cardinality(below(i)) + 1  BY <1>9
  <2>2. PICK a \in P : a = Cut(l, k) /\ Cardinality(below(a)) = k - 1  BY <1>6
  <2>3. Cardinality(below(a)) = Cardinality(below(i))  BY <1>7, <2>1, <2>2
  <2>4. ~(a < i) /\ ~(i < a)
    <3>1. ASSUME a < i PROVE FALSE
      <4>1. Cardinality(below(a)) < Cardinality(below(i))  BY <1>8, <3>1
      <4> QED  BY <1>7, <2>3, <4>1
    <3>2. ASSUME i < a PROVE FALSE
      <4>1. Cardinality(below(i)) < Cardinality(below(a))  BY <1>8, <3>2
      <4> QED  BY <1>7, <2>3, <4>1
    <3> QED  BY <3>1, <3>2
  <2>5. a = i  BY <1>4, <2>4
  <2> QED  BY <2>2, <2>5
<1>12. \A k \in 1..K : Cut(l, k) \in Nat /\ Cut(l, k) <= Len(l) + 1
  <2> SUFFICES ASSUME NEW k \in 1..K PROVE Cut(l, k) \in Nat /\ Cut(l, k) <= Len(l) + 1
    OBVIOUS
  <2>1. Cut(l, k) \in P  BY <1>6
  <2>2. Cut(l, k) \in 0..(Len(l) + 1)  BY <1>2, <2>1
  <2> QED  BY <1>1, <2>2
<1>13. Cut(l, 1) = 0 /\ Cut(l, K) = Len(l) + 1 /\ K >= 2
  <2>1. PICK a \in 1..K : Cut(l, a) = 0  BY <1>2, <1>11
  <2>2. PICK b \in 1..K : Cut(l, b) = Len(l) + 1  BY <1>2, <1>11
  <2>3. 1 \in 1..K /\ K \in 1..K /\ a # b  BY <1>1, <1>3, <2>1, <2>2
  <2>4. ~(1 < a)
    <3>1. 1 < a => Cut(l, 1) < Cut(l, a)  BY <1>10, <2>3
    <3>2. Cut(l, 1) \in Nat  BY <1>12, <2>3
    <3> QED  BY <2>1, <3>1, <3>2
  <2>5. ~(b < K)
    <3>1. b < K => Cut(l, b) < Cut(l, K)  BY <1>10, <2>3
    <3>2. Cut(l, K) \in Nat /\ Cut(l, K) <= Len(l) + 1  BY <1>12, <2>3
    <3> QED  BY <1>1, <2>2, <3>1, <3>2
  <2>6. a = 1 /\ b = K  BY <1>3, <2>4, <2>5
  <2>7. K >= 2  BY <1>3, <2>3, <2>6
  <2> QED  BY <2>1, <2>2, <2>6, <2>7
<1> QED  BY <1>2, <1>3, <1>6, <1>10, <1>11, <1>13 DEF K, P

\* The k-th segment lies between the c-th and the e-th token of the line.
SegmentAt(l, k, c, e) ==
    /\ c = Cut(l, k) /\ e = Cut(l, k + 1)
    /\ c \in Nat /\ e \in Nat /\ c < e /\ e <= Len(l) + 1
    /\ c # 0 => l[c] \in Connectors
    /\ e <= Len(l) => l[e] \in Connectors
    /\ Segment(l, k) \in Seq(Words \cup Symbols)
    /\ Len(Segment(l, k)) = e - c - 1
    /\ \A i \in 1..(e - c - 1) : /\ Segment(l, k)[i] = l[c + i]
                                 /\ l[c + i] \notin Connectors
    /\ ConnectorAfter(l, k) = IF e <= Len(l) THEN l[e] ELSE NoToken

\* Each segment lies between two neighbouring cuts.
LEMMA SegmentFacts ==
    ASSUME NEW l \in Seq(Words \cup Symbols), NEW k \in 1..(Cuts(l) - 1)
    PROVE  \E c, e \in Nat : SegmentAt(l, k, c, e)
<1>1. /\ Cuts(l) \in Nat
      /\ CutPlaces(l) \subseteq 0..(Len(l) + 1)
      /\ \A j \in 1..Cuts(l) : Cut(l, j) \in CutPlaces(l)
      /\ \A i, j \in 1..Cuts(l) : i < j => Cut(l, i) < Cut(l, j)
      /\ \A i \in CutPlaces(l) : \E j \in 1..Cuts(l) : Cut(l, j) = i
  BY CutFacts
<1>2. Len(l) \in Nat /\ DOMAIN l = 1..Len(l)  BY LenProperties
<1>3. \A i \in 1..Len(l) : l[i] \in Words \cup Symbols  BY ElementOfSeq
<1>4. k \in 1..Cuts(l) /\ k + 1 \in 1..Cuts(l) /\ k < k + 1  BY <1>1
<1>5. PICK c, e \in CutPlaces(l) : c = Cut(l, k) /\ e = Cut(l, k + 1) /\ c < e
  BY <1>1, <1>4
<1>6. c \in Nat /\ e \in Nat /\ e <= Len(l) + 1 /\ c < e  BY <1>1, <1>2, <1>5
<1>7. \A i \in CutPlaces(l) : i = 0 \/ i = Len(l) + 1 \/ (i \in 1..Len(l) /\ l[i] \in Connectors)
  BY <1>2 DEF CutPlaces
<1>8. (c # 0 => l[c] \in Connectors) /\ (e <= Len(l) => l[e] \in Connectors)
  BY <1>2, <1>5, <1>6, <1>7
<1>9. ASSUME NEW i \in 1..Len(l), c < i, i < e PROVE l[i] \notin Connectors
  <2> SUFFICES ASSUME l[i] \in Connectors PROVE FALSE  OBVIOUS
  <2>1. i \in CutPlaces(l)  BY <1>2 DEF CutPlaces
  <2>2. PICK j \in 1..Cuts(l) : Cut(l, j) = i  BY <1>1, <2>1
  <2>3. ~(j <= k)
    <3>1. j < k => i < c  BY <1>1, <1>4, <1>5, <2>2
    <3>2. j # k  BY <1>5, <1>6, <1>9, <2>2
    <3> QED  BY <1>6, <1>9, <3>1, <3>2
  <2>4. ~(k + 1 <= j)
    <3>1. k + 1 < j => e < i  BY <1>1, <1>4, <1>5, <2>2
    <3>2. j # k + 1  BY <1>5, <1>6, <1>9, <2>2
    <3> QED  BY <1>6, <1>9, <3>1, <3>2
  <2> QED  BY <2>3, <2>4
<1>10. Segment(l, k) = SubSeq(l, c + 1, e - 1)  BY <1>5 DEF Segment
<1>11. /\ SubSeq(l, c + 1, e - 1) \in Seq(Words \cup Symbols)
       /\ Len(SubSeq(l, c + 1, e - 1)) = e - c - 1
       /\ \A i \in 1..(e - c - 1) : SubSeq(l, c + 1, e - 1)[i] = l[c + i]
  <2>1. c + 1 \in Int /\ e - 1 \in Int /\ c + 1 \in 1..(e - 1) + 1 /\ e - 1 \in 0..Len(l)
    BY <1>2, <1>6
  <2>2. \A i \in (c + 1)..(e - 1) : l[i] \in Words \cup Symbols  BY <1>3, <1>6, <1>2
  <2>3. /\ SubSeq(l, c + 1, e - 1) \in Seq(Words \cup Symbols)
        /\ Len(SubSeq(l, c + 1, e - 1)) = (IF c + 1 <= e - 1 THEN (e - 1) - (c + 1) + 1 ELSE 0)
        /\ \A i \in 1..(e - 1) - (c + 1) + 1 : SubSeq(l, c + 1, e - 1)[i] = l[(c + 1) + i - 1]
    BY <2>1, <2>2, SubSeqProperties
  <2>4. \A i \in 1..(e - c - 1) : i \in 1..(e - 1) - (c + 1) + 1 /\ (c + 1) + i - 1 = c + i
    BY <1>6
  <2>5. (IF c + 1 <= e - 1 THEN (e - 1) - (c + 1) + 1 ELSE 0) = e - c - 1
    BY <1>6
  <2> QED  BY <2>3, <2>4, <2>5
<1>12. \A i \in 1..(e - c - 1) : l[c + i] \notin Connectors
  <2>1. \A i \in 1..(e - c - 1) : c + i \in 1..Len(l) /\ c < c + i /\ c + i < e
    BY <1>2, <1>6
  <2> QED  BY <1>9, <2>1
<1>13. ConnectorAfter(l, k) = IF e <= Len(l) THEN l[e] ELSE NoToken
  <2>1. e \in DOMAIN l <=> e <= Len(l)  BY <1>2, <1>6
  <2> QED  BY <1>5, <2>1 DEF ConnectorAfter
<1> QED  BY <1>5, <1>6, <1>8, <1>10, <1>11, <1>12, <1>13 DEF SegmentAt

\* Each token that is not a connector lies in a segment.
LEMMA InSomeSegment ==
    ASSUME NEW l \in Seq(Words \cup Symbols), NEW i \in 1..Len(l), l[i] \notin Connectors
    PROVE  \E k \in 1..(Cuts(l) - 1) : Cut(l, k) < i /\ i < Cut(l, k + 1)
<1>1. /\ Cuts(l) \in Nat /\ Cuts(l) >= 2
      /\ CutPlaces(l) \subseteq 0..(Len(l) + 1)
      /\ \A j \in 1..Cuts(l) : Cut(l, j) \in CutPlaces(l)
      /\ Cut(l, 1) = 0 /\ Cut(l, Cuts(l)) = Len(l) + 1
  BY CutFacts
<1>2. Len(l) \in Nat /\ DOMAIN l = 1..Len(l)  BY LenProperties
<1> DEFINE T == {j \in 1..Cuts(l) : i < Cut(l, j)}
<1>3. T \in SUBSET Nat /\ Cuts(l) \in T  BY <1>1, <1>2
<1>4. PICK j \in T : \A h \in T : j <= h  BY <1>3, LeastNatural
<1>5. j \in 2..Cuts(l)  BY <1>1, <1>2, <1>4
<1>6. j - 1 \notin T /\ j - 1 \in 1..Cuts(l)
  BY <1>1, <1>4, <1>5
<1>7. Cut(l, j - 1) \in CutPlaces(l) /\ ~(i < Cut(l, j - 1)) /\ Cut(l, j - 1) \in 0..(Len(l) + 1)
  BY <1>1, <1>6
<1>8. Cut(l, j - 1) # i
  <2>1. i \notin CutPlaces(l)  BY <1>2 DEF CutPlaces
  <2> QED  BY <1>7, <2>1
<1>9. PICK a \in 0..(Len(l) + 1) : a = Cut(l, j - 1)  BY <1>7
<1>10. a < i  BY <1>2, <1>7, <1>8, <1>9
<1>11. j - 1 \in 1..(Cuts(l) - 1) /\ (j - 1) + 1 = j  BY <1>1, <1>5
<1> QED  BY <1>4, <1>9, <1>10, <1>11

\* How many segments of a line are commands.
LEMMA CountFacts ==
    ASSUME NEW l \in Seq(Words \cup Symbols), l # <<>>
    PROVE  /\ SegmentCount(l) \in Nat \ {0} /\ SegmentCount(l) < Cuts(l)
           /\ IF l[Len(l)] \in Conditionals
              THEN SegmentCount(l) = Cuts(l) - 2 ELSE SegmentCount(l) = Cuts(l) - 1
           /\ l[Len(l)] \in Connectors => Cut(l, Cuts(l) - 1) = Len(l)
           /\ l[Len(l)] # "|" =>
                 \A k \in 1..SegmentCount(l) :
                    Cut(l, k) < Len(l) /\ (k < SegmentCount(l) <=> Cut(l, k + 1) < Len(l))
<1> DEFINE K == Cuts(l)
           n == SegmentCount(l)
           L == Len(l)
<1>1. /\ K \in Nat /\ K >= 2
      /\ CutPlaces(l) \subseteq 0..(L + 1)
      /\ \A j \in 1..K : Cut(l, j) \in CutPlaces(l)
      /\ \A i, j \in 1..K : i < j => Cut(l, i) < Cut(l, j)
      /\ \A i \in CutPlaces(l) : \E j \in 1..K : Cut(l, j) = i
      /\ Cut(l, 1) = 0 /\ Cut(l, K) = L + 1
  BY CutFacts
<1>2. L \in Nat \ {0} /\ DOMAIN l = 1..L
  <2>1. L \in Nat /\ DOMAIN l = 1..L  BY LenProperties
  <2>2. L # 0  BY EmptySeq
  <2> QED  BY <2>1, <2>2
<1>3. IF l[L] \in Conditionals THEN n = K - 2 ELSE n = K - 1
  BY <1>1 DEF SegmentCount, Cuts
<1> HIDE DEF K, n
<1>4. \A j \in 1..K : Cut(l, j) \in 0..(L + 1)  BY <1>1
<1>5. ASSUME l[L] \in Connectors PROVE K >= 3 /\ Cut(l, K - 1) = L
  <2>1. L \in CutPlaces(l)
    <3>1. L \in DOMAIN l  BY <1>2
    <3> QED  BY <1>5, <3>1 DEF CutPlaces
  <2>2. PICK j \in 1..K : Cut(l, j) = L  BY <1>1, <2>1
  <2>3. j # 1 /\ j # K  BY <1>1, <1>2, <2>2
  <2>4. K >= 3 /\ K - 1 \in 1..K /\ K - 1 < K  BY <1>1, <2>3
  <2>5. PICK a \in 0..(L + 1) : a = Cut(l, K - 1)  BY <1>4, <2>4
  <2>6. a < L + 1
    <3>1. K \in 1..K  BY <1>1
    <3>2. Cut(l, K - 1) < Cut(l, K)  BY <1>1, <2>4, <3>1
    <3> QED  BY <1>1, <2>5, <3>2
  <2>7. j = K - 1
    <3>1. ASSUME j < K - 1 PROVE FALSE
      <4>1. Cut(l, j) < Cut(l, K - 1)  BY <1>1, <2>4, <3>1
      <4> QED  BY <1>2, <2>2, <2>5, <2>6, <4>1
    <3> QED  BY <1>1, <2>3, <3>1
  <2> QED  BY <2>2, <2>4, <2>7
<1>6. Conditionals \subseteq Connectors  BY DEF Connectors
<1>7. n \in Nat \ {0} /\ n < K  BY <1>1, <1>3, <1>5, <1>6
<1>8. ASSUME l[L] # "|" PROVE Cut(l, n) < L /\ L <= Cut(l, n + 1)
  <2>1. CASE l[L] \in Conditionals
    <3>1. Cut(l, K - 1) = L /\ n + 1 = K - 1 /\ n \in 1..K /\ n + 1 \in 1..K /\ n < n + 1
      BY <1>1, <1>3, <1>5, <1>6, <1>7, <2>1
    <3>2. Cut(l, n) < Cut(l, n + 1)  BY <1>1, <3>1
    <3> QED  BY <1>2, <3>1, <3>2
  <2>2. CASE l[L] \notin Conditionals
    <3>1. l[L] \notin Connectors  BY <1>8, <2>2 DEF Connectors
    <3>2. n + 1 = K /\ n \in 1..K /\ K \in 1..K /\ n < K  BY <1>1, <1>3, <1>7, <2>2
    <3>3. Cut(l, n) < Cut(l, K)  BY <1>1, <3>2
    <3>4. PICK a \in CutPlaces(l) : a = Cut(l, n) /\ a \in 0..(L + 1)  BY <1>1, <1>4, <3>2
    <3>5. a # L  BY <1>2, <3>1, <3>4 DEF CutPlaces
    <3>6. a < L  BY <1>1, <1>2, <3>3, <3>4, <3>5
    <3>7. L <= Cut(l, n + 1)  BY <1>1, <1>2, <3>2
    <3> QED  BY <3>4, <3>6, <3>7
  <2> QED  BY <2>1, <2>2
<1>9. ASSUME l[L] # "|", NEW k \in 1..n
      PROVE  Cut(l, k) < L /\ (k < n <=> Cut(l, k + 1) < L)
  <2>1. n \in 1..K /\ n + 1 \in 1..K /\ k \in 1..K /\ k + 1 \in 1..K  BY <1>1, <1>7
  <2>2. PICK a, b, x, y \in 0..(L + 1) : /\ a = Cut(l, k) /\ b = Cut(l, k + 1)
                                         /\ x = Cut(l, n) /\ y = Cut(l, n + 1)
    BY <1>4, <2>1
  <2>3. x < L /\ L <= y  BY <1>8, <1>9, <2>2
  <2>4. a <= x
    <3>1. k < n => a < x  BY <1>1, <2>1, <2>2
    <3>2. k = n => a = x  BY <2>2
    <3> QED  BY <1>2, <1>7, <3>1, <3>2
  <2>5. k < n => b <= x
    <3>1. k + 1 < n => b < x  BY <1>1, <2>1, <2>2
    <3>2. k + 1 = n => b = x  BY <2>2
    <3> QED  BY <1>2, <1>7, <3>1, <3>2
  <2>6. ~(k < n) => b = y  BY <1>7, <2>2
  <2> QED  BY <1>2, <2>2, <2>3, <2>4, <2>5, <2>6
<1> QED  BY <1>3, <1>5, <1>7, <1>9 DEF K, n

-----------------------------------------------------------------------------
(* What the tokens taken so far mean.                                      *)

\* The input of the k-th command is a pipe for the parser, which has `before` from
\* the line before.
FromPipe(l, before, k) == PipedInto(l, k) \/ (k = 1 /\ before = "pipe")

\* The symbols among the first u tokens of s, and the file that one of them names.
Among(s, symbols, u) == {i \in Places(s, symbols) : i <= u}
FileOf(s, places) ==
    IF places = {} THEN NoToken ELSE s[(CHOOSE i \in places : TRUE) + 1]

CommandOf(argv, input, inFile, output, outFile, run) ==
    [argv |-> argv, input |-> input, inFile |-> inFile,
     output |-> output, outFile |-> outFile, run |-> run]

\* The k-th command when u tokens of its segment have been taken.
InputMeant(l, before, k, u) ==
    IF FromPipe(l, before, k) THEN "pipe"
    ELSE IF Among(Segment(l, k), {"<"}, u) # {} THEN "file" ELSE "stdin"

OutputMeant(s, u) ==
    IF Among(s, {">"}, u) # {} THEN "new"
    ELSE IF Among(s, {">>"}, u) # {} THEN "append" ELSE "stdout"

PartMeant(l, before, k, u) ==
    LET s == Segment(l, k)
    IN CommandOf(LeadingWords(s),
                 InputMeant(l, before, k, u), FileOf(s, Among(s, {"<"}, u)),
                 OutputMeant(s, u), FileOf(s, Among(s, {">", ">>"}, u)), NoToken)

\* And when its segment and the connector have been.
Expected(l, before, k) ==
    LET s == Segment(l, k)
        u == Len(s)
    IN CommandOf(LeadingWords(s),
                 InputMeant(l, before, k, u), FileOf(s, Among(s, {"<"}, u)),
                 IF PipedOut(l, k) THEN "pipe" ELSE OutputMeant(s, u),
                 FileOf(s, Among(s, {">", ">>"}, u)), ConnectorAfter(l, k))

\* Among these tokens there is one source of input and one place for output at most.
Clear(l, before, k, u) ==
    LET ins == Among(Segment(l, k), {"<"}, u)
        outs == Among(Segment(l, k), {">", ">>"}, u)
    IN /\ \A i, j \in ins : i = j
       /\ FromPipe(l, before, k) => (ins = {} /\ LeadingWords(Segment(l, k)) # <<>>)
       /\ \A i, j \in outs : i = j

Accepted(l, before, k) ==
    LET s == Segment(l, k)
    IN /\ Clear(l, before, k, Len(s))
       /\ PipedOut(l, k) => Among(s, {">", ">>"}, Len(s)) = {}

\* The first u tokens of s are words and then redirections with their files.
Paired(s, u) ==
    LET w == Len(LeadingWords(s))
    IN /\ u \in w..Len(s) /\ (u - w) % 2 = 0
       /\ \A i \in (w + 1)..u : s[i] \in (IF (i - w) % 2 = 1 THEN Redirections ELSE Words)

\* The leading words end with the sequence or at the symbol after it.
LEMMA SameLeadingWords ==
    ASSUME NEW s \in Seq(Words \cup Symbols), NEW t \in Seq(Words \cup Symbols),
           Len(s) <= Len(t), \A i \in 1..Len(s) : s[i] = t[i],
           Len(s) < Len(t) => t[Len(s) + 1] \in Symbols
    PROVE  LeadingWords(s) = LeadingWords(t)
<1>0. Len(s) \in Nat /\ Len(t) \in Nat /\ Words \cap Symbols = {}
  BY LenProperties, ParserAssumption
<1>1. PICK m \in 0..Len(s) :
              /\ \A i \in 1..m : s[i] \in Words
              /\ m < Len(s) => s[m + 1] \in Symbols
              /\ LeadingWords(s) = SubSeq(s, 1, m)
              /\ LeadingWords(s) \in Seq(Words)
              /\ Len(LeadingWords(s)) = m
  BY LeadingWordsProperties
<1>2. PICK n \in 0..Len(t) :
              /\ \A i \in 1..n : t[i] \in Words
              /\ n < Len(t) => t[n + 1] \in Symbols
              /\ LeadingWords(t) = SubSeq(t, 1, n)
              /\ LeadingWords(t) \in Seq(Words)
              /\ Len(LeadingWords(t)) = n
  BY LeadingWordsProperties
<1>3. ~(m < n)
  <2> SUFFICES ASSUME m < n PROVE FALSE  OBVIOUS
  <2>1. m + 1 \in 1..n  BY <1>0
  <2>2. t[m + 1] \in Words  BY <1>2, <2>1
  <2>3. CASE m < Len(s)
    <3>1. m + 1 \in 1..Len(s)  BY <1>0, <2>3
    <3> QED  BY <1>0, <1>1, <2>2, <2>3, <3>1
  <2>4. CASE m = Len(s)  BY <1>0, <2>2, <2>4
  <2> QED  BY <1>0, <2>3, <2>4
<1>4. ~(n < m)
  <2> SUFFICES ASSUME n < m PROVE FALSE  OBVIOUS
  <2>1. n + 1 \in 1..m /\ n + 1 \in 1..Len(s) /\ n < Len(t)  BY <1>0
  <2>2. s[n + 1] \in Words /\ t[n + 1] \in Symbols  BY <1>1, <1>2, <2>1
  <2> QED  BY <1>0, <2>1, <2>2
<1>5. m = n  BY <1>0, <1>3, <1>4
<1>6. CASE m = 0
  <2>1. SubSeq(s, 1, m) = <<>> /\ SubSeq(t, 1, n) = <<>>  BY <1>5, <1>6, SubSeqEmpty
  <2> QED  BY <1>1, <1>2, <2>1
<1>7. CASE m # 0
  <2>1. \A i \in 1..Len(s) : s[i] \in Words \cup Symbols  BY ElementOfSeq
  <2>2. \A i \in 1..Len(t) : t[i] \in Words \cup Symbols  BY ElementOfSeq
  <2>3. \A i \in 1..m : SubSeq(s, 1, m)[i] = s[i]
    BY <1>0, <1>7, <2>1, SubSeqProperties
  <2>4. \A i \in 1..n : SubSeq(t, 1, n)[i] = t[i]
    BY <1>0, <1>5, <1>7, <2>2, SubSeqProperties
  <2>5. \A i \in 1..m : LeadingWords(s)[i] = LeadingWords(t)[i]
    <3> SUFFICES ASSUME NEW i \in 1..m PROVE LeadingWords(s)[i] = LeadingWords(t)[i]
      OBVIOUS
    <3>1. i \in 1..n /\ i \in 1..Len(s)  BY <1>0, <1>5
    <3> QED  BY <1>1, <1>2, <2>3, <2>4, <3>1
  <2> QED  BY <1>1, <1>2, <1>5, <2>5, SeqEqual
<1> QED  BY <1>6, <1>7

\* initArgv takes the words the segment starts with, and no others.
LEMMA ArgvOfSegment ==
    ASSUME NEW l \in Seq(Words \cup Symbols), NEW k \in 1..(Cuts(l) - 1)
    PROVE  LeadingWords(SubSeq(l, Cut(l, k) + 1, Len(l))) = LeadingWords(Segment(l, k))
<1>1. PICK c, e \in Nat : SegmentAt(l, k, c, e)  BY SegmentFacts
<1>2. Len(l) \in Nat /\ \A i \in 1..Len(l) : l[i] \in Words \cup Symbols
  BY LenProperties, ElementOfSeq
<1> DEFINE t == SubSeq(l, c + 1, Len(l))
           s == Segment(l, k)
<1>3. c = Cut(l, k) /\ c < e /\ e <= Len(l) + 1 /\ s \in Seq(Words \cup Symbols)
      /\ Len(s) = e - c - 1 /\ (e <= Len(l) => l[e] \in Connectors)
      /\ \A i \in 1..(e - c - 1) : s[i] = l[c + i]
  BY <1>1 DEF SegmentAt
<1>4. /\ t \in Seq(Words \cup Symbols)
      /\ Len(t) = Len(l) - c
      /\ \A i \in 1..(Len(l) - c) : t[i] = l[c + i]
  <2>1. c + 1 \in 1..Len(l) + 1 /\ Len(l) \in 0..Len(l)  BY <1>2, <1>3
  <2>2. \A i \in (c + 1)..Len(l) : l[i] \in Words \cup Symbols  BY <1>2
  <2>3. /\ t \in Seq(Words \cup Symbols)
        /\ Len(t) = (IF c + 1 <= Len(l) THEN Len(l) - (c + 1) + 1 ELSE 0)
        /\ \A i \in 1..Len(l) - (c + 1) + 1 : t[i] = l[(c + 1) + i - 1]
    BY <1>2, <2>1, <2>2, SubSeqProperties
  <2> HIDE DEF t
  <2>4. \A i \in 1..(Len(l) - c) : i \in 1..Len(l) - (c + 1) + 1 /\ (c + 1) + i - 1 = c + i
    BY <1>2
  <2>5. (IF c + 1 <= Len(l) THEN Len(l) - (c + 1) + 1 ELSE 0) = Len(l) - c
    BY <1>2, <1>3
  <2> QED  BY <2>3, <2>4, <2>5
<1> HIDE DEF t, s
<1>5. Len(s) <= Len(t)  BY <1>2, <1>3, <1>4
<1>6. \A i \in 1..Len(s) : s[i] = t[i]
  <2>1. \A i \in 1..(e - c - 1) : i \in 1..(Len(l) - c)  BY <1>2, <1>3
  <2> QED  BY <1>3, <1>4, <2>1
<1>7. ASSUME Len(s) < Len(t) PROVE t[Len(s) + 1] \in Symbols
  <2>0. e - c - 1 < Len(l) - c  BY <1>3, <1>4, <1>7
  <2>1. e <= Len(l) /\ (e - c - 1) + 1 \in 1..(Len(l) - c) /\ c + ((e - c - 1) + 1) = e
    <3>1. PICK len \in Nat : len = Len(l)  BY <1>2
    <3>2. e <= len /\ c < e  BY <1>3, <2>0, <3>1
    <3>3. (e - c - 1) + 1 \in 1..(len - c) /\ c + ((e - c - 1) + 1) = e  BY <3>2
    <3> QED  BY <3>1, <3>2, <3>3
  <2>2. t[Len(s) + 1] = l[e]  BY <1>3, <1>4, <2>1
  <2> QED  BY <1>3, <2>1, <2>2 DEF Symbols
<1>8. LeadingWords(s) = LeadingWords(t)  BY <1>3, <1>4, <1>5, <1>6, <1>7, SameLeadingWords
<1> QED  BY <1>3, <1>8 DEF s, t

\* No symbol is among the leading words.
LEMMA AmongWords ==
    ASSUME NEW s \in Seq(Words \cup Symbols), NEW X \in SUBSET Symbols
    PROVE  Among(s, X, Len(LeadingWords(s))) = {}
<1>1. PICK m \in 0..Len(s) : /\ \A i \in 1..m : s[i] \in Words
                             /\ Len(LeadingWords(s)) = m
  BY LeadingWordsProperties
<1>2. Words \cap Symbols = {} /\ Len(s) \in Nat /\ DOMAIN s = 1..Len(s)
  BY ParserAssumption, LenProperties
<1>3. \A i \in 1..Len(s) : i <= m => i \in 1..m  BY <1>2
<1> QED  BY <1>1, <1>2, <1>3 DEF Among, Places

\* A symbol and a word are taken together.
LEMMA AmongNext ==
    ASSUME NEW s \in Seq(Words \cup Symbols), NEW X \in SUBSET Symbols, NEW u \in Nat,
           u + 2 <= Len(s), s[u + 2] \in Words
    PROVE  Among(s, X, u + 2) = IF s[u + 1] \in X THEN Among(s, X, u) \cup {u + 1}
                                                  ELSE Among(s, X, u)
<1>1. Words \cap Symbols = {} /\ Len(s) \in Nat /\ DOMAIN s = 1..Len(s)
  BY ParserAssumption, LenProperties
<1>2. s[u + 2] \notin X /\ u + 1 \in 1..Len(s)  BY <1>1
<1>3. \A i \in 1..Len(s) : i <= u + 2 <=> i <= u \/ i = u + 1 \/ i = u + 2  BY <1>1
<1>4. ~(u + 1 <= u) /\ u + 1 <= u + 2  OBVIOUS
<1> QED  BY <1>1, <1>2, <1>3, <1>4 DEF Among, Places

\* All tokens of a segment, taken together.
LEMMA AmongAll ==
    ASSUME NEW s \in Seq(Words \cup Symbols), NEW X
    PROVE  Among(s, X, Len(s)) = Places(s, X)
<1>1. Len(s) \in Nat /\ DOMAIN s = 1..Len(s)  BY LenProperties
<1> QED  BY <1>1 DEF Among, Places

\* A redirection and its file keep the tokens taken in pairs.
LEMMA PairedNext ==
    ASSUME NEW s \in Seq(Words \cup Symbols), NEW u, Paired(s, u), u + 2 <= Len(s),
           s[u + 1] \in Redirections, s[u + 2] \in Words
    PROVE  Paired(s, u + 2)
<1>1. PICK w \in 0..Len(s) : w = Len(LeadingWords(s))  BY LeadingWordsProperties
<1>2. Len(s) \in Nat /\ w \in Nat /\ u \in Nat /\ u \in w..Len(s) /\ (u - w) % 2 = 0
  <2>1. Len(s) \in Nat  BY LenProperties
  <2>2. u \in w..Len(s) /\ (u - w) % 2 = 0  BY <1>1 DEF Paired
  <2> QED  BY <2>1, <2>2
<1>3. \A i \in (w + 1)..u : s[i] \in (IF (i - w) % 2 = 1 THEN Redirections ELSE Words)
  BY <1>1 DEF Paired
<1>4. /\ u + 2 \in w..Len(s) /\ ((u + 2) - w) % 2 = 0 /\ ((u + 1) - w) % 2 = 1
      /\ \A i \in (w + 1)..(u + 2) : i \in (w + 1)..u \/ i = u + 1 \/ i = u + 2
  BY <1>2
<1>5. ASSUME NEW i \in (w + 1)..(u + 2)
      PROVE  s[i] \in (IF (i - w) % 2 = 1 THEN Redirections ELSE Words)
  <2>1. CASE i \in (w + 1)..u  BY <1>3, <2>1
  <2>2. CASE i = u + 1  BY <1>4, <2>2
  <2>3. CASE i = u + 2  BY <1>4, <2>3
  <2> QED  BY <1>4, <2>1, <2>2, <2>3
<1> QED  BY <1>1, <1>4, <1>5 DEF Paired

\* A command has the fields of CommandOf and no others.
HasFields(r, a, i, f, o, g, q) ==
    r \in [argv : {a}, input : {i}, inFile : {f}, output : {o}, outFile : {g}, run : {q}]

LEMMA OnlyCommand ==
    ASSUME NEW a, NEW i, NEW f, NEW o, NEW g, NEW q, NEW r
    PROVE  HasFields(r, a, i, f, o, g, q) <=> r = CommandOf(a, i, f, o, g, q)
  BY DEF CommandOf, HasFields

\* The file that the only redirection names.
LEMMA FileOfOne ==
    ASSUME NEW s, NEW u PROVE FileOf(s, {u}) = s[u + 1]
<1>1. (CHOOSE i \in {u} : TRUE) = u /\ {u} # {}  OBVIOUS
<1> QED  BY <1>1 DEF FileOf

\* In particular a redirection and its file.
LEMMA AmongRedirections ==
    ASSUME NEW s \in Seq(Words \cup Symbols), NEW u \in Nat,
           u + 2 <= Len(s), s[u + 2] \in Words
    PROVE  \A X \in {{"<"}, {">"}, {">>"}, {">", ">>"}} :
              Among(s, X, u + 2) = IF s[u + 1] \in X THEN Among(s, X, u) \cup {u + 1}
                                                     ELSE Among(s, X, u)
<1>1. \A X \in {{"<"}, {">"}, {">>"}, {">", ">>"}} : X \in SUBSET Symbols
  BY DEF Symbols, Redirections
<1> QED  BY <1>1, AmongNext

\* The command as initCommand leaves it.
LEMMA Started ==
    ASSUME NEW l, NEW before, NEW k, NEW s \in Seq(Words \cup Symbols), s = Segment(l, k),
           FromPipe(l, before, k) => LeadingWords(s) # <<>>
    PROVE  /\ Paired(s, Len(LeadingWords(s)))
           /\ Clear(l, before, k, Len(LeadingWords(s)))
           /\ PartMeant(l, before, k, Len(LeadingWords(s)))
                 = CommandOf(LeadingWords(s), IF FromPipe(l, before, k) THEN "pipe" ELSE "stdin",
                             NoToken, "stdout", NoToken, NoToken)
<1> DEFINE w == Len(LeadingWords(s))
<1>1. w \in 0..Len(s) /\ Len(s) \in Nat  BY LeadingWordsProperties, LenProperties
<1>2. Paired(s, w)
  <2>1. w \in w..Len(s) /\ (w - w) % 2 = 0 /\ \A i \in (w + 1)..w : FALSE  BY <1>1
  <2> QED  BY <2>1 DEF Paired
<1>3. /\ Among(s, {"<"}, w) = {} /\ Among(s, {">"}, w) = {} /\ Among(s, {">>"}, w) = {}
      /\ Among(s, {">", ">>"}, w) = {}
  BY AmongWords DEF Symbols, Redirections
<1> HIDE DEF w
<1>4. Clear(l, before, k, w)  BY <1>3 DEF Clear
<1>5. PICK input : input = IF FromPipe(l, before, k) THEN "pipe" ELSE "stdin"  OBVIOUS
<1>6. /\ InputMeant(l, before, k, w) = input /\ OutputMeant(s, w) = "stdout"
      /\ FileOf(s, {}) = NoToken
  BY <1>3, <1>5 DEF InputMeant, OutputMeant, FileOf
<1>7. PartMeant(l, before, k, w)
         = CommandOf(LeadingWords(s), input, NoToken, "stdout", NoToken, NoToken)
  BY <1>3, <1>6 DEF PartMeant
<1> QED  BY <1>2, <1>4, <1>5, <1>7 DEF w

\* The command after an input redirection, and after an output redirection.
LEMMA InputTaken ==
    ASSUME NEW l, NEW before, NEW k, NEW s \in Seq(Words \cup Symbols), s = Segment(l, k),
           NEW u \in Nat, u + 2 <= Len(s), s[u + 1] = "<", s[u + 2] \in Words,
           Clear(l, before, k, u), PartMeant(l, before, k, u).input = "stdin"
    PROVE  /\ Clear(l, before, k, u + 2)
           /\ \E a, i, f, o, g :
                 /\ PartMeant(l, before, k, u) = CommandOf(a, i, f, o, g, NoToken)
                 /\ PartMeant(l, before, k, u + 2)
                       = CommandOf(a, "file", s[u + 2], o, g, NoToken)
<1>1. ~FromPipe(l, before, k) /\ Among(s, {"<"}, u) = {}
  BY DEF PartMeant, CommandOf, InputMeant
<1>2. /\ Among(s, {"<"}, u + 2) = {u + 1}
      /\ Among(s, {">"}, u + 2) = Among(s, {">"}, u)
      /\ Among(s, {">>"}, u + 2) = Among(s, {">>"}, u)
      /\ Among(s, {">", ">>"}, u + 2) = Among(s, {">", ">>"}, u)
  BY <1>1, AmongRedirections
<1>3. FileOf(s, {u + 1}) = s[u + 2]
  <2>1. u + 1 + 1 = u + 2  OBVIOUS
  <2> QED  BY <2>1, FileOfOne
<1>4. Clear(l, before, k, u + 2)  BY <1>1, <1>2 DEF Clear
<1>5. PICK i, f, o, g : /\ i = InputMeant(l, before, k, u) /\ f = FileOf(s, Among(s, {"<"}, u))
                        /\ o = OutputMeant(s, u) /\ g = FileOf(s, Among(s, {">", ">>"}, u))
  OBVIOUS
<1>6. PartMeant(l, before, k, u) = CommandOf(LeadingWords(s), i, f, o, g, NoToken)
  BY <1>5 DEF PartMeant
<1>7. InputMeant(l, before, k, u + 2) = "file" /\ OutputMeant(s, u + 2) = o
  BY <1>1, <1>2, <1>5 DEF InputMeant, OutputMeant
<1>8. PartMeant(l, before, k, u + 2)
         = CommandOf(LeadingWords(s), "file", s[u + 2], o, g, NoToken)
  BY <1>2, <1>3, <1>5, <1>7 DEF PartMeant
<1> QED  BY <1>4, <1>6, <1>8

LEMMA OutputTaken ==
    ASSUME NEW l, NEW before, NEW k, NEW s \in Seq(Words \cup Symbols), s = Segment(l, k),
           NEW u \in Nat, u + 2 <= Len(s), s[u + 1] \in {">", ">>"}, s[u + 2] \in Words,
           Clear(l, before, k, u), PartMeant(l, before, k, u).output = "stdout",
           NEW mode, mode = IF s[u + 1] = ">" THEN "new" ELSE "append"
    PROVE  /\ Clear(l, before, k, u + 2)
           /\ \E a, i, f, o, g :
                 /\ PartMeant(l, before, k, u) = CommandOf(a, i, f, o, g, NoToken)
                 /\ PartMeant(l, before, k, u + 2)
                       = CommandOf(a, i, f, mode, s[u + 2], NoToken)
<1>1. Among(s, {">"}, u) = {} /\ Among(s, {">>"}, u) = {}
  BY DEF PartMeant, CommandOf, OutputMeant
<1>2. Among(s, {">", ">>"}, u) = {}  BY <1>1 DEF Among, Places
<1>3. /\ Among(s, {"<"}, u + 2) = Among(s, {"<"}, u)
      /\ Among(s, {">"}, u + 2) = IF s[u + 1] = ">" THEN {u + 1} ELSE {}
      /\ Among(s, {">>"}, u + 2) = IF s[u + 1] = ">>" THEN {u + 1} ELSE {}
      /\ Among(s, {">", ">>"}, u + 2) = {u + 1}
  BY <1>1, <1>2, AmongRedirections
<1>4. FileOf(s, {u + 1}) = s[u + 2]
  <2>1. u + 1 + 1 = u + 2  OBVIOUS
  <2> QED  BY <2>1, FileOfOne
<1>5. Clear(l, before, k, u + 2)  BY <1>3 DEF Clear
<1>6. PICK i, f, o, g : /\ i = InputMeant(l, before, k, u) /\ f = FileOf(s, Among(s, {"<"}, u))
                        /\ o = OutputMeant(s, u) /\ g = FileOf(s, Among(s, {">", ">>"}, u))
  OBVIOUS
<1>7. PartMeant(l, before, k, u) = CommandOf(LeadingWords(s), i, f, o, g, NoToken)
  BY <1>6 DEF PartMeant
<1>8. InputMeant(l, before, k, u + 2) = i /\ OutputMeant(s, u + 2) = mode
  BY <1>3, <1>6 DEF InputMeant, OutputMeant
<1>9. PartMeant(l, before, k, u + 2)
          = CommandOf(LeadingWords(s), i, f, mode, s[u + 2], NoToken)
  BY <1>3, <1>4, <1>6, <1>8 DEF PartMeant
<1> QED  BY <1>5, <1>7, <1>9

\* What makes getCommandList reject a command.
LEMMA SecondInput ==
    ASSUME NEW l, NEW before, NEW k, NEW s \in Seq(Words \cup Symbols), s = Segment(l, k),
           NEW u \in Nat, u + 1 <= Len(s), s[u + 1] = "<",
           PartMeant(l, before, k, u).input # "stdin"
    PROVE  ~Accepted(l, before, k)
<1>1. FromPipe(l, before, k) \/ Among(s, {"<"}, u) # {}
  BY DEF PartMeant, CommandOf, InputMeant
<1>2. Len(s) \in Nat /\ DOMAIN s = 1..Len(s)  BY LenProperties
<1>3. u + 1 \in Among(s, {"<"}, Len(s))  BY <1>2 DEF Among, Places
<1>4. CASE FromPipe(l, before, k)  BY <1>3, <1>4 DEF Accepted, Clear
<1>5. ASSUME NEW i \in Among(s, {"<"}, u) PROVE ~Accepted(l, before, k)
  <2>1. i \in Among(s, {"<"}, Len(s)) /\ i # u + 1  BY <1>2 DEF Among, Places
  <2> QED  BY <1>3, <2>1 DEF Accepted, Clear
<1> QED  BY <1>1, <1>4, <1>5

LEMMA SecondOutput ==
    ASSUME NEW l, NEW before, NEW k, NEW s \in Seq(Words \cup Symbols), s = Segment(l, k),
           NEW u \in Nat, u <= Len(s),
           \/ u + 1 <= Len(s) /\ s[u + 1] \in {">", ">>"}
           \/ PipedOut(l, k),
           PartMeant(l, before, k, u).output # "stdout"
    PROVE  ~Accepted(l, before, k)
<1>1. Among(s, {">"}, u) # {} \/ Among(s, {">>"}, u) # {}
  BY DEF PartMeant, CommandOf, OutputMeant
<1>2. Len(s) \in Nat /\ DOMAIN s = 1..Len(s)  BY LenProperties
<1>3. PICK i \in Among(s, {">", ">>"}, u) : TRUE  BY <1>1 DEF Among, Places
<1>4. i \in Among(s, {">", ">>"}, Len(s)) /\ i <= u /\ i \in Nat  BY <1>2 DEF Among, Places
<1>5. CASE u + 1 <= Len(s) /\ s[u + 1] \in {">", ">>"}
  <2>1. u + 1 \in Among(s, {">", ">>"}, Len(s)) /\ i # u + 1
    BY <1>2, <1>4, <1>5 DEF Among, Places
  <2> QED  BY <1>4, <2>1 DEF Accepted, Clear
<1>6. CASE PipedOut(l, k)  BY <1>4, <1>6 DEF Accepted
<1> QED  BY <1>5, <1>6

\* A command whose segment has been taken, before a connector or the end of the line.
LEMMA Completed ==
    ASSUME NEW l, NEW before, NEW k, NEW s, s = Segment(l, k),
           Clear(l, before, k, Len(s)),
           PipedOut(l, k) => PartMeant(l, before, k, Len(s)).output = "stdout"
    PROVE  /\ Accepted(l, before, k)
           /\ \E a, i, f, o, g :
                 /\ PartMeant(l, before, k, Len(s)) = CommandOf(a, i, f, o, g, NoToken)
                 /\ Expected(l, before, k)
                       = CommandOf(a, i, f, IF PipedOut(l, k) THEN "pipe" ELSE o, g,
                                   ConnectorAfter(l, k))
<1>1. PartMeant(l, before, k, Len(s)).output = "stdout"
         => Among(s, {">", ">>"}, Len(s)) = {}
  <2>1. PartMeant(l, before, k, Len(s)).output = "stdout"
           => Among(s, {">"}, Len(s)) = {} /\ Among(s, {">>"}, Len(s)) = {}
    BY DEF PartMeant, CommandOf, OutputMeant
  <2> QED  BY <2>1 DEF Among, Places
<1>2. Accepted(l, before, k)  BY <1>1 DEF Accepted
<1> QED  BY <1>2 DEF PartMeant, Expected

-----------------------------------------------------------------------------
(* The parser keeps to what the line means.                                *)

\* A word first, a file name after each redirection, something after the last pipe,
\* and no more commands than the parser takes.
Regular(l) ==
    /\ NamesFiles(l) /\ l[1] \in Words /\ l[Len(l)] # "|"
    /\ SegmentCount(l) <= MaxCommands

ParsedSoFar ==
    LET m == Len(commands)
    IN /\ m <= SegmentCount(line) /\ rounds = m /\ status = "success"
       /\ \A k \in 1..m : /\ commands[k] = Expected(line, carried, k)
                          /\ Accepted(line, carried, k)
       /\ prevOutput = IF m = 0 THEN carried ELSE commands[m].output

\* Between two commands.
AtSegment ==
    LET m == Len(commands)
    IN tokenIndex = IF m < SegmentCount(line) THEN Cut(line, m + 1) ELSE Len(line)

\* Among the redirections of the next command.
InSegment ==
    LET k == Len(commands) + 1
        u == tokenIndex - Cut(line, k)
    IN /\ k <= SegmentCount(line) /\ tokenIndex < Len(line)
       /\ Paired(Segment(line, k), u) /\ Clear(line, carried, k, u)
       /\ command = PartMeant(line, carried, k, u)

Parsing ==
    /\ phase \in {"list", "symbols"} /\ ParsedSoFar
    /\ phase = "list" => AtSegment
    /\ phase = "symbols" => InSegment

\* All commands of the line, or none because one of them is not acceptable.
Outcome ==
    LET n == SegmentCount(line)
    IN IF status = "success"
       THEN /\ Len(commands) = n
            /\ \A k \in 1..n : /\ commands[k] = Expected(line, carried, k)
                               /\ Accepted(line, carried, k)
       ELSE commands = <<>> /\ \E k \in 1..n : ~Accepted(line, carried, k)

\* The commands of such a line are the segments that begin before its last token.
LEMMA RegularFacts ==
    ASSUME NEW l \in Seq(Words \cup Symbols), Regular(l)
    PROVE  /\ l # <<>> /\ Len(l) \in Nat \ {0} /\ Cuts(l) \in Nat
           /\ SegmentCount(l) \in Nat \ {0} /\ SegmentCount(l) <= MaxCommands
           /\ \A k \in 1..SegmentCount(l) :
                 /\ k \in 1..(Cuts(l) - 1)
                 /\ Cut(l, k) < Len(l)
                 /\ k < SegmentCount(l) <=> Cut(l, k + 1) < Len(l)
<1>1. l # <<>> /\ l[Len(l)] # "|" /\ SegmentCount(l) <= MaxCommands
  BY DEF Regular, NamesFiles
<1>2. Len(l) \in Nat /\ Len(l) # 0  BY <1>1, LenProperties, EmptySeq
<1>3. /\ SegmentCount(l) \in Nat \ {0} /\ SegmentCount(l) < Cuts(l) /\ Cuts(l) \in Nat
      /\ \A k \in 1..SegmentCount(l) :
            Cut(l, k) < Len(l) /\ (k < SegmentCount(l) <=> Cut(l, k + 1) < Len(l))
  BY <1>1, CountFacts, CutFacts
<1>4. \A k \in 1..SegmentCount(l) : k \in 1..(Cuts(l) - 1)  BY <1>3
<1> QED  BY <1>1, <1>2, <1>3, <1>4

\* The next command, and where it is.
LEMMA NextSegment ==
    ASSUME ParserData, Regular(line), ParsedSoFar, Len(commands) < SegmentCount(line)
    PROVE  \E k \in 1..SegmentCount(line), c, e \in Nat :
              /\ k = Len(commands) + 1 /\ Len(commands) \in Nat
              /\ SegmentAt(line, k, c, e) /\ c < Len(line) /\ Len(line) \in Nat
              /\ k < SegmentCount(line) <=> e < Len(line)
              /\ LeadingWords(SubSeq(line, c + 1, Len(line))) = LeadingWords(Segment(line, k))
<1>1. line \in Seq(Words \cup Symbols) /\ Len(commands) \in Nat
  BY LenProperties DEF ParserData
<1>2. PICK k \in 1..SegmentCount(line) : k = Len(commands) + 1
  BY <1>1, RegularFacts
<1>3. /\ k \in 1..(Cuts(line) - 1) /\ Cut(line, k) < Len(line) /\ Len(line) \in Nat
      /\ k < SegmentCount(line) <=> Cut(line, k + 1) < Len(line)
  BY <1>1, RegularFacts
<1>4. PICK c, e \in Nat : SegmentAt(line, k, c, e)  BY <1>1, <1>3, SegmentFacts
<1>5. c = Cut(line, k) /\ e = Cut(line, k + 1)  BY <1>4 DEF SegmentAt
<1>6. LeadingWords(SubSeq(line, c + 1, Len(line))) = LeadingWords(Segment(line, k))
  BY <1>1, <1>3, <1>5, ArgvOfSegment
<1> QED  BY <1>1, <1>2, <1>3, <1>4, <1>5, <1>6

\* initCommand sees a pipe exactly if one leads into the command.
LEMMA PipeSeen ==
    ASSUME ParserData, ParsedSoFar, NEW k, k = Len(commands) + 1
    PROVE  prevOutput = "pipe" <=> FromPipe(line, carried, k)
<1>1. Len(commands) \in Nat  BY LenProperties DEF ParserData
<1>2. CASE Len(commands) = 0
  <2>1. prevOutput = carried /\ k = 1  BY <1>2 DEF ParsedSoFar
  <2> QED  BY <2>1 DEF FromPipe, PipedInto
<1>3. CASE Len(commands) # 0
  <2>1. PICK m \in Nat \ {0} : m = Len(commands) /\ k = m + 1 /\ m \in 1..m /\ k - 1 = m /\ k > 1
    BY <1>1, <1>3
  <2>2. prevOutput = commands[m].output /\ commands[m] = Expected(line, carried, m)
    BY <1>3, <2>1 DEF ParsedSoFar
  <2>3. prevOutput = "pipe" <=> PipedOut(line, m)
    BY <2>2 DEF Expected, CommandOf, OutputMeant
  <2> QED  BY <2>1, <2>3 DEF FromPipe, PipedInto, PipedOut
<1> QED  BY <1>2, <1>3

\* One more command.
LEMMA AppendParsed ==
    ASSUME ParserData, Regular(line), ParsedSoFar, Len(commands) < SegmentCount(line),
           NEW cmd \in CommandType, NEW k, k = Len(commands) + 1,
           cmd = Expected(line, carried, k), Accepted(line, carried, k),
           AppendCommand(cmd),
           tokenIndex' = IF k < SegmentCount(line) THEN Cut(line, k + 1) ELSE Len(line)
    PROVE  Parsing'
<1>1. /\ commands' = Append(commands, cmd) /\ prevOutput' = cmd.output
      /\ rounds' = rounds + 1 /\ phase' = "list"
      /\ line' = line /\ status' = status /\ carried' = carried
  BY DEF AppendCommand
<1>2. PICK m \in Nat : m = Len(commands) /\ k = m + 1 /\ k \in Nat
  BY LenProperties DEF ParserData
<1>3. /\ Len(commands') = k /\ commands'[k] = cmd
      /\ \A j \in 1..m : commands'[j] = commands[j]
  BY <1>1, <1>2, AppendProperties DEF ParserData
<1>4. SegmentCount(line) \in Nat /\ k <= SegmentCount(line) /\ k # 0
  BY <1>2, RegularFacts DEF ParserData
<1>5. \A j \in 1..k : commands'[j] = Expected(line, carried, j) /\ Accepted(line, carried, j)
  <2> SUFFICES ASSUME NEW j \in 1..k
               PROVE  commands'[j] = Expected(line, carried, j) /\ Accepted(line, carried, j)
    OBVIOUS
  <2>1. CASE j = k  BY <1>3, <2>1
  <2>2. CASE j # k
    <3>1. j \in 1..m  BY <1>2, <2>2
    <3> QED  BY <1>2, <1>3, <3>1 DEF ParsedSoFar
  <2> QED  BY <2>1, <2>2
<1>6. rounds' = k /\ status' = "success"  BY <1>1, <1>2 DEF ParsedSoFar
<1>7. ParsedSoFar'  BY <1>1, <1>3, <1>4, <1>5, <1>6 DEF ParsedSoFar
<1>8. AtSegment'  BY <1>1, <1>3 DEF AtSegment
<1> QED  BY <1>1, <1>7, <1>8 DEF Parsing

\* Part of one more command.
LEMMA ContinueParsed ==
    ASSUME ParserData, Regular(line), ParsedSoFar, Len(commands) < SegmentCount(line),
           NEW cmd \in CommandType, NEW taken \in Nat, NEW u \in Nat,
           NEW k, k = Len(commands) + 1,
           tokenIndex + taken = Cut(line, k) + u,
           Paired(Segment(line, k), u), Clear(line, carried, k, u),
           cmd = PartMeant(line, carried, k, u),
           Continue(cmd, taken)
    PROVE  Parsing'
<1>1. PICK kk \in 1..SegmentCount(line), c, e \in Nat :
              /\ kk = k /\ SegmentAt(line, k, c, e) /\ c < Len(line) /\ Len(line) \in Nat
              /\ k < SegmentCount(line) <=> e < Len(line)
  BY NextSegment
<1> DEFINE s == Segment(line, k)
<1>2. /\ c = Cut(line, k) /\ e = Cut(line, k + 1) /\ e <= Len(line) + 1
      /\ s \in Seq(Words \cup Symbols) /\ Len(s) = e - c - 1
      /\ ConnectorAfter(line, k) = IF e <= Len(line) THEN line[e] ELSE NoToken
  BY <1>1 DEF SegmentAt
<1>3. u <= Len(s)
  <2>1. u \in Len(LeadingWords(s))..Len(s)  BY DEF Paired
  <2>2. Len(LeadingWords(s)) \in Int /\ Len(s) \in Int
    BY <1>2, LeadingWordsProperties, LenProperties
  <2> QED  BY <2>1, <2>2
<1>4. tokenIndex \in Nat /\ tokenIndex' = tokenIndex + taken /\ tokenIndex' = c + u
      /\ tokenIndex' <= Len(line)
  <2>1. tokenIndex \in Nat /\ tokenIndex' = tokenIndex + taken
    BY <1>1 DEF ParserData, Continue
  <2>2. tokenIndex' = c + u  BY <1>2, <2>1
  <2>3. PICK len \in Nat : len = Len(line)  BY <1>1
  <2>4. u <= e - c - 1 /\ e <= len + 1  BY <1>2, <1>3, <2>3
  <2>5. c + u <= len  BY <2>4
  <2> QED  BY <2>1, <2>2, <2>3, <2>5
<1>5. CASE tokenIndex + taken = Len(line)
  <2>1. AppendCommand(cmd)  BY <1>5 DEF Continue
  <2>2. u = e - c - 1 /\ e = Len(line) + 1
    <3>1. PICK len \in Nat : len = Len(line)  BY <1>1
    <3>2. c + u = len  BY <1>4, <1>5, <3>1
    <3>3. u <= e - c - 1  BY <1>2, <1>3
    <3>4. e <= len + 1  BY <1>2, <3>1
    <3>5. e = len + 1  BY <3>2, <3>3, <3>4
    <3> QED  BY <3>1, <3>2, <3>5
  <2>3. u = Len(s)  BY <1>2, <2>2
  <2>4. ConnectorAfter(line, k) = NoToken /\ ~(k < SegmentCount(line))  BY <1>1, <1>2, <2>2
  <2>5. ~PipedOut(line, k)
    BY <2>4, ParserAssumption DEF PipedOut, Symbols, Connectors
  <2>6. Accepted(line, carried, k) /\ cmd = Expected(line, carried, k)
    BY <2>3, <2>4, <2>5, Completed
  <2>7. tokenIndex' = IF k < SegmentCount(line) THEN Cut(line, k + 1) ELSE Len(line)
    BY <1>4, <1>5, <2>4
  <2> QED  BY <2>1, <2>6, <2>7, AppendParsed
<1>6. CASE tokenIndex + taken # Len(line)
  <2>1. /\ phase' = "symbols" /\ command' = cmd
        /\ UNCHANGED <<line, commands, rounds, status, prevOutput, carried>>
    BY <1>6 DEF Continue
  <2>2. ParsedSoFar'  BY <2>1 DEF ParsedSoFar
  <2>3. tokenIndex' < Len(line) /\ tokenIndex' - c = u  BY <1>1, <1>4, <1>6
  <2>4. k <= SegmentCount(line)
    BY <1>1, RegularFacts DEF ParserData
  <2>5. InSegment'  BY <1>2, <2>1, <2>3, <2>4 DEF InSegment
  <2> QED  BY <2>1, <2>2, <2>5 DEF Parsing
<1> QED  BY <1>5, <1>6

\* The first command is not blank.
LEMMA FirstWords ==
    ASSUME NEW l \in Seq(Words \cup Symbols), Regular(l)
    PROVE  LeadingWords(Segment(l, 1)) # <<>>
<1>1. /\ Len(l) \in Nat \ {0} /\ 1 \in 1..(Cuts(l) - 1) /\ l[1] \in Words
  <2>1. 1 \in 1..SegmentCount(l)  BY RegularFacts
  <2> QED  BY <2>1, RegularFacts DEF Regular
<1>2. PICK c, e \in Nat : SegmentAt(l, 1, c, e)  BY <1>1, SegmentFacts
<1>3. c = 0  BY <1>2, CutFacts DEF SegmentAt
<1>4. l[1] \notin Connectors  BY <1>1, ParserAssumption DEF Symbols
<1>5. e >= 2
  <2>1. c < e /\ (e <= Len(l) => l[e] \in Connectors)  BY <1>2 DEF SegmentAt
  <2>2. e # 1  BY <1>1, <1>4, <2>1
  <2> QED  BY <1>3, <2>1, <2>2
<1> DEFINE s == Segment(l, 1)
<1>6. s \in Seq(Words \cup Symbols) /\ Len(s) = e - 1 /\ s[1] = l[1]
  <2>1. /\ s \in Seq(Words \cup Symbols) /\ Len(s) = e - c - 1
        /\ \A i \in 1..(e - c - 1) : s[i] = l[c + i]
    BY <1>2 DEF SegmentAt
  <2>2. 1 \in 1..(e - c - 1) /\ c + 1 = 1 /\ e - c - 1 = e - 1  BY <1>3, <1>5
  <2> QED  BY <2>1, <2>2
<1> HIDE DEF s
<1>7. PICK n \in 0..Len(s) : /\ n < Len(s) => s[n + 1] \in Symbols
                             /\ Len(LeadingWords(s)) = n
  BY <1>6, LeadingWordsProperties
<1>8. n # 0
  <2> SUFFICES ASSUME n = 0 PROVE FALSE  OBVIOUS
  <2>1. n < Len(s) /\ n + 1 = 1  BY <1>5, <1>6
  <2> QED  BY <1>1, <1>6, <1>7, <2>1, ParserAssumption
<1>9. LeadingWords(s) # <<>>  BY <1>7, <1>8, EmptySeq
<1> QED  BY <1>9 DEF s

\* A round that may take a command finds one.
LEMMA RoundTakes ==
    ASSUME ParserData, Regular(line), Parsing, NextRound
    PROVE  /\ phase = "list" /\ ParsedSoFar /\ Len(commands) < SegmentCount(line)
           /\ tokenIndex = Cut(line, Len(commands) + 1)
           /\ Argv = LeadingWords(Segment(line, Len(commands) + 1))
<1>1. phase = "list" /\ ParsedSoFar /\ AtSegment /\ tokenIndex # Len(line)
  BY DEF Parsing, NextRound, EndOfLine
<1>2. Len(commands) < SegmentCount(line) /\ tokenIndex = Cut(line, Len(commands) + 1)
  BY <1>1 DEF AtSegment
<1>3. PICK k \in 1..SegmentCount(line), c, e \in Nat :
              /\ k = Len(commands) + 1 /\ SegmentAt(line, k, c, e)
              /\ LeadingWords(SubSeq(line, c + 1, Len(line))) = LeadingWords(Segment(line, k))
  BY <1>1, <1>2, NextSegment
<1>4. c = tokenIndex  BY <1>2, <1>3 DEF SegmentAt
<1> QED  BY <1>1, <1>2, <1>3, <1>4 DEF Argv

\* initCommand and initArgv.
LEMMA StartParsed ==
    ASSUME ParserData, Regular(line), Parsing, StartCommand
    PROVE  Parsing'
<1>1. /\ NextRound /\ Continue(FreshCommand, Len(Argv))
      /\ Argv # <<>> \/ prevOutput \notin {NoToken, "pipe"}
  BY DEF StartCommand
<1>2. PICK k \in 1..SegmentCount(line), c, e \in Nat :
              k = Len(commands) + 1 /\ SegmentAt(line, k, c, e)
  BY <1>1, RoundTakes, NextSegment
<1>3. PICK s \in Seq(Words \cup Symbols) : s = Segment(line, k)  BY <1>2 DEF SegmentAt
<1>4. /\ ParsedSoFar /\ Len(commands) < SegmentCount(line)
      /\ tokenIndex = Cut(line, k) /\ Argv = LeadingWords(s)
  BY <1>1, <1>2, <1>3, RoundTakes
<1>5. prevOutput = "pipe" <=> FromPipe(line, carried, k)  BY <1>2, <1>4, PipeSeen
<1>6. PICK input : input = IF prevOutput = "pipe" THEN "pipe" ELSE "stdin"  OBVIOUS
<1>7. FreshCommand = CommandOf(Argv, input, NoToken, "stdout", NoToken, NoToken)
  <2>1. HasFields(NewCommand, <<>>, "stdin", NoToken, "stdout", NoToken, NoToken)
    BY DEF HasFields, NewCommand
  <2>2. FreshCommand = [NewCommand EXCEPT !.argv = Argv, !.input = input]
    BY <1>6 DEF FreshCommand
  <2>3. HasFields(FreshCommand, Argv, input, NoToken, "stdout", NoToken, NoToken)
    BY <2>1, <2>2 DEF HasFields
  <2> QED  BY <2>3, OnlyCommand
<1>8. FromPipe(line, carried, k) => LeadingWords(s) # <<>>  BY <1>1, <1>4, <1>5
<1> DEFINE u == Len(LeadingWords(s))
<1>9. /\ Paired(s, u) /\ Clear(line, carried, k, u)
      /\ PartMeant(line, carried, k, u)
            = CommandOf(LeadingWords(s),
                        IF FromPipe(line, carried, k) THEN "pipe" ELSE "stdin",
                        NoToken, "stdout", NoToken, NoToken)
  BY <1>3, <1>8, Started
<1>10. FreshCommand = PartMeant(line, carried, k, u)  BY <1>4, <1>5, <1>6, <1>7, <1>9
<1>11. u \in Nat /\ u = Len(Argv) /\ FreshCommand \in CommandType  BY <1>4, ArgvData
<1>12. tokenIndex + Len(Argv) = Cut(line, k) + u  BY <1>4, <1>11
<1> HIDE DEF u
<1> QED
  BY <1>1, <1>2, <1>3, <1>4, <1>9, <1>10, <1>11, <1>12, ContinueParsed

\* A command is left over as blank only on a line that starts with a symbol.
LEMMA NothingSkipped ==
    ASSUME ParserData, Regular(line), Parsing, SkipBlank
    PROVE  FALSE
<1>1. NextRound /\ Argv = <<>> /\ prevOutput = NoToken  BY DEF SkipBlank
<1>2. /\ ParsedSoFar /\ Len(commands) < SegmentCount(line) /\ Len(commands) \in Nat
      /\ Argv = LeadingWords(Segment(line, Len(commands) + 1))
  BY <1>1, RoundTakes, LenProperties DEF ParserData
<1>3. CASE Len(commands) = 0
  <2>1. Len(commands) + 1 = 1  BY <1>3
  <2> QED  BY <1>1, <1>2, <2>1, FirstWords DEF ParserData
<1>4. CASE Len(commands) # 0
  <2>1. PICK m \in 1..Len(commands) : m = Len(commands)  BY <1>2, <1>4
  <2>2. prevOutput = commands[m].output /\ commands[m] \in CommandType
    BY <1>2, <1>4, <2>1, ElementOfSeq DEF ParsedSoFar, ParserData
  <2> QED  BY <1>1, <2>2, ParserAssumption DEF CommandType
<1> QED  BY <1>3, <1>4

\* Rejecting a command that is not acceptable.
LEMMA RejectOutcome ==
    ASSUME Reject, NEW k \in 1..SegmentCount(line), ~Accepted(line, carried, k)
    PROVE  phase' = "done" /\ Outcome'
<1>1. /\ commands' = <<>> /\ status' = "fail" /\ phase' = "done"
      /\ line' = line /\ carried' = carried
  BY DEF Reject
<1> QED  BY <1>1 DEF Outcome

\* Nothing between a pipe and the next symbol.
LEMMA BlankRejected ==
    ASSUME ParserData, Regular(line), Parsing, RejectBlank
    PROVE  phase' = "done" /\ Outcome'
<1>1. NextRound /\ Argv = <<>> /\ prevOutput = "pipe" /\ Reject  BY DEF RejectBlank
<1>2. /\ ParsedSoFar /\ Len(commands) < SegmentCount(line)
      /\ Argv = LeadingWords(Segment(line, Len(commands) + 1))
  BY <1>1, RoundTakes
<1>3. PICK k \in 1..SegmentCount(line) : k = Len(commands) + 1  BY <1>2, NextSegment
<1>4. FromPipe(line, carried, k)  BY <1>1, <1>2, <1>3, PipeSeen
<1>5. ~Accepted(line, carried, k)  BY <1>1, <1>2, <1>3, <1>4 DEF Accepted, Clear
<1> QED  BY <1>1, <1>5, RejectOutcome

\* The loop ends when all commands have been taken.
LEMMA ListReturned ==
    ASSUME ParserData, Regular(line), Parsing, ReturnList
    PROVE  phase' = "done" /\ Outcome'
<1>1. /\ phase = "list" /\ ~NextRound /\ phase' = "done"
      /\ line' = line /\ commands' = commands /\ status' = status /\ carried' = carried
  BY DEF ReturnList
<1>2. ParsedSoFar /\ AtSegment  BY <1>1 DEF Parsing
<1>3. ~(Len(commands) < SegmentCount(line))
  <2> SUFFICES ASSUME Len(commands) < SegmentCount(line) PROVE FALSE  OBVIOUS
  <2>1. PICK c \in Nat : tokenIndex = c /\ c < Len(line)
    BY <1>2, NextSegment DEF AtSegment, SegmentAt
  <2>2. rounds < MaxCommands
    <3>1. /\ rounds = Len(commands) /\ Len(commands) \in Nat /\ SegmentCount(line) \in Nat
          /\ SegmentCount(line) <= MaxCommands /\ MaxCommands \in Nat
      BY <1>2, RegularFacts, LenProperties, ParserAssumption DEF ParsedSoFar, ParserData
    <3> QED  BY <3>1
  <2>3. tokenIndex # Len(line)  BY <2>1, LenProperties DEF ParserData
  <2> QED  BY <1>1, <2>2, <2>3 DEF NextRound, EndOfLine
<1>4. Len(commands) = SegmentCount(line)
  <2>1. Len(commands) \in Nat /\ SegmentCount(line) \in Nat /\ Len(commands) <= SegmentCount(line)
    BY <1>2, RegularFacts, LenProperties DEF ParsedSoFar, ParserData
  <2> QED  BY <1>3, <2>1
<1>5. Outcome  BY <1>2, <1>4 DEF ParsedSoFar, Outcome
<1> QED  BY <1>1, <1>5 DEF Outcome

\* Where the next symbol is, and with a redirection its file.
NextSymbol(k, c, e, u) ==
    LET s == Segment(line, k)
    IN /\ k = Len(commands) + 1 /\ Len(commands) < SegmentCount(line)
       /\ SegmentAt(line, k, c, e) /\ s \in Seq(Words \cup Symbols)
       /\ tokenIndex = c + u /\ u <= Len(s)
       /\ Paired(s, u) /\ Clear(line, carried, k, u)
       /\ command = PartMeant(line, carried, k, u) /\ command.run = NoToken
       /\ Token \in Connectors =>
             /\ u = Len(s) /\ e = tokenIndex + 1 /\ e <= Len(line)
             /\ ConnectorAfter(line, k) = Token
             /\ e = IF k < SegmentCount(line) THEN Cut(line, k + 1) ELSE Len(line)
       /\ Token \notin Connectors => u + 1 <= Len(s) /\ Token = s[u + 1]
       /\ Token \in Redirections =>
             /\ u + 2 <= Len(s) /\ FileName = s[u + 2] /\ FileName \in Words
             /\ TakenWithFile = 2 /\ RunAfterFile = NoToken

\* There is a next symbol.
LEMMA AtSymbol ==
    ASSUME ParserData, Regular(line), Parsing, phase = "symbols"
    PROVE  \E k \in 1..SegmentCount(line), c, e, u \in Nat : NextSymbol(k, c, e, u)
<1>1. ParsedSoFar /\ InSegment  BY DEF Parsing
<1>2. Len(commands) < SegmentCount(line)
  <2>1. Len(commands) \in Nat /\ SegmentCount(line) \in Nat
    BY RegularFacts, LenProperties DEF ParserData
  <2>2. Len(commands) + 1 <= SegmentCount(line)  BY <1>1 DEF InSegment
  <2> QED  BY <2>1, <2>2
<1>3. PICK k \in 1..SegmentCount(line), c, e \in Nat :
              /\ k = Len(commands) + 1
              /\ SegmentAt(line, k, c, e) /\ c < Len(line) /\ Len(line) \in Nat
              /\ k < SegmentCount(line) <=> e < Len(line)
  BY <1>1, <1>2, NextSegment
<1>4. PICK s \in Seq(Words \cup Symbols) : s = Segment(line, k)  BY <1>3 DEF SegmentAt
<1>5. /\ c = Cut(line, k) /\ e = Cut(line, k + 1) /\ e <= Len(line) + 1 /\ c < e
      /\ Len(s) = e - c - 1 /\ (e <= Len(line) => line[e] \in Connectors)
      /\ \A i \in 1..(e - c - 1) : s[i] = line[c + i] /\ line[c + i] \notin Connectors
      /\ ConnectorAfter(line, k) = IF e <= Len(line) THEN line[e] ELSE NoToken
  BY <1>3, <1>4 DEF SegmentAt
<1> DEFINE u == tokenIndex - c
<1>6. /\ Paired(s, u) /\ Clear(line, carried, k, u) /\ tokenIndex < Len(line)
      /\ command = PartMeant(line, carried, k, u)
  BY <1>1, <1>3, <1>4, <1>5 DEF InSegment
<1>7. command.run = NoToken  BY <1>6 DEF PartMeant, CommandOf
<1>8. u \in Nat /\ u <= Len(s) /\ tokenIndex = c + u /\ tokenIndex \in Nat
  <2>1. tokenIndex \in Nat  BY <1>3 DEF ParserData
  <2>2. u \in Len(LeadingWords(s))..Len(s)  BY <1>6 DEF Paired
  <2>3. Len(LeadingWords(s)) \in Nat /\ Len(s) \in Nat  BY LeadingWordsProperties, LenProperties
  <2> QED  BY <2>1, <2>2, <2>3
<1> HIDE DEF u
<1>9. Token = line[c + u + 1] /\ c + u + 1 <= Len(line)
  <2>1. tokenIndex + 1 = c + u + 1 /\ c + u + 1 <= Len(line)  BY <1>3, <1>6, <1>8
  <2> QED  BY <2>1 DEF Token
<1>10. CASE u = Len(s)
  <2>1. e = c + u + 1 /\ e = tokenIndex + 1  BY <1>5, <1>8, <1>10
  <2>2. e <= Len(line) /\ Token \in Connectors /\ ConnectorAfter(line, k) = Token
    BY <1>5, <1>9, <2>1
  <2>3. e = IF k < SegmentCount(line) THEN Cut(line, k + 1) ELSE Len(line)
    BY <1>3, <1>5, <2>2
  <2>4. Token \notin Redirections  BY <2>2 DEF Connectors, Conditionals, Redirections
  <2> QED
    BY <1>2, <1>3, <1>4, <1>6, <1>7, <1>8, <1>10, <2>1, <2>2, <2>3, <2>4 DEF NextSymbol
<1>11. CASE u # Len(s)
  <2>1. PICK size \in Nat : size = Len(s) /\ u + 1 <= size /\ size = e - c - 1
    BY <1>5, <1>8, <1>11, LenProperties
  <2>2. u + 1 \in 1..(e - c - 1) /\ c + (u + 1) = c + u + 1  BY <1>8, <2>1
  <2>3. Token = s[u + 1] /\ Token \notin Connectors  BY <1>5, <1>9, <2>2
  <2>4. ASSUME Token \in Redirections
        PROVE  /\ u + 2 <= Len(s) /\ FileName = s[u + 2] /\ FileName \in Words
               /\ TakenWithFile = 2 /\ RunAfterFile = NoToken
    <3>1. PICK len \in Nat : len = Len(line) /\ DOMAIN line = 1..len
      BY LenProperties DEF ParserData
    <3>2. PICK i \in Nat : i = c + u + 1 /\ i <= len /\ i \in 1..len  BY <1>8, <1>9, <3>1
    <3>3. line[i] = Token  BY <1>9, <3>2
    <3>4. i < len /\ line[i + 1] \in Words
      <4>1. i \in Places(line, Redirections)  BY <2>4, <3>1, <3>2, <3>3 DEF Places
      <4> QED  BY <3>1, <4>1 DEF Regular, NamesFiles
    <3>5. i + 1 # e
      <4>1. i + 1 <= len  BY <3>4
      <4>2. line[i + 1] \notin Connectors  BY <3>4, ParserAssumption DEF Symbols
      <4> QED  BY <1>5, <3>1, <4>1, <4>2
    <3>6. u + 2 <= size  BY <1>8, <2>1, <3>2, <3>5
    <3>7. s[u + 2] = line[i + 1]
      <4>1. u + 2 \in 1..(e - c - 1) /\ c + (u + 2) = i + 1  BY <1>8, <2>1, <3>2, <3>6
      <4> QED  BY <1>5, <4>1
    <3>8. FileName = line[i + 1]
      <4>1. tokenIndex + 2 = i + 1 /\ i + 1 <= Len(line)  BY <1>8, <3>1, <3>2, <3>4
      <4> QED  BY <4>1 DEF FileName
    <3>9. TakenWithFile = 2 /\ RunAfterFile = NoToken
      BY <1>7, <3>4, <3>8, ParserAssumption DEF TakenWithFile, RunAfterFile
    <3> QED  BY <2>1, <3>4, <3>6, <3>7, <3>8, <3>9
  <2> QED
    BY <1>2, <1>3, <1>4, <1>6, <1>7, <1>8, <2>1, <2>3, <2>4 DEF NextSymbol
<1> QED  BY <1>10, <1>11

\* The branches of initInputOutput.
LEMMA InputParsed ==
    ASSUME ParserData, Regular(line), Parsing, RedirectInput
    PROVE  Parsing'
<1>1. phase = "symbols" /\ Token = "<" /\ command.input = "stdin"  BY DEF RedirectInput
<1>2. PICK k \in 1..SegmentCount(line), c, e, u \in Nat : NextSymbol(k, c, e, u)
  BY <1>1, AtSymbol
<1>3. PICK s \in Seq(Words \cup Symbols) : s = Segment(line, k)  BY <1>2 DEF NextSymbol
<1>4. Token \in Redirections /\ Token \notin Connectors
  BY <1>1 DEF Redirections, Connectors, Conditionals
<1>5. /\ k = Len(commands) + 1 /\ Len(commands) < SegmentCount(line)
      /\ tokenIndex = c + u /\ c = Cut(line, k)
      /\ Paired(s, u) /\ Clear(line, carried, k, u)
      /\ command = PartMeant(line, carried, k, u)
      /\ u + 2 <= Len(s) /\ s[u + 1] = "<" /\ FileName = s[u + 2] /\ s[u + 2] \in Words
      /\ TakenWithFile = 2 /\ RunAfterFile = NoToken
  BY <1>1, <1>2, <1>3, <1>4 DEF NextSymbol, SegmentAt
<1>6. Clear(line, carried, k, u + 2)  BY <1>1, <1>3, <1>5, InputTaken
<1>7. PICK a, i, f, o, g :
         /\ PartMeant(line, carried, k, u) = CommandOf(a, i, f, o, g, NoToken)
         /\ PartMeant(line, carried, k, u + 2) = CommandOf(a, "file", s[u + 2], o, g, NoToken)
  BY <1>1, <1>3, <1>5, InputTaken
<1> DEFINE cmd == [command EXCEPT !.input = "file", !.inFile = FileName, !.run = RunAfterFile]
<1>8. cmd = PartMeant(line, carried, k, u + 2)
  <2>1. HasFields(command, a, i, f, o, g, NoToken)  BY <1>5, <1>7, OnlyCommand
  <2>2. HasFields(cmd, a, "file", s[u + 2], o, g, NoToken)  BY <1>5, <2>1 DEF HasFields
  <2> HIDE DEF cmd
  <2> QED  BY <1>7, <2>2, OnlyCommand
<1>9. cmd \in CommandType  BY <1>1, TokenData DEF CommandType, ParserData
<1>10. Continue(cmd, 2)  BY <1>5 DEF RedirectInput
<1> HIDE DEF cmd
<1>11. Paired(s, u + 2) /\ u + 2 \in Nat /\ tokenIndex + 2 = c + (u + 2)
  <2>1. s[u + 1] \in Redirections  BY <1>1, <1>4, <1>5
  <2>2. Paired(s, u + 2)  BY <1>5, <2>1, PairedNext
  <2>3. u + 2 \in Nat /\ tokenIndex + 2 = c + (u + 2)  BY <1>5
  <2> QED  BY <2>2, <2>3
<1>12. ParsedSoFar  BY DEF Parsing
<1> QED
  BY <1>3, <1>5, <1>6, <1>8, <1>9, <1>10, <1>11, <1>12, ContinueParsed

LEMMA OutputParsed ==
    ASSUME ParserData, Regular(line), Parsing, RedirectOutput
    PROVE  Parsing'
<1>1. phase = "symbols" /\ Token \in {">", ">>"} /\ command.output = "stdout"
  BY DEF RedirectOutput
<1>2. PICK k \in 1..SegmentCount(line), c, e, u \in Nat : NextSymbol(k, c, e, u)
  BY <1>1, AtSymbol
<1>3. PICK s \in Seq(Words \cup Symbols) : s = Segment(line, k)  BY <1>2 DEF NextSymbol
<1>4. Token \in Redirections /\ Token \notin Connectors
  BY <1>1 DEF Redirections, Connectors, Conditionals
<1>5. /\ k = Len(commands) + 1 /\ Len(commands) < SegmentCount(line)
      /\ tokenIndex = c + u /\ c = Cut(line, k)
      /\ Paired(s, u) /\ Clear(line, carried, k, u)
      /\ command = PartMeant(line, carried, k, u)
      /\ u + 2 <= Len(s) /\ s[u + 1] = Token /\ FileName = s[u + 2] /\ s[u + 2] \in Words
      /\ TakenWithFile = 2 /\ RunAfterFile = NoToken
  BY <1>2, <1>3, <1>4 DEF NextSymbol, SegmentAt
<1>6. PICK mode : mode = IF Token = ">" THEN "new" ELSE "append"  OBVIOUS
<1>7. Clear(line, carried, k, u + 2)  BY <1>1, <1>3, <1>5, <1>6, OutputTaken
<1>8. PICK a, i, f, o, g :
         /\ PartMeant(line, carried, k, u) = CommandOf(a, i, f, o, g, NoToken)
         /\ PartMeant(line, carried, k, u + 2) = CommandOf(a, i, f, mode, s[u + 2], NoToken)
  <2>1. s[u + 1] \in {">", ">>"} /\ PartMeant(line, carried, k, u).output = "stdout"
    BY <1>1, <1>5
  <2>2. mode = IF s[u + 1] = ">" THEN "new" ELSE "append"  BY <1>5, <1>6
  <2> QED  BY <1>3, <1>5, <2>1, <2>2, OutputTaken
<1> DEFINE cmd == [command EXCEPT !.output = mode, !.outFile = FileName, !.run = RunAfterFile]
<1>9. cmd = PartMeant(line, carried, k, u + 2)
  <2>1. HasFields(command, a, i, f, o, g, NoToken)  BY <1>5, <1>8, OnlyCommand
  <2>2. HasFields(cmd, a, i, f, mode, s[u + 2], NoToken)  BY <1>5, <2>1 DEF HasFields
  <2> HIDE DEF cmd
  <2> QED  BY <1>8, <2>2, OnlyCommand
<1>10. cmd \in CommandType  BY <1>1, <1>6, TokenData DEF CommandType, ParserData
<1>11. Continue(cmd, 2)  BY <1>5, <1>6 DEF RedirectOutput
<1> HIDE DEF cmd
<1>12. Paired(s, u + 2) /\ u + 2 \in Nat /\ tokenIndex + 2 = c + (u + 2)
  <2>1. s[u + 1] \in Redirections  BY <1>4, <1>5
  <2>2. Paired(s, u + 2)  BY <1>5, <2>1, PairedNext
  <2>3. u + 2 \in Nat /\ tokenIndex + 2 = c + (u + 2)  BY <1>5
  <2> QED  BY <2>2, <2>3
<1>13. ParsedSoFar  BY DEF Parsing
<1> QED
  BY <1>3, <1>5, <1>7, <1>9, <1>10, <1>11, <1>12, <1>13, ContinueParsed

\* Input or output that has its place already.
LEMMA AmbiguousRejected ==
    ASSUME ParserData, Regular(line), Parsing, RejectAmbiguous
    PROVE  phase' = "done" /\ Outcome'
<1>1. phase = "symbols" /\ Reject
      /\ \/ Token = "<" /\ command.input # "stdin"
         \/ Token \in {">", ">>", "|"} /\ command.output # "stdout"
  BY DEF RejectAmbiguous
<1>2. PICK k \in 1..SegmentCount(line), c, e, u \in Nat : NextSymbol(k, c, e, u)
  BY <1>1, AtSymbol
<1>3. PICK s \in Seq(Words \cup Symbols) : s = Segment(line, k)  BY <1>2 DEF NextSymbol
<1>4. command = PartMeant(line, carried, k, u) /\ u <= Len(s)  BY <1>2, <1>3 DEF NextSymbol
<1>5. Token \notin Connectors => u + 1 <= Len(s) /\ Token = s[u + 1]
  BY <1>2, <1>3 DEF NextSymbol
<1>6. Token \in Connectors => ConnectorAfter(line, k) = Token  BY <1>2 DEF NextSymbol
<1>7. CASE Token = "<" /\ command.input # "stdin"
  <2>1. Token \notin Connectors  BY <1>7 DEF Connectors, Conditionals
  <2> QED  BY <1>1, <1>3, <1>4, <1>5, <1>7, <2>1, SecondInput, RejectOutcome
<1>8. CASE Token \in {">", ">>", "|"} /\ command.output # "stdout"
  <2>1. (u + 1 <= Len(s) /\ s[u + 1] \in {">", ">>"}) \/ PipedOut(line, k)
    BY <1>5, <1>6, <1>8 DEF Connectors, Conditionals, PipedOut
  <2> QED  BY <1>1, <1>3, <1>4, <1>8, <2>1, SecondOutput, RejectOutcome
<1> QED  BY <1>1, <1>7, <1>8

\* A connector ends the command.
LEMMA ConnectorParsed ==
    ASSUME ParserData, Regular(line), Parsing, MakePipe \/ MakeConditional
    PROVE  Parsing'
<1>1. /\ phase = "symbols" /\ tokenIndex' = tokenIndex + 1 /\ Token \in Connectors
      /\ Token = "|" => command.output = "stdout"
  BY DEF MakePipe, MakeConditional, Connectors, Conditionals
<1>2. PICK k \in 1..SegmentCount(line), c, e, u \in Nat : NextSymbol(k, c, e, u)
  BY <1>1, AtSymbol
<1>3. PICK s \in Seq(Words \cup Symbols) : s = Segment(line, k)  BY <1>2 DEF NextSymbol
<1>4. /\ k = Len(commands) + 1 /\ Len(commands) < SegmentCount(line)
      /\ u = Len(s) /\ Clear(line, carried, k, u) /\ command = PartMeant(line, carried, k, u)
      /\ ConnectorAfter(line, k) = Token
      /\ tokenIndex + 1 = IF k < SegmentCount(line) THEN Cut(line, k + 1) ELSE Len(line)
  BY <1>1, <1>2, <1>3 DEF NextSymbol
<1>5. PipedOut(line, k) <=> Token = "|"  BY <1>4 DEF PipedOut
<1>6. Accepted(line, carried, k)  BY <1>1, <1>3, <1>4, <1>5, Completed
<1>7. PICK a, i, f, o, g :
         /\ PartMeant(line, carried, k, u) = CommandOf(a, i, f, o, g, NoToken)
         /\ Expected(line, carried, k)
               = CommandOf(a, i, f, IF PipedOut(line, k) THEN "pipe" ELSE o, g, Token)
  BY <1>1, <1>3, <1>4, <1>5, Completed
<1>8. HasFields(command, a, i, f, o, g, NoToken)  BY <1>4, <1>7, OnlyCommand
<1>9. ASSUME NEW cmd \in CommandType, AppendCommand(cmd), cmd = Expected(line, carried, k)
      PROVE  Parsing'
  <2>1. ParsedSoFar  BY DEF Parsing
  <2> QED  BY <1>1, <1>4, <1>6, <1>9, <2>1, AppendParsed
<1>10. CASE MakePipe
  <2> DEFINE cmd == [command EXCEPT !.output = "pipe", !.run = "|"]
  <2>1. Token = "|" /\ AppendCommand(cmd)  BY <1>10 DEF MakePipe
  <2>2. HasFields(cmd, a, i, f, "pipe", g, "|")  BY <1>8 DEF HasFields
  <2>3. cmd \in CommandType  BY DEF CommandType, ParserData, Symbols, Connectors
  <2> HIDE DEF cmd
  <2>4. cmd = Expected(line, carried, k)  BY <1>5, <1>7, <2>1, <2>2, OnlyCommand
  <2> QED  BY <1>9, <2>1, <2>3, <2>4
<1>11. CASE MakeConditional
  <2> DEFINE cmd == [command EXCEPT !.run = Token]
  <2>1. Token \in Conditionals /\ AppendCommand(cmd)  BY <1>11 DEF MakeConditional
  <2>2. HasFields(cmd, a, i, f, o, g, Token)  BY <1>8 DEF HasFields
  <2>3. cmd \in CommandType  BY <2>1 DEF CommandType, ParserData, Symbols, Connectors
  <2> HIDE DEF cmd
  <2>4. ~PipedOut(line, k)  BY <1>5, <2>1 DEF Conditionals
  <2>5. cmd = Expected(line, carried, k)  BY <1>7, <2>2, <2>4, OnlyCommand
  <2> QED  BY <1>9, <2>1, <2>3, <2>5
<1> QED  BY <1>10, <1>11

\* All steps of the parser.
LEMMA StepParsed ==
    ASSUME ParserData, Regular(line), Parsing, ParserStep
    PROVE  Parsing' \/ (phase' = "done" /\ Outcome')
<1>1. CASE StartCommand  BY <1>1, StartParsed
<1>2. CASE SkipBlank  BY <1>2, NothingSkipped
<1>3. CASE RejectBlank  BY <1>3, BlankRejected
<1>4. CASE RedirectInput  BY <1>4, InputParsed
<1>5. CASE RedirectOutput  BY <1>5, OutputParsed
<1>6. CASE RejectAmbiguous  BY <1>6, AmbiguousRejected
<1>7. CASE MakePipe \/ MakeConditional  BY <1>7, ConnectorParsed
<1>8. CASE SpinOnWord
  BY <1>8 DEF SpinOnWord, parserVars, Parsing, ParsedSoFar, AtSegment, InSegment
<1>9. CASE ReturnList  BY <1>9, ListReturned
<1> QED
  BY <1>1, <1>2, <1>3, <1>4, <1>5, <1>6, <1>7, <1>8, <1>9 DEF ParserStep

-----------------------------------------------------------------------------
(* What the grammar says of such a line.                                   *)

\* A command with w words between the c-th and the e-th token.
CommandAt(l, k, c, e, w) ==
    LET s == Segment(l, k)
        size == e - c - 1
    IN /\ SegmentAt(l, k, c, e) /\ w > 0 /\ w <= size
       /\ \A i \in 1..w : s[i] \in Words
       /\ (size - w) % 2 = 0
       /\ \A i \in (w + 1)..size :
             s[i] \in (IF (i - w) % 2 = 1 THEN Redirections ELSE Words)

\* A line that is not blank and follows the grammar is one the parser can follow.
LEMMA WellFormedRegular ==
    ASSUME NEW l \in Seq(Words \cup Symbols), l # <<>>, WellFormed(l),
           SegmentCount(l) <= MaxCommands
    PROVE  Regular(l)
<1> DEFINE K == Cuts(l)
           n == SegmentCount(l)
<1>1. /\ n \in Nat \ {0} /\ n < K /\ K \in Nat
      /\ IF l[Len(l)] \in Conditionals THEN n = K - 2 ELSE n = K - 1
      /\ l[Len(l)] \in Connectors => Cut(l, K - 1) = Len(l)
      /\ Cut(l, 1) = 0 /\ Cut(l, K) = Len(l) + 1
  BY CountFacts, CutFacts
<1>2. PICK len \in Nat \ {0} : len = Len(l) /\ DOMAIN l = 1..len
  BY LenProperties, EmptySeq
<1>3. \A k \in 1..n : IsCommand(Segment(l, k))  BY DEF WellFormed
<1> HIDE DEF K, n
<1>4. ASSUME NEW k \in 1..n PROVE \E c, e, w \in Nat : CommandAt(l, k, c, e, w)
  <2>1. k \in 1..(Cuts(l) - 1)  BY <1>1, <1>4 DEF K
  <2>2. PICK c, e \in Nat : SegmentAt(l, k, c, e)  BY <2>1, SegmentFacts
  <2>3. PICK s \in Seq(Words \cup Symbols) : s = Segment(l, k) /\ Len(s) = e - c - 1
    BY <2>2 DEF SegmentAt
  <2>4. PICK size \in Nat : size = Len(s)  BY LenProperties
  <2>5. PICK w \in 0..size : (\A i \in 1..w : s[i] \in Words) /\ Len(LeadingWords(s)) = w
    BY <2>4, LeadingWordsProperties
  <2>6. IsCommand(s)  BY <1>3, <2>3
  <2>7. /\ w > 0 /\ (size - w) % 2 = 0
        /\ \A i \in (w + 1)..size : s[i] \in (IF (i - w) % 2 = 1 THEN Redirections ELSE Words)
    BY <2>4, <2>5, <2>6 DEF IsCommand
  <2>8. w \in Nat /\ w <= size /\ size = e - c - 1  BY <2>3, <2>4, <2>5
  <2>9. CommandAt(l, k, c, e, w)  BY <2>2, <2>3, <2>5, <2>7, <2>8 DEF CommandAt
  <2> QED  BY <2>8, <2>9
<1>5. l[1] \in Words
  <2>1. 1 \in 1..n  BY <1>1
  <2>2. PICK c, e, w \in Nat : CommandAt(l, 1, c, e, w)  BY <1>4, <2>1
  <2>3. /\ c = 0 /\ w > 0 /\ w <= e - c - 1
        /\ \A i \in 1..(e - c - 1) : Segment(l, 1)[i] = l[c + i]
        /\ \A i \in 1..w : Segment(l, 1)[i] \in Words
    BY <1>1, <2>2 DEF CommandAt, SegmentAt
  <2>4. 1 \in 1..w /\ 1 \in 1..(e - c - 1) /\ c + 1 = 1  BY <2>3
  <2> QED  BY <2>3, <2>4
<1>6. l[Len(l)] # "|"
  <2> SUFFICES ASSUME l[Len(l)] = "|" PROVE FALSE  OBVIOUS
  <2>1. n = K - 1 /\ Cut(l, n) = Len(l)
    <3>1. l[Len(l)] \notin Conditionals /\ l[Len(l)] \in Connectors
      BY DEF Connectors, Conditionals
    <3> QED  BY <1>1, <3>1
  <2>2. n \in 1..n /\ n + 1 = K  BY <1>1, <2>1
  <2>3. PICK c, e, w \in Nat : CommandAt(l, n, c, e, w)  BY <1>4, <2>2
  <2>4. c = len /\ e = len + 1  BY <1>1, <1>2, <2>1, <2>2, <2>3 DEF CommandAt, SegmentAt
  <2>5. w > 0 /\ w <= e - c - 1  BY <2>3 DEF CommandAt
  <2> QED  BY <2>4, <2>5
<1>7. ASSUME NEW i \in Places(l, Redirections)
      PROVE  i < Len(l) /\ l[i + 1] \in Words
  <2>1. i \in 1..len /\ i \in 1..Len(l) /\ l[i] \in Redirections /\ l[i] \notin Connectors
        /\ l[i] \notin Words
    <3>1. i \in 1..len /\ i \in 1..Len(l) /\ l[i] \in Redirections  BY <1>2 DEF Places
    <3>2. l[i] \notin Connectors  BY <3>1 DEF Redirections, Connectors, Conditionals
    <3> QED  BY <3>1, <3>2, ParserAssumption DEF Symbols
  <2>2. PICK k \in 1..(K - 1) : Cut(l, k) < i /\ i < Cut(l, k + 1)
    BY <2>1, InSomeSegment DEF K
  <2>3. k \in 1..n
    <3>1. CASE l[Len(l)] \in Conditionals
      <4>1. Cut(l, K - 1) = len /\ n = K - 2  BY <1>1, <1>2, <3>1 DEF Connectors
      <4>2. k # K - 1  BY <1>2, <2>1, <2>2, <4>1
      <4> QED  BY <1>1, <4>1, <4>2
    <3>2. CASE l[Len(l)] \notin Conditionals  BY <1>1, <3>2
    <3> QED  BY <3>1, <3>2
  <2>4. PICK c, e, w \in Nat : CommandAt(l, k, c, e, w)  BY <1>4, <2>3
  <2>5. PICK s : s = Segment(l, k)  OBVIOUS
  <2>6. PICK size \in Nat : size = e - c - 1
    <3>1. w > 0 /\ w <= e - c - 1  BY <2>4 DEF CommandAt
    <3> QED  BY <3>1
  <2>7. /\ w > 0 /\ w <= size /\ (size - w) % 2 = 0
        /\ \A j \in 1..w : s[j] \in Words
        /\ \A j \in (w + 1)..size :
              s[j] \in (IF (j - w) % 2 = 1 THEN Redirections ELSE Words)
        /\ \A j \in 1..size : s[j] = l[c + j]
        /\ c = Cut(l, k) /\ e = Cut(l, k + 1) /\ e <= len + 1
    BY <1>2, <2>4, <2>5, <2>6 DEF CommandAt, SegmentAt
  <2>8. PICK j \in 1..size : i = c + j
    <3>1. c < i /\ i < e /\ i \in Nat  BY <2>1, <2>2, <2>7
    <3>2. i - c \in 1..size /\ i = c + (i - c)  BY <2>6, <3>1
    <3> QED  BY <3>2
  <2>9. s[j] = l[i]  BY <2>7, <2>8
  <2>10. j \in (w + 1)..size
    <3>1. j \notin 1..w  BY <2>1, <2>7, <2>9
    <3> QED  BY <2>7, <3>1
  <2>11. (j - w) % 2 = 1
    <3>1. s[j] \in (IF (j - w) % 2 = 1 THEN Redirections ELSE Words)  BY <2>7, <2>10
    <3> QED  BY <2>1, <2>9, <3>1
  <2>12. j + 1 \in (w + 1)..size /\ (j + 1 - w) % 2 = 0
    <3>1. (size - w) % 2 = 0  BY <2>7
    <3> QED  BY <2>10, <2>11, <3>1
  <2>13. s[j + 1] \in Words
    <3>1. s[j + 1] \in (IF (j + 1 - w) % 2 = 1 THEN Redirections ELSE Words)
      BY <2>7, <2>12
    <3> QED  BY <2>12, <3>1
  <2>14. j + 1 \in 1..size /\ c + (j + 1) = i + 1  BY <2>8, <2>12
  <2>15. i < len
    <3>1. j + 1 <= e - c - 1 /\ e <= len + 1  BY <2>6, <2>7, <2>14
    <3> QED  BY <2>8, <3>1
  <2>16. l[i + 1] = s[j + 1]  BY <2>7, <2>14
  <2> QED  BY <1>2, <2>13, <2>15, <2>16
<1> QED  BY <1>5, <1>6, <1>7 DEF Regular, NamesFiles, n

\* Cardinalities as Clashes uses them.
LEMMA AtMostOne ==
    ASSUME NEW S, IsFiniteSet(S)
    PROVE  /\ Cardinality(S) \in Nat
           /\ Cardinality(S) > 1 <=> ~(\A i, j \in S : i = j)
           /\ Cardinality(S) + 1 > 1 <=> S # {}
<1>1. Cardinality(S) \in Nat /\ (Cardinality(S) = 0 <=> S = {})
  BY FS_CardinalityType, FS_EmptySet
<1>2. Cardinality(S) = 1 <=> \E x : S = {x}  BY FS_Singleton
<1>3. (\A i, j \in S : i = j) <=> S = {} \/ \E x : S = {x}
  <2>1. ASSUME \A i, j \in S : i = j, S # {} PROVE \E x : S = {x}
    <3>1. PICK x \in S : TRUE  BY <2>1
    <3>2. S = {x}  BY <2>1, <3>1
    <3> QED  BY <3>2
  <2> QED  BY <2>1
<1>4. PICK m \in Nat : m = Cardinality(S)  BY <1>1
<1>5. (m > 1 <=> ~(m = 0 \/ m = 1)) /\ (m + 1 > 1 <=> m # 0)  OBVIOUS
<1> QED  BY <1>1, <1>2, <1>3, <1>4, <1>5

\* When no pipe is left from the line before, a command is acceptable unless it has
\* two inputs, two outputs or nothing after a pipe.
LEMMA AcceptedIsClear ==
    ASSUME NEW l \in Seq(Words \cup Symbols), NEW k \in 1..(Cuts(l) - 1),
           NEW before, before # "pipe"
    PROVE  Accepted(l, before, k)
              <=> /\ ~Clashes(l, k)
                  /\ PipedInto(l, k) => LeadingWords(Segment(l, k)) # <<>>
<1>1. PICK s \in Seq(Words \cup Symbols) : s = Segment(l, k)
  BY SegmentFacts DEF SegmentAt
<1>2. FromPipe(l, before, k) <=> PipedInto(l, k)  BY DEF FromPipe
<1> DEFINE ins == Places(s, {"<"})
           outs == Places(s, {">", ">>"})
<1>3. Among(s, {"<"}, Len(s)) = ins /\ Among(s, {">", ">>"}, Len(s)) = outs
  BY AmongAll
<1>4. IsFiniteSet(ins) /\ IsFiniteSet(outs)
  <2>1. Len(s) \in Nat /\ DOMAIN s = 1..Len(s)  BY LenProperties
  <2>2. IsFiniteSet(1..Len(s))  BY <2>1, FS_Interval
  <2>3. ins \in SUBSET (1..Len(s)) /\ outs \in SUBSET (1..Len(s))  BY <2>1 DEF Places
  <2> HIDE DEF ins, outs
  <2> QED  BY <2>2, <2>3, FS_Subset
<1>5. Clashes(l, k)
         <=> \/ Cardinality(ins) + (IF PipedInto(l, k) THEN 1 ELSE 0) > 1
             \/ Cardinality(outs) + (IF PipedOut(l, k) THEN 1 ELSE 0) > 1
  BY <1>1 DEF Clashes
<1>6. Accepted(l, before, k)
         <=> /\ \A i, j \in ins : i = j
             /\ PipedInto(l, k) => (ins = {} /\ LeadingWords(s) # <<>>)
             /\ \A i, j \in outs : i = j
             /\ PipedOut(l, k) => outs = {}
  BY <1>1, <1>2, <1>3 DEF Accepted, Clear
<1> HIDE DEF ins, outs
<1>7. /\ Cardinality(ins) + (IF PipedInto(l, k) THEN 1 ELSE 0) > 1
            <=> IF PipedInto(l, k) THEN ins # {} ELSE ~(\A i, j \in ins : i = j)
      /\ Cardinality(outs) + (IF PipedOut(l, k) THEN 1 ELSE 0) > 1
            <=> IF PipedOut(l, k) THEN outs # {} ELSE ~(\A i, j \in outs : i = j)
  <2>1. Cardinality(ins) + 0 = Cardinality(ins) /\ Cardinality(outs) + 0 = Cardinality(outs)
    BY <1>4, AtMostOne
  <2> QED  BY <1>4, <2>1, AtMostOne
<1>8. (ins = {} => \A i, j \in ins : i = j) /\ (outs = {} => \A i, j \in outs : i = j)
  OBVIOUS
<1> QED  BY <1>1, <1>5, <1>6, <1>7, <1>8

\* And then it means what the grammar says.
LEMMA ExpectedIsMeant ==
    ASSUME NEW l \in Seq(Words \cup Symbols), NEW k \in 1..(Cuts(l) - 1),
           NEW before, before # "pipe"
    PROVE  Expected(l, before, k) = CommandMeant(l, k)
<1>1. PICK s \in Seq(Words \cup Symbols) : s = Segment(l, k)
  BY SegmentFacts DEF SegmentAt
<1>2. FromPipe(l, before, k) <=> PipedInto(l, k)  BY DEF FromPipe
<1>3. \A X : Among(s, X, Len(s)) = Places(s, X)  BY AmongAll
<1>4. \A X : FileOf(s, Places(s, X)) = FileAfter(s, X)  BY DEF FileOf, FileAfter
<1>5. PICK input, output :
         /\ input = IF PipedInto(l, k) THEN "pipe"
                    ELSE IF Places(s, {"<"}) # {} THEN "file" ELSE "stdin"
         /\ output = IF PipedOut(l, k) THEN "pipe"
                     ELSE IF Places(s, {">"}) # {} THEN "new"
                     ELSE IF Places(s, {">>"}) # {} THEN "append" ELSE "stdout"
  OBVIOUS
<1>6. /\ InputMeant(l, before, k, Len(s)) = input
      /\ (IF PipedOut(l, k) THEN "pipe" ELSE OutputMeant(s, Len(s))) = output
  BY <1>1, <1>2, <1>3, <1>5 DEF InputMeant, OutputMeant
<1>7. Expected(l, before, k)
         = CommandOf(LeadingWords(s), input, FileAfter(s, {"<"}), output,
                     FileAfter(s, {">", ">>"}), ConnectorAfter(l, k))
  BY <1>1, <1>3, <1>4, <1>6 DEF Expected
<1>8. CommandMeant(l, k)
         = CommandOf(LeadingWords(s), input, FileAfter(s, {"<"}), output,
                     FileAfter(s, {">", ">>"}), ConnectorAfter(l, k))
  BY <1>1, <1>5 DEF CommandMeant, CommandOf
<1> QED  BY <1>7, <1>8

\* A blank line means nothing.
LEMMA BlankMeaning == SegmentCount(<<>>) = 0 /\ Meaning(<<>>) = <<>>
<1>1. Len(<<>>) = 0 /\ DOMAIN <<>> = {}  OBVIOUS
<1>2. CutPlaces(<<>>) = 0..1
  <2>1. 0..1 = {0, 1}  OBVIOUS
  <2> QED  BY <1>1, <2>1 DEF CutPlaces
<1>3. Cardinality(0..1) = 2
  <2>1. PICK a, b \in Int : a = 0 /\ b = 1  OBVIOUS
  <2>2. Cardinality(a..b) = IF a > b THEN 0 ELSE b - a + 1  BY FS_Interval
  <2>3. Cardinality(a..b) = 2  BY <2>1, <2>2
  <2> QED  BY <2>1, <2>3
<1>4. SegmentCount(<<>>) = 0
  <2>1. Cardinality(CutPlaces(<<>>)) = 2  BY <1>2, <1>3
  <2>2. SegmentCount(<<>>) = Cardinality(CutPlaces(<<>>)) - 1 - 1  BY DEF SegmentCount
  <2> QED  BY <2>1, <2>2
<1>5. Meaning(<<>>) = <<>>
  <2>1. 1..0 = {}  OBVIOUS
  <2>2. Meaning(<<>>) = [k \in {} |-> CommandMeant(<<>>, k)]  BY <1>4, <2>1 DEF Meaning
  <2> QED  BY <2>2
<1> QED  BY <1>4, <1>5

-----------------------------------------------------------------------------
(* The parser does what the grammar says.                                  *)

Executing == {"execute", "forked", "wait"}

Understood ==
    /\ Regular(line) =>
          /\ phase \in {"list", "symbols"} => Parsing
          /\ phase \in {"done"} \cup Executing => Outcome
    /\ line = <<>> => commands = <<>> /\ status = "success"

\* A new line.
LEMMA UnderstoodAtRead ==
    ASSUME ParserData, ReadLine
    PROVE  Understood'
<1>1. /\ phase' = "list" /\ tokenIndex' = 0 /\ commands' = <<>> /\ rounds' = 0
      /\ status' = "success" /\ carried' = prevOutput /\ prevOutput' = prevOutput
      /\ line' \in Seq(Words \cup Symbols)
  BY ParserAssumption DEF ReadLine
<1>2. Len(commands') = 0  BY <1>1
<1>3. ASSUME Regular(line)' PROVE Parsing'
  <2>1. /\ SegmentCount(line') \in Nat \ {0} /\ Cut(line', 1) = 0
    BY <1>1, <1>3, RegularFacts, CutFacts
  <2>2. ParsedSoFar'  BY <1>1, <1>2, <2>1 DEF ParsedSoFar
  <2>3. AtSegment'  BY <1>1, <1>2, <2>1 DEF AtSegment
  <2> QED  BY <1>1, <2>2, <2>3 DEF Parsing
<1> QED  BY <1>1, <1>3 DEF Understood, Executing

\* A step of the parser.
LEMMA UnderstoodStep ==
    ASSUME ParserData, Understood, ParserStep
    PROVE  Understood'
<1>1. phase \in {"list", "symbols"} /\ line' = line
  BY DEF ParserStep, StartCommand, SkipBlank, RejectBlank, NextRound, RedirectInput,
     RedirectOutput, RejectAmbiguous, MakePipe, MakeConditional, SpinOnWord, ReturnList,
     Reject, Continue, AppendCommand, parserVars
<1>2. ASSUME Regular(line)
      PROVE  /\ phase' \in {"list", "symbols"} => Parsing'
             /\ phase' \in {"done"} \cup Executing => Outcome'
  <2>1. Parsing' \/ (phase' = "done" /\ Outcome')
    BY <1>1, <1>2, StepParsed DEF Understood
  <2>2. Parsing' => phase' \in {"list", "symbols"}  BY DEF Parsing
  <2> QED  BY <2>1, <2>2 DEF Executing
<1>3. ASSUME line = <<>> PROVE commands' = <<>> /\ status' = "success"
  <2>1. Len(line) = 0 /\ tokenIndex = 0  BY <1>3 DEF ParserData
  <2>2. phase # "symbols"  BY <2>1 DEF ParserData
  <2>3. ~NextRound  BY <2>1 DEF NextRound, EndOfLine
  <2>4. ReturnList
    BY <2>2, <2>3 DEF ParserStep, StartCommand, SkipBlank, RejectBlank, RedirectInput,
       RedirectOutput, RejectAmbiguous, MakePipe, MakeConditional, SpinOnWord
  <2> QED  BY <1>3, <2>4 DEF ReturnList, Understood
<1> QED  BY <1>1, <1>2, <1>3 DEF Understood

\* What the parser has and what the line means agree all the time.
LEMMA ParserMeaning == ParserSpec => [](ParserData /\ Understood)
<1> DEFINE Inv == /\ ParserData /\ Understood
                  /\ phase \in {"read", "list", "symbols", "done"}
<1>1. ParserInit => Inv
  <2> SUFFICES ASSUME ParserInit PROVE Inv  OBVIOUS
  <2>1. line = <<>> /\ commands = <<>> /\ status = "success" /\ phase = "read"
    BY DEF ParserInit
  <2>2. ~Regular(line)  BY <2>1 DEF Regular, NamesFiles
  <2> QED  BY <2>1, <2>2, InitData DEF Understood
<1>2. Inv /\ [ParserNext]_parserVars => Inv'
  <2> SUFFICES ASSUME Inv, [ParserNext]_parserVars PROVE Inv'  OBVIOUS
  <2>1. CASE ReadLine  BY <2>1, ReadLineData, UnderstoodAtRead
  <2>2. CASE ParserStep  BY <2>2, ParserStepData, UnderstoodStep
  <2>3. CASE TakeList
    <3>1. line' = <<>> /\ commands' = <<>> /\ status' = "success"  BY <2>3 DEF TakeList
    <3>2. ~Regular(line')  BY <3>1 DEF Regular, NamesFiles
    <3> QED  BY <2>3, <3>1, <3>2, TakeListData DEF Understood
  <2>4. CASE UNCHANGED parserVars
    BY <2>4 DEF parserVars, ParserData, Understood, Parsing, ParsedSoFar, AtSegment,
       InSegment, Outcome, Executing
  <2> QED  BY <2>1, <2>2, <2>3, <2>4 DEF ParserNext
<1> QED  BY <1>1, <1>2, PTL DEF ParserSpec

\* The commands of a line that follows the grammar, as the parser takes them.
LEMMA WellFormedAccepted ==
    ASSUME NEW l \in Seq(Words \cup Symbols), WellFormed(l), NEW before, before # "pipe",
           NEW k \in 1..SegmentCount(l), k \in 1..(Cuts(l) - 1)
    PROVE  Accepted(l, before, k)
<1>1. IsCommand(Segment(l, k)) /\ ~Clashes(l, k)  BY DEF WellFormed
<1>2. LeadingWords(Segment(l, k)) # <<>>  BY <1>1, EmptySeq DEF IsCommand
<1> QED  BY <1>1, <1>2, AcceptedIsClear

\* getCommandList makes of a line that follows the grammar what the grammar says it
\* means.
THEOREM ParserFollowsGrammar == ParserSpec => []ParsesGrammar
<1>1. ParserData /\ Understood => ParsesGrammar
  <2> SUFFICES ASSUME ParserData, Understood, phase = "done", WellFormed(line),
                      carried # "pipe", SegmentCount(line) <= MaxCommands
               PROVE  status = "success" /\ commands = Meaning(line)
    BY DEF ParsesGrammar
  <2>1. line \in Seq(Words \cup Symbols)  BY DEF ParserData
  <2>2. CASE line = <<>>  BY <2>2, BlankMeaning DEF Understood
  <2>3. CASE line # <<>>
    <3>1. Regular(line)  BY <2>1, <2>3, WellFormedRegular
    <3>2. Outcome  BY <3>1 DEF Understood
    <3>3. \A k \in 1..SegmentCount(line) : k \in 1..(Cuts(line) - 1)
      BY <2>1, <3>1, RegularFacts
    <3>4. \A k \in 1..SegmentCount(line) : Accepted(line, carried, k)
      BY <2>1, <3>3, WellFormedAccepted
    <3>5. status = "success"  BY <3>2, <3>4 DEF Outcome
    <3>6. /\ Len(commands) = SegmentCount(line)
          /\ \A k \in 1..SegmentCount(line) : commands[k] = CommandMeant(line, k)
      BY <2>1, <3>2, <3>3, <3>5, ExpectedIsMeant DEF Outcome
    <3>7. commands = [k \in 1..SegmentCount(line) |-> commands[k]]
      BY <3>6, LenProperties DEF ParserData
    <3> QED  BY <3>5, <3>6, <3>7 DEF Meaning
  <2> QED  BY <2>2, <2>3
<1> QED  BY <1>1, ParserMeaning, PTL

\* getCommandList fails for exactly the lines that deserve an error message.
THEOREM FailsExactlyWhenFaulty == ParserSpec => []RejectsExactlyFaulty
<1>1. ParserData /\ Understood => RejectsExactlyFaulty
  <2> SUFFICES ASSUME ParserData, Understood, phase = "done", NamesFiles(line),
                      line[1] \in Words, line[Len(line)] # "|", carried # "pipe",
                      SegmentCount(line) <= MaxCommands
               PROVE  status = "fail" <=> Faulty(line)
    BY DEF RejectsExactlyFaulty
  <2>1. line \in Seq(Words \cup Symbols) /\ Regular(line) /\ status \in {"success", "fail"}
    BY DEF ParserData, Regular
  <2>2. Outcome  BY <2>1 DEF Understood
  <2>3. \A k \in 1..SegmentCount(line) : k \in 1..(Cuts(line) - 1)  BY <2>1, RegularFacts
  <2>4. \A k \in 1..SegmentCount(line) :
           Accepted(line, carried, k)
              <=> ~(\/ Clashes(line, k)
                    \/ PipedInto(line, k) /\ LeadingWords(Segment(line, k)) = <<>>)
    BY <2>1, <2>3, AcceptedIsClear
  <2>5. Faulty(line) <=> \E k \in 1..SegmentCount(line) : ~Accepted(line, carried, k)
    BY <2>4 DEF Faulty
  <2> QED  BY <2>1, <2>2, <2>5 DEF Outcome
<1> QED  BY <1>1, ParserMeaning, PTL

-----------------------------------------------------------------------------
(* Types of the executor.                                                  *)

ProcessType ==
    [state : {"forked", "running", "zombie", "reaped"}, command : CommandType,
     fid : Nat, outFid : Nat, in : Int, out : Nat, left : Nat, status : {0, 1},
     reads : SUBSET Nat, writes : SUBSET Nat]

Results == {"none", "started", "succeeded", "failed"}

ExecutorData ==
    /\ linesRead \in Nat /\ exitShell \in BOOLEAN
    /\ curr \in Nat /\ steps \in Nat /\ inputFid \in Nat
    /\ shellReads \in SUBSET Nat /\ shellWrites \in SUBSET Nat
    /\ pipes \in Seq(Nat)
    /\ process \in Seq(ProcessType)
    /\ phase = "execute" => curr \in Nat \ {0}
    /\ phase \in {"forked", "wait"} => curr \in 1..Len(commands) /\ process # <<>>
    /\ phase \in {"execute", "forked", "wait"} => result \in [1..Len(commands) -> Results]

\* What a step of a child may change: its own record and the bytes in the pipes.
ChildKeeps(c) ==
    /\ process' \in Seq(ProcessType) /\ pipes' \in Seq(Nat)
    /\ Len(process') = Len(process) /\ Len(pipes') = Len(pipes)
    /\ \A d \in 1..Len(process) \ {c} : process'[d] = process[d]
    /\ process'[c].outFid = process[c].outFid
    /\ process'[c].writes \subseteq process[c].writes

LEMMA ProcessUpdate ==
    ASSUME process \in Seq(ProcessType), NEW c \in 1..Len(process), NEW r \in ProcessType,
           process' = [process EXCEPT ![c] = r],
           r.outFid = process[c].outFid, r.writes \subseteq process[c].writes,
           pipes' \in Seq(Nat), Len(pipes') = Len(pipes)
    PROVE  ChildKeeps(c)
<1>1. /\ process' \in Seq(ProcessType) /\ Len(process') = Len(process)
      /\ \A d \in 1..Len(process) : process'[d] = IF d = c THEN r ELSE process[d]
  BY ExceptSeq
<1> QED  BY <1>1 DEF ChildKeeps

LEMMA PipeUpdate ==
    ASSUME pipes \in Seq(Nat), NEW p \in DOMAIN pipes, NEW n \in Nat,
           pipes' = [pipes EXCEPT ![p] = n]
    PROVE  pipes' \in Seq(Nat) /\ Len(pipes') = Len(pipes)
<1>1. p \in 1..Len(pipes)  BY LenProperties
<1> QED  BY <1>1, ExceptSeq

LEMMA ChildData ==
    ASSUME ExecutorData, NEW c, Child(c)
    PROVE  c \in 1..Len(process) /\ ChildKeeps(c)
<1>1. /\ process \in Seq(ProcessType) /\ pipes \in Seq(Nat)
      /\ DOMAIN process = 1..Len(process)
  BY LenProperties DEF ExecutorData
<1>2. c \in 1..Len(process)
  BY <1>1 DEF Child, Exec, Write, BrokenPipe, Read, Finish, Running, Alive
<1>3. process[c] \in ProcessType  BY <1>1, <1>2, ElementOfSeq
<1>4. CASE Exec(c)
  <2>1. PICK opened \in BOOLEAN :
           process' = [process EXCEPT
               ![c].state = "running",
               ![c].reads = KeptReads(c),
               ![c].in = FixupStdinOut(c, opened).in, ![c].out = FixupStdinOut(c, opened).out,
               ![c].left = IF process[c].command.argv[1] \in Writers THEN Volume ELSE 0]
    BY <1>4 DEF Exec
  <2> DEFINE left == IF process[c].command.argv[1] \in Writers THEN Volume ELSE 0
             r == [process[c] EXCEPT !.state = "running", !.reads = KeptReads(c),
                     !.in = FixupStdinOut(c, opened).in, !.out = FixupStdinOut(c, opened).out,
                     !.left = left]
  <2>2. left \in Nat  BY OshAssumption
  <2>3. FixupStdinOut(c, opened).in \in Int /\ FixupStdinOut(c, opened).out \in Nat
    BY <1>3 DEF FixupStdinOut, ProcessType, NoPipe, Unreadable
  <2>4. KeptReads(c) \in SUBSET Nat  BY <1>3 DEF KeptReads, ProcessType
  <2> HIDE DEF left
  <2>5. r \in ProcessType /\ r.outFid = process[c].outFid /\ r.writes = process[c].writes
    BY <1>3, <2>2, <2>3, <2>4 DEF ProcessType
  <2>6. process' = [process EXCEPT ![c] = r]  BY <1>2, <2>1 DEF left
  <2>7. pipes' = pipes  BY <1>4 DEF Exec
  <2> HIDE DEF r
  <2> QED  BY <1>1, <1>2, <2>5, <2>6, <2>7, ProcessUpdate
<1>5. CASE Write(c)
  <2> DEFINE r == [process[c] EXCEPT !.left = process[c].left - 1]
  <2>1. process[c].left > 0 /\ process[c].left \in Nat  BY <1>3, <1>5 DEF Write, ProcessType
  <2>2. process[c].left - 1 \in Nat  BY <2>1
  <2>3. r \in ProcessType /\ r.outFid = process[c].outFid /\ r.writes = process[c].writes
    BY <1>3, <2>2 DEF ProcessType
  <2>4. process' = [process EXCEPT ![c] = r]  BY <1>2, <1>5 DEF Write
  <2>5. pipes' \in Seq(Nat) /\ Len(pipes') = Len(pipes)
    <3> DEFINE p == process[c].out
    <3>1. CASE p \in DOMAIN pipes
      <4>1. pipes[p] \in Nat  BY <1>1, <3>1, LenProperties, ElementOfSeq
      <4>2. pipes' = pipes \/ pipes' = [pipes EXCEPT ![p] = @ + 1]  BY <1>5 DEF Write
      <4>3. pipes[p] + 1 \in Nat  BY <4>1
      <4> HIDE DEF p
      <4> QED  BY <1>1, <3>1, <4>2, <4>3, PipeUpdate
    <3>2. CASE p \notin DOMAIN pipes
      <4>1. pipes' = pipes \/ pipes' = [pipes EXCEPT ![p] = @ + 1]  BY <1>5 DEF Write
      <4>2. pipes = [i \in 1..Len(pipes) |-> pipes[i]]  BY <1>1, LenProperties
      <4>3. pipes' = pipes  BY <3>2, <4>1, <4>2
      <4> QED  BY <1>1, <4>3
    <3> QED  BY <3>1, <3>2
  <2> HIDE DEF r
  <2> QED  BY <1>1, <1>2, <2>3, <2>4, <2>5, ProcessUpdate
<1>6. CASE Read(c)
  <2> DEFINE r == [process[c] EXCEPT !.left = 1]
             p == process[c].in
  <2>1. r \in ProcessType /\ r.outFid = process[c].outFid /\ r.writes = process[c].writes
    BY <1>3 DEF ProcessType
  <2>2. process' = [process EXCEPT ![c] = r]  BY <1>2, <1>6 DEF Read
  <2>3. p \in DOMAIN pipes /\ pipes[p] > 0 /\ pipes' = [pipes EXCEPT ![p] = pipes[p] - 1]
    BY <1>6 DEF Read
  <2>4. pipes[p] \in Nat  BY <1>1, <2>3, LenProperties, ElementOfSeq
  <2>5. pipes[p] - 1 \in Nat  BY <2>3, <2>4
  <2>6. pipes' \in Seq(Nat) /\ Len(pipes') = Len(pipes)  BY <1>1, <2>3, <2>5, PipeUpdate
  <2> HIDE DEF r
  <2> QED  BY <1>1, <1>2, <2>1, <2>2, <2>6, ProcessUpdate
<1>7. CASE BrokenPipe(c) \/ Finish(c)
  <2>1. PICK code \in {0, 1} : End(c, code)  BY <1>7 DEF BrokenPipe, Finish
  <2> DEFINE r == [process[c] EXCEPT !.state = "zombie", !.status = code, !.left = 0,
                                     !.reads = {}, !.writes = {}]
  <2>2. r \in ProcessType /\ r.outFid = process[c].outFid /\ r.writes = {}
    BY <1>3 DEF ProcessType
  <2>3. process' = [process EXCEPT ![c] = r]  BY <1>2, <2>1 DEF End
  <2>4. pipes' = pipes  BY <1>7 DEF BrokenPipe, Finish
  <2> HIDE DEF r
  <2> QED  BY <1>1, <1>2, <2>2, <2>3, <2>4, ProcessUpdate
<1> QED  BY <1>2, <1>4, <1>5, <1>6, <1>7 DEF Child

-----------------------------------------------------------------------------
(* The pipes.                                                              *)

\* Each pipe is the output of one child; no child holds another one's write end,
\* and the shell has none open but just after a fork.
PipeInv ==
    /\ \A c \in 1..Len(process) :
          /\ process[c].writes \subseteq {process[c].outFid} \ {NoPipe}
          /\ process[c].outFid <= Len(pipes)
    /\ \A c, d \in 1..Len(process) :
          c # d /\ process[c].outFid # NoPipe => process[c].outFid # process[d].outFid
    /\ phase # "forked" => shellWrites = {}
    /\ phase = "forked" => shellWrites \subseteq {process[Len(process)].outFid}

OshInv == ParserData /\ ExecutorData /\ PipeInv

\* A step of a child, or waitpid, changes one child.
LEMMA KeptPipes ==
    ASSUME ExecutorData, PipeInv, NEW c \in 1..Len(process), ChildKeeps(c),
           phase # "forked" => phase' # "forked",
           phase = "forked" => phase' = "forked",
           UNCHANGED shellWrites
    PROVE  PipeInv'
<1>1. Len(process) \in 1..Len(process)
  <2>1. Len(process) \in Nat  BY LenProperties DEF ExecutorData
  <2> QED  BY <2>1
<1>2. \A d \in 1..Len(process) : /\ process'[d].outFid = process[d].outFid
                                 /\ process'[d].writes \subseteq process[d].writes
  BY DEF ChildKeeps
<1>3. Len(process') = Len(process) /\ Len(pipes') = Len(pipes)  BY DEF ChildKeeps
<1>4. \A d \in 1..Len(process') :
         /\ process'[d].writes \subseteq {process'[d].outFid} \ {NoPipe}
         /\ process'[d].outFid <= Len(pipes')
  BY <1>2, <1>3 DEF PipeInv
<1>5. \A b, d \in 1..Len(process') :
         b # d /\ process'[b].outFid # NoPipe => process'[b].outFid # process'[d].outFid
  BY <1>2, <1>3 DEF PipeInv
<1>6. process'[Len(process')].outFid = process[Len(process)].outFid  BY <1>1, <1>2, <1>3
<1> QED  BY <1>4, <1>5, <1>6 DEF PipeInv

\* The program the shell is about to start.
LEMMA CurrentCommand ==
    ASSUME OshInv, InLoop
    PROVE  /\ curr \in 1..Len(commands) /\ Len(commands) \in Nat
           /\ currCommand \in CommandType
           /\ result \in [1..Len(commands) -> Results]
<1>1. Len(commands) \in Nat /\ commands \in Seq(CommandType)
  BY LenProperties DEF OshInv, ParserData
<1>2. curr \in 1..Len(commands) /\ result \in [1..Len(commands) -> Results]
  BY <1>1 DEF OshInv, ExecutorData, InLoop
<1>3. currCommand \in CommandType  BY <1>1, <1>2, ElementOfSeq DEF currCommand
<1> QED  BY <1>1, <1>2, <1>3

LEMMA ForkStep ==
    ASSUME OshInv, Fork
    PROVE  OshInv'
<1>1. /\ curr \in 1..Len(commands) /\ Len(commands) \in Nat
      /\ currCommand \in CommandType /\ result \in [1..Len(commands) -> Results]
      /\ phase = "execute" /\ shellWrites = {}
  BY CurrentCommand DEF Fork, InLoop, OshInv, PipeInv
<1>2. /\ process \in Seq(ProcessType) /\ Len(process) \in Nat
      /\ pipes \in Seq(Nat) /\ Len(pipes) \in Nat
      /\ shellReads \in SUBSET Nat /\ inputFid \in Nat
  BY LenProperties DEF OshInv, ExecutorData
<1>3. /\ phase' = "forked" /\ result' = [result EXCEPT ![curr] = "started"]
      /\ UNCHANGED <<line, tokenIndex, command, commands, rounds, status,
                     prevOutput, carried, linesRead, exitShell, curr, steps, inputFid>>
  BY DEF Fork
<1>4. PICK fid \in Nat :
         /\ process' = Append(process, NewProcess(fid))
         /\ fid # NoPipe => fid = Len(pipes) + 1
         /\ shellWrites' = {fid} \ {NoPipe}
         /\ pipes' \in Seq(Nat) /\ shellReads' \in SUBSET Nat
         /\ Len(pipes') \in Nat /\ Len(pipes) <= Len(pipes') /\ fid <= Len(pipes')
  <2>1. CASE currCommand.output = "pipe"
    <3> DEFINE fresh == Len(pipes) + 1
    <3>1. /\ pipes' = Append(pipes, 0) /\ shellReads' = shellReads \cup {fresh}
          /\ shellWrites' = shellWrites \cup {fresh}
          /\ process' = Append(process, NewProcess(fresh))
      BY <2>1 DEF Fork
    <3>2. pipes' \in Seq(Nat) /\ Len(pipes') = fresh  BY <1>2, <3>1, AppendProperties
    <3>3. fresh \in Nat /\ fresh # NoPipe /\ Len(pipes) <= fresh  BY <1>2 DEF NoPipe
    <3> HIDE DEF fresh
    <3>4. shellWrites' = {fresh} \ {NoPipe} /\ shellReads' \in SUBSET Nat
      BY <1>1, <1>2, <3>1, <3>3
    <3>5. fresh <= Len(pipes') /\ Len(pipes') \in Nat  BY <3>2, <3>3
    <3>6. fresh = Len(pipes) + 1  BY DEF fresh
    <3> QED  BY <3>1, <3>2, <3>3, <3>4, <3>5, <3>6
  <2>2. CASE currCommand.output # "pipe"
    <3>1. /\ process' = Append(process, NewProcess(NoPipe))
          /\ UNCHANGED <<pipes, shellReads, shellWrites>>
      BY <2>2 DEF Fork
    <3>2. NoPipe \in Nat /\ NoPipe <= Len(pipes) /\ Len(pipes) <= Len(pipes)
      BY <1>2 DEF NoPipe
    <3> QED  BY <1>1, <1>2, <3>1, <3>2
  <2> QED  BY <2>1, <2>2
<1>5. /\ NewProcess(fid) \in ProcessType /\ NewProcess(fid).outFid = fid
      /\ NewProcess(fid).writes = {fid} \ {NoPipe}
  <2>1. shellReads \cup ({fid} \ {NoPipe}) \in SUBSET Nat
        /\ shellWrites \cup ({fid} \ {NoPipe}) \in SUBSET Nat
        /\ NoPipe \in Nat
    BY <1>1, <1>2 DEF NoPipe
  <2> QED  BY <1>1, <1>2, <2>1 DEF NewProcess, ProcessType
<1>6. /\ process' \in Seq(ProcessType) /\ Len(process') = Len(process) + 1
      /\ \A d \in 1..Len(process) : process'[d] = process[d]
      /\ process'[Len(process) + 1] = NewProcess(fid)
  BY <1>2, <1>4, <1>5, AppendProperties
<1>7. ParserData'  BY <1>3 DEF OshInv, ParserData
<1>8. ExecutorData'
  <2>1. process' # <<>>  BY <1>2, <1>6, EmptySeq
  <2>2. result' \in [1..Len(commands) -> Results]  BY <1>1, <1>3 DEF Results
  <2>3. shellWrites' \in SUBSET Nat  BY <1>4
  <2> QED  BY <1>1, <1>3, <1>4, <1>6, <2>1, <2>2, <2>3 DEF OshInv, ExecutorData
<1>9. PipeInv'
  <2>1. \A d \in 1..Len(process) : process[d].outFid <= Len(pipes) /\ process[d].outFid \in Nat
    <3>1. \A d \in 1..Len(process) : process[d] \in ProcessType
      BY <1>2, ElementOfSeq
    <3> QED  BY <3>1 DEF OshInv, PipeInv, ProcessType
  <2>2. \A d \in 1..Len(process') : d \in 1..Len(process) \/ d = Len(process) + 1
    BY <1>2, <1>6
  <2>3. \A d \in 1..Len(process) : process'[d].outFid # NoPipe => process'[d].outFid # fid
    BY <1>2, <1>4, <1>6, <2>1
  <2>4. \A d \in 1..Len(process') :
          /\ process'[d].writes \subseteq {process'[d].outFid} \ {NoPipe}
          /\ process'[d].outFid <= Len(pipes')
    <3> TAKE d \in 1..Len(process')
    <3>1. CASE d \in 1..Len(process)
      BY <1>2, <1>4, <1>6, <2>1, <3>1 DEF OshInv, PipeInv
    <3>2. CASE d = Len(process) + 1  BY <1>4, <1>5, <1>6, <3>2
    <3> QED  BY <2>2, <3>1, <3>2
  <2>5. \A c, d \in 1..Len(process') :
          c # d /\ process'[c].outFid # NoPipe => process'[c].outFid # process'[d].outFid
    <3> TAKE c, d \in 1..Len(process')
    <3>1. CASE c \in 1..Len(process) /\ d \in 1..Len(process)
      BY <1>6, <3>1 DEF OshInv, PipeInv
    <3>2. CASE c \in 1..Len(process) /\ d = Len(process) + 1
      BY <1>5, <1>6, <2>3, <3>2
    <3>3. CASE c = Len(process) + 1 /\ d \in 1..Len(process)
      BY <1>5, <1>6, <2>3, <3>3
    <3> QED  BY <2>2, <3>1, <3>2, <3>3
  <2>6. shellWrites' \subseteq {process'[Len(process')].outFid}
    BY <1>4, <1>5, <1>6
  <2> QED  BY <1>3, <2>4, <2>5, <2>6 DEF PipeInv
<1> QED  BY <1>7, <1>8, <1>9 DEF OshInv

\* The parser works on a list that the executor has yet to see.
LEMMA ParserKeepsPipes ==
    ASSUME OshInv, ParserData', phase \notin {"execute", "forked", "wait"},
           phase' \in {"read", "list", "symbols", "done"}, linesRead' \in Nat,
           UNCHANGED <<exitShell, curr, steps, inputFid, shellReads, shellWrites,
                       pipes, process, result>>
    PROVE  OshInv'
<1>1. ExecutorData'  BY DEF OshInv, ExecutorData
<1>2. PipeInv'  BY DEF OshInv, PipeInv
<1> QED  BY <1>1, <1>2 DEF OshInv

LEMMA EndShellStep ==
    ASSUME OshInv, NEW how \in {"exited", "crashed"}, EndShell(how)
    PROVE  OshInv'
<1>1. ParserData'  BY DEF EndShell, OshInv, ParserData
<1>2. ExecutorData'  BY DEF EndShell, OshInv, ExecutorData
<1>3. PipeInv'  BY DEF EndShell, OshInv, PipeInv
<1> QED  BY <1>1, <1>2, <1>3 DEF OshInv

LEMMA LeaveListStep ==
    ASSUME OshInv, NEW exit \in BOOLEAN, phase = "execute", LeaveList(exit)
    PROVE  OshInv'
<1>1. /\ line' \in Seq(Words \cup Symbols) /\ Len(line') = 0
      /\ commands' \in Seq(CommandType)
  BY EmptySeq DEF LeaveList
<1>2. tokenIndex' \in 0..Len(line') /\ rounds' \in 0..MaxCommands
  BY <1>1, ParserAssumption DEF LeaveList
<1>3. ParserData'  BY <1>1, <1>2 DEF LeaveList, OshInv, ParserData
<1>4. ExecutorData'  BY DEF LeaveList, OshInv, ExecutorData, NoPipe
<1>5. PipeInv'  BY DEF LeaveList, OshInv, PipeInv
<1> QED  BY <1>3, <1>4, <1>5 DEF OshInv

LEMMA AdvanceStep ==
    ASSUME OshInv, phase = "wait", NEW skip \in BOOLEAN, Advance(skip),
           process' \in Seq(ProcessType), linesRead' = linesRead, exitShell' = exitShell,
           result' \in [1..Len(commands) -> Results], PipeInv'
    PROVE  OshInv'
<1>1. ParserData'  BY DEF Advance, OshInv, ParserData
<1>2. curr' \in Nat \ {0} /\ steps' \in Nat
  BY DEF Advance, OshInv, ExecutorData
<1>3. inputFid' \in Nat
  <2>1. Len(process) \in 1..Len(process)
    BY LenProperties, EmptySeq DEF OshInv, ExecutorData
  <2>2. process[Len(process)] \in ProcessType
    BY <2>1, ElementOfSeq DEF OshInv, ExecutorData
  <2> QED  BY <2>2 DEF Advance, ProcessType, NoPipe
<1>4. ExecutorData'  BY <1>2, <1>3 DEF Advance, OshInv, ExecutorData
<1> QED  BY <1>1, <1>4 DEF OshInv

\* waitpid reaps the child that has just been forked.
LEMMA Reaping ==
    ASSUME OshInv, WaitForChild
    PROVE  /\ Len(process) \in 1..Len(process)
           /\ process[Len(process)] \in ProcessType
           /\ ChildKeeps(Len(process))
           /\ result' = [result EXCEPT ![curr] =
                  IF process[Len(process)].status = 0 THEN "succeeded" ELSE "failed"]
           /\ Advance(IsSkipNextCommand(process[Len(process)].status))
           /\ linesRead' = linesRead /\ exitShell' = exitShell
           /\ phase = "wait"
<1> DEFINE child == Len(process)
           r == [process[child] EXCEPT !.state = "reaped"]
<1>1. /\ phase = "wait" /\ process' = [process EXCEPT ![child] = r]
      /\ result' = [result EXCEPT ![curr] =
             IF process[child].status = 0 THEN "succeeded" ELSE "failed"]
      /\ Advance(IsSkipNextCommand(process[child].status))
      /\ pipes' = pipes /\ linesRead' = linesRead /\ exitShell' = exitShell
  BY DEF WaitForChild, Advance
<1>2. process \in Seq(ProcessType) /\ pipes \in Seq(Nat)
  BY DEF OshInv, ExecutorData
<1>3. child \in 1..Len(process)
  BY <1>1, LenProperties, EmptySeq DEF OshInv, ExecutorData
<1>4. process[child] \in ProcessType  BY <1>2, <1>3, ElementOfSeq
<1>5. r \in ProcessType /\ r.outFid = process[child].outFid /\ r.writes = process[child].writes
  BY <1>4 DEF ProcessType
<1> HIDE DEF r
<1>6. ChildKeeps(child)  BY <1>1, <1>2, <1>3, <1>5, ProcessUpdate
<1> QED  BY <1>1, <1>3, <1>4, <1>6

LEMMA ShellStepInv ==
    ASSUME OshInv, ShellStep
    PROVE  OshInv'
<1>1. CASE Parse
  <2>1. ParserStep /\ UNCHANGED executorVars  BY <1>1 DEF Parse
  <2>2. phase \notin {"execute", "forked", "wait"}
    BY <2>1 DEF ParserStep, StartCommand, SkipBlank, RejectBlank, NextRound, RedirectInput,
       RedirectOutput, RejectAmbiguous, MakePipe, MakeConditional, SpinOnWord, ReturnList
  <2>3. ParserData' /\ phase' \in {"list", "symbols", "done"}
    BY <2>1, ParserStepData DEF OshInv
  <2> QED  BY <2>1, <2>2, <2>3, ParserKeepsPipes DEF executorVars, OshInv, ExecutorData
<1>2. CASE NothingToExecute
  <2>1. TakeList /\ UNCHANGED executorVars /\ phase = "done"
    BY <1>2 DEF NothingToExecute, TakeList
  <2>2. ParserData' /\ phase' = "read"  BY <2>1, TakeListData DEF OshInv
  <2> QED  BY <2>1, <2>2, ParserKeepsPipes DEF executorVars, OshInv, ExecutorData
<1>3. CASE BeginList
  <2>1. ParserData'  BY <1>3 DEF BeginList, OshInv, ParserData
  <2>2. result' \in [1..Len(commands) -> Results]
    BY <1>3, LenProperties DEF BeginList, OshInv, ParserData, Results
  <2>3. ExecutorData'  BY <1>3, <2>2 DEF BeginList, OshInv, ExecutorData, NoPipe
  <2>4. PipeInv'  BY <1>3 DEF BeginList, OshInv, PipeInv
  <2> QED  BY <2>1, <2>3, <2>4 DEF OshInv
<1>4. CASE EndOfList
  BY <1>4, LeaveListStep DEF EndOfList, OshInv, ExecutorData
<1>5. CASE ExecuteExit
  BY <1>5, LeaveListStep DEF ExecuteExit, InLoop
<1>6. CASE NullDereference \/ ForkFails
  BY <1>6, EndShellStep DEF NullDereference, ForkFails
<1>7. CASE Fork  BY <1>7, ForkStep
<1>8. CASE CloseWriteEnd
  <2>1. shellWrites' = {}
    BY <1>8 DEF CloseWriteEnd, OshInv, PipeInv
  <2>2. ParserData'  BY <1>8 DEF CloseWriteEnd, OshInv, ParserData
  <2>3. ExecutorData'  BY <1>8, <2>1 DEF CloseWriteEnd, OshInv, ExecutorData
  <2>4. PipeInv'  BY <1>8, <2>1 DEF CloseWriteEnd, OshInv, PipeInv
  <2> QED  BY <2>2, <2>3, <2>4 DEF OshInv
<1>9. CASE WaitForChild
  <2> DEFINE child == Len(process)
  <2>1. /\ child \in 1..Len(process) /\ ChildKeeps(child) /\ phase = "wait"
        /\ Advance(IsSkipNextCommand(process[child].status))
        /\ linesRead' = linesRead /\ exitShell' = exitShell
    BY <1>9, Reaping
  <2>2. phase' = "execute" /\ UNCHANGED shellWrites  BY <2>1 DEF Advance
  <2>3. PipeInv'  BY <2>1, <2>2, KeptPipes DEF OshInv
  <2>4. process' \in Seq(ProcessType)  BY <2>1 DEF ChildKeeps
  <2>5. result' \in [1..Len(commands) -> Results]
    <3>1. result \in [1..Len(commands) -> Results] /\ curr \in 1..Len(commands)
      BY <2>1 DEF OshInv, ExecutorData
    <3> QED  BY <1>9, <3>1, Reaping DEF Results
  <2>6. IsSkipNextCommand(process[child].status) \in BOOLEAN  BY DEF IsSkipNextCommand
  <2> QED  BY <2>1, <2>3, <2>4, <2>5, <2>6, AdvanceStep
<1>10. CASE GoOn
  <2>1. /\ phase = "wait" /\ Advance(FALSE) /\ UNCHANGED <<process, result>>
        /\ linesRead' = linesRead /\ exitShell' = exitShell
    BY <1>10 DEF GoOn, Advance
  <2>2. PipeInv'  BY <2>1 DEF Advance, OshInv, PipeInv
  <2>3. process' \in Seq(ProcessType) /\ result' \in [1..Len(commands) -> Results]
    BY <2>1 DEF OshInv, ExecutorData
  <2> QED  BY <2>1, <2>2, <2>3, AdvanceStep
<1> QED
  BY <1>1, <1>2, <1>3, <1>4, <1>5, <1>6, <1>7, <1>8, <1>9, <1>10 DEF ShellStep

LEMMA OshStepInv ==
    ASSUME OshInv, [Next]_vars
    PROVE  OshInv'
<1>1. CASE ReadCommandLine
  <2>1. ReadLine /\ linesRead' = linesRead + 1
        /\ UNCHANGED <<exitShell, curr, steps, inputFid, shellReads, shellWrites,
                       pipes, process, result>>
    BY <1>1 DEF ReadCommandLine
  <2>2. ParserData' /\ phase' = "list" /\ phase = "read"
    BY <2>1, ReadLineData DEF OshInv, ReadLine
  <2>3. linesRead' \in Nat  BY <2>1 DEF OshInv, ExecutorData
  <2> QED  BY <2>1, <2>2, <2>3, ParserKeepsPipes
<1>2. CASE LeaveShell  BY <1>2, EndShellStep DEF LeaveShell
<1>3. CASE ShellStep  BY <1>3, ShellStepInv
<1>4. ASSUME NEW c, Child(c) PROVE OshInv'
  <2>1. /\ c \in 1..Len(process) /\ ChildKeeps(c)
        /\ UNCHANGED <<parserVars, linesRead, exitShell, curr, steps, inputFid,
                       shellReads, shellWrites, result>>
    BY <1>4, ChildData DEF OshInv, Child
  <2>2. UNCHANGED <<phase, line, tokenIndex, command, commands, rounds, status,
                    prevOutput, carried>>
    BY <2>1 DEF parserVars
  <2>3. ParserData'  BY <2>2 DEF OshInv, ParserData
  <2>4. process # <<>> => process' # <<>>
    BY <2>1, EmptySeq, LenProperties DEF ChildKeeps, OshInv, ExecutorData
  <2>5. ExecutorData'  BY <2>1, <2>2, <2>4 DEF OshInv, ExecutorData, ChildKeeps
  <2>6. PipeInv'  BY <2>1, <2>2, KeptPipes DEF OshInv
  <2> QED  BY <2>3, <2>5, <2>6 DEF OshInv
<1>5. CASE UNCHANGED vars
  BY <1>5 DEF vars, parserVars, executorVars, OshInv, ParserData, ExecutorData, PipeInv
<1> QED  BY <1>1, <1>2, <1>3, <1>4, <1>5 DEF Next

\* Only the last command forked has the write end of its pipe open with the shell, and
\* each process the one of its own.
THEOREM OshInvariance == Spec => []OshInv
<1>1. Init => OshInv
  <2> SUFFICES ASSUME Init PROVE OshInv  OBVIOUS
  <2>1. ParserData /\ phase = "read"  BY InitData DEF Init
  <2>2. ExecutorData  BY <2>1, EmptySeq DEF Init, ExecutorData, NoPipe
  <2>3. PipeInv  BY <2>1, EmptySeq DEF Init, PipeInv
  <2> QED  BY <2>1, <2>2, <2>3 DEF OshInv
<1>2. OshInv /\ [Next]_vars => OshInv'  BY OshStepInv
<1> QED  BY <1>1, <1>2, PTL DEF Spec

\* No process but its writer, and the shell right after the fork, can keep the reader
\* of a pipe from the end of its input.
THEOREM WritersAreAlone == Spec => []WriteEndsPrivate
<1>1. OshInv => WriteEndsPrivate
  <2> SUFFICES ASSUME OshInv, NEW c \in DOMAIN process, NEW p \in process[c].writes
               PROVE  /\ \A d \in DOMAIN process \ {c} : p \notin process[d].writes
                      /\ p \in shellWrites => phase = "forked" /\ c = Len(process)
    BY DEF WriteEndsPrivate
  <2>1. DOMAIN process = 1..Len(process) /\ Len(process) \in Nat
    BY LenProperties DEF OshInv, ExecutorData
  <2>2. p = process[c].outFid /\ p # NoPipe  BY <2>1 DEF OshInv, PipeInv
  <2>3. \A d \in DOMAIN process \ {c} : p \notin process[d].writes
    BY <2>1, <2>2 DEF OshInv, PipeInv
  <2>4. p \in shellWrites => phase = "forked" /\ c = Len(process)
    <3> SUFFICES ASSUME p \in shellWrites PROVE phase = "forked" /\ c = Len(process)
      OBVIOUS
    <3>1. phase = "forked" /\ p = process[Len(process)].outFid  BY DEF OshInv, PipeInv
    <3>2. Len(process) \in 1..Len(process)  BY <2>1
    <3> QED  BY <2>1, <2>2, <3>1, <3>2 DEF OshInv, PipeInv
  <2> QED  BY <2>3, <2>4
<1> QED  BY <1>1, OshInvariance, PTL

-----------------------------------------------------------------------------
(* Skipping commands.                                                      *)

\* The equation that defines SucceededBy has a solution.
StatusEquation ==
    \A k \in Nat :
       SucceededBy[k] =
          IF k = 0 THEN TRUE
          ELSE IF k > 1 /\ ~DueAfter(SucceededBy[k - 1], commands[k - 1].run)
               THEN SucceededBy[k - 1]
               ELSE result[k] = "succeeded"

LEMMA SucceededByUnfold == StatusEquation
<1> DEFINE after(k, b) == IF k > 1 /\ ~DueAfter(b, commands[k - 1].run)
                          THEN b ELSE result[k] = "succeeded"
           S == BOOLEAN
           equation(f) == f = [k \in Nat |-> IF k = 0 THEN TRUE ELSE after(k, f[k - 1])]
<1>1. PICK step \in [(Nat \ {0}) \X S -> S] :
         \A k \in Nat \ {0}, b \in S : step[<<k, b>>] = after(k, b)
  <2> DEFINE next == [x \in (Nat \ {0}) \X S |-> after(x[1], x[2])]
  <2>1. next \in [(Nat \ {0}) \X S -> S]  OBVIOUS
  <2>2. \A k \in Nat \ {0}, b \in S : next[<<k, b>>] = after(k, b)  OBVIOUS
  <2> QED  BY <2>1, <2>2
<1>2. PICK base \in S : base = TRUE  OBVIOUS
<1> HIDE DEF after
<1>3. Recursions(BOOLEAN, base, step) # {}  BY RecursiveFunction
<1> HIDE DEF S
<1>4. PICK f \in [Nat -> S] :
         f[0] = base /\ \A n \in Nat \ {0} : f[n] = step[<<n, f[n - 1]>>]
  BY <1>3 DEF Recursions, S
<1>5. \A k \in Nat : f[k] = IF k = 0 THEN TRUE ELSE after(k, f[k - 1])
  <2> TAKE k \in Nat
  <2>1. CASE k = 0  BY <1>2, <1>4, <2>1
  <2>2. CASE k # 0
    <3>1. k \in Nat \ {0} /\ k - 1 \in Nat  BY <2>2
    <3>2. f[k] = step[<<k, f[k - 1]>>] /\ f[k - 1] \in S  BY <1>4, <3>1
    <3> QED  BY <1>1, <2>2, <3>1, <3>2
  <2> QED  BY <2>1, <2>2
<1>6. equation(f)  BY <1>4, <1>5
<1>7. SucceededBy = CHOOSE g : equation(g)  BY DEF SucceededBy, after
<1>8. equation(SucceededBy)  BY <1>6, <1>7
<1> QED  BY <1>8 DEF after, StatusEquation

\* The status after k commands depends on how these k fared.
LEMMA StatusAgrees ==
    ASSUME commands' = commands, NEW n \in Nat,
           \A k \in 1..n : result'[k] = result[k]
    PROVE  \A k \in 0..n : SucceededBy'[k] = SucceededBy[k]
<1>1. StatusEquation  BY SucceededByUnfold
<1>2. StatusEquation'  BY SucceededByUnfold, PTL
<1> DEFINE T == {k \in Nat : k <= n => SucceededBy'[k] = SucceededBy[k]}
<1>3. 0 \in T  BY <1>1, <1>2 DEF StatusEquation
<1>4. ASSUME NEW k \in T PROVE k + 1 \in T
  <2>1. k \in Nat /\ k + 1 \in Nat /\ k + 1 # 0 /\ (k + 1) - 1 = k  OBVIOUS
  <2>2. ASSUME k + 1 <= n PROVE SucceededBy'[k + 1] = SucceededBy[k + 1]
    <3>1. SucceededBy'[k] = SucceededBy[k] /\ result'[k + 1] = result[k + 1]
      BY <2>1, <2>2
    <3>2. SucceededBy[k + 1] =
             IF k + 1 > 1 /\ ~DueAfter(SucceededBy[k], commands[k].run)
             THEN SucceededBy[k] ELSE result[k + 1] = "succeeded"
      BY <1>1, <2>1 DEF StatusEquation
    <3>3. SucceededBy'[k + 1] =
             IF k + 1 > 1 /\ ~DueAfter(SucceededBy'[k], commands'[k].run)
             THEN SucceededBy'[k] ELSE result'[k + 1] = "succeeded"
      BY <1>2, <2>1 DEF StatusEquation, DueAfter
    <3> QED  BY <3>1, <3>2, <3>3
  <2> QED  BY <2>1, <2>2
<1>5. T \in SUBSET Nat  OBVIOUS
<1>6. T = Nat
  <2> HIDE DEF T
  <2> QED  BY <1>3, <1>4, <1>5, InductiveSet
<1> QED  BY <1>6

\* What the executor keeps while it works on a list that does not repeat an operator:
\* up to the current command those that were due have been run, from there on none.
SkipInv ==
    phase \in {"execute", "forked", "wait"} /\ ~RepeatedConditional =>
       /\ \A k \in 1..Len(commands) : k < curr => (result[k] # "none" <=> Due(k))
       /\ \A k \in 1..Len(commands) :
             k > curr \/ (k = curr /\ phase = "execute") => result[k] = "none"
       /\ phase # "execute" => result[curr] = "started"
       /\ curr <= Len(commands) => Due(curr)

\* Whether a command is due depends on those before it.
LEMMA DueAgrees ==
    ASSUME commands' = commands, NEW n \in Nat \ {0},
           \A k \in 1..(n - 1) : result'[k] = result[k]
    PROVE  \A k \in 1..n : Due(k)' <=> Due(k)
<1>1. n - 1 \in Nat  OBVIOUS
<1>2. \A k \in 0..(n - 1) : SucceededBy'[k] = SucceededBy[k]  BY <1>1, StatusAgrees
<1> TAKE k \in 1..n
<1>3. k - 1 \in 0..(n - 1)  OBVIOUS
<1>4. SucceededBy'[k - 1] = SucceededBy[k - 1]  BY <1>2, <1>3
<1> QED  BY <1>4 DEF Due, DueAfter

LEMMA SkipKept ==
    ASSUME OshInv, SkipInv, UNCHANGED <<commands, result, curr>>,
           phase' = phase \/ (phase = "forked" /\ phase' = "wait")
    PROVE  SkipInv'
<1> SUFFICES ASSUME phase' \in {"execute", "forked", "wait"}, ~RepeatedConditional'
             PROVE  SkipInv'
  BY DEF SkipInv
<1>1. phase \in {"execute", "forked", "wait"} /\ ~RepeatedConditional
  BY DEF RepeatedConditional
<1>2. ASSUME NEW k \in Nat \ {0} PROVE Due(k)' <=> Due(k)
  BY DueAgrees
<1>3. Len(commands) \in Nat /\ curr \in Nat \ {0}
  BY <1>1, LenProperties DEF OshInv, ParserData, ExecutorData
<1>4. phase' = "execute" <=> phase = "execute"  OBVIOUS
<1>5. \A k \in 1..Len(commands) : k \in Nat \ {0}  BY <1>3
<1>6. \A k \in 1..Len(commands)' : k < curr' => (result'[k] # "none" <=> Due(k)')
  BY <1>1, <1>2, <1>3, <1>5 DEF SkipInv
<1>7. curr' <= Len(commands') => Due(curr)'
  <2>1. curr' <= Len(commands') => Due(curr)  BY <1>1 DEF SkipInv
  <2>2. Due(curr)' <=> Due(curr)
    <3>1. curr \in Nat \ {0} /\ curr' = curr  BY <1>3
    <3> QED  BY <3>1, <1>3, DueAgrees DEF Due
  <2> QED  BY <2>1, <2>2
<1> QED  BY <1>1, <1>4, <1>6, <1>7 DEF SkipInv

LEMMA ForkSkips ==
    ASSUME OshInv, SkipInv, Fork
    PROVE  SkipInv'
<1> SUFFICES ASSUME ~RepeatedConditional'  PROVE SkipInv'  BY DEF SkipInv
<1>1. /\ phase = "execute" /\ phase' = "forked"
      /\ commands' = commands /\ curr' = curr
      /\ result' = [result EXCEPT ![curr] = "started"]
  BY DEF Fork, InLoop
<1>2. curr \in 1..Len(commands) /\ Len(commands) \in Nat /\ curr \in Nat \ {0}
  BY <1>1, LenProperties DEF Fork, InLoop, OshInv, ParserData, ExecutorData
<1>3. result \in [1..Len(commands) -> Results]  BY <1>1 DEF OshInv, ExecutorData
<1>4. /\ result'[curr] = "started"
      /\ \A k \in 1..Len(commands) \ {curr} : result'[k] = result[k]
  BY <1>1, <1>2, <1>3
<1>5. \A k \in 1..curr : Due(k)' <=> Due(k)
  BY <1>1, <1>2, <1>4, DueAgrees
<1>6. ~RepeatedConditional  BY <1>1 DEF RepeatedConditional
<1>7. Due(curr)'  BY <1>1, <1>2, <1>5, <1>6 DEF SkipInv, Due
<1>8. \A k \in 1..Len(commands') : k < curr' => (result'[k] # "none" <=> Due(k)')
  <2> SUFFICES ASSUME NEW k \in 1..Len(commands), k < curr
               PROVE  result'[k] # "none" <=> Due(k)'
    BY <1>1
  <2>1. result[k] # "none" <=> Due(k)  BY <1>1, <1>6 DEF SkipInv
  <2>2. k \in 1..curr /\ result'[k] = result[k]  BY <1>2, <1>4
  <2> QED  BY <1>5, <2>1, <2>2
<1>9. \A k \in 1..Len(commands') : k > curr' => result'[k] = "none"
  BY <1>1, <1>2, <1>4, <1>6 DEF SkipInv
<1> QED  BY <1>1, <1>4, <1>7, <1>8, <1>9 DEF SkipInv

\* The next command is due, or it is not and the one after it is.
LEMMA AdvanceSkips ==
    ASSUME OshInv, SkipInv, phase = "wait", phase' = "execute", commands' = commands,
           NEW how \in Results \ {"none"},
           \/ result' = [result EXCEPT ![curr] = how]
           \/ result' = result /\ how = "started",
           NEW skip \in BOOLEAN, curr' = curr + (IF skip THEN 2 ELSE 1),
           skip <=> ~DueAfter(how = "succeeded", commands[curr].run)
    PROVE  SkipInv'
<1> SUFFICES ASSUME ~RepeatedConditional'  PROVE SkipInv'  BY DEF SkipInv
<1>1. curr \in 1..Len(commands) /\ Len(commands) \in Nat /\ curr \in Nat \ {0}
  BY LenProperties DEF OshInv, ParserData, ExecutorData
<1>2. result \in [1..Len(commands) -> Results]  BY DEF OshInv, ExecutorData
<1>3. ~RepeatedConditional  BY DEF RepeatedConditional
<1>4. /\ result[curr] = "started" /\ Due(curr)
      /\ \A k \in 1..Len(commands) : k < curr => (result[k] # "none" <=> Due(k))
      /\ \A k \in 1..Len(commands) : k > curr => result[k] = "none"
  BY <1>1, <1>3 DEF SkipInv
<1>5. result'[curr] = how  BY <1>1, <1>2, <1>4
<1>6. \A k \in 1..Len(commands) \ {curr} : result'[k] = result[k]
  BY <1>1, <1>2
<1>7. \A k \in 1..curr : Due(k)' <=> Due(k)  BY <1>1, <1>6, DueAgrees
<1>8. StatusEquation'  BY SucceededByUnfold, PTL
<1>9. SucceededBy'[curr] = (how = "succeeded")
  <2>1. SucceededBy'[curr] =
           IF curr > 1 /\ ~DueAfter(SucceededBy'[curr - 1], commands'[curr - 1].run)
           THEN SucceededBy'[curr - 1] ELSE result'[curr] = "succeeded"
    BY <1>1, <1>8 DEF StatusEquation, DueAfter
  <2>2. \A k \in 0..(curr - 1) : SucceededBy'[k] = SucceededBy[k]
    <3>1. curr - 1 \in Nat /\ \A k \in 1..(curr - 1) : result'[k] = result[k]
      BY <1>1, <1>6
    <3> QED  BY <3>1, StatusAgrees
  <2>3. curr > 1 => DueAfter(SucceededBy'[curr - 1], commands'[curr - 1].run)
    BY <1>1, <1>4, <2>2 DEF Due
  <2> QED  BY <1>5, <2>1, <2>3
<1>10. \A k \in 1..curr : result'[k] # "none" <=> Due(k)'
  BY <1>1, <1>4, <1>5, <1>6, <1>7
<1>11. \A k \in 1..Len(commands) : k > curr => result'[k] = "none"
  BY <1>1, <1>4, <1>6
<1>12. PICK c \in Nat \ {0} : c = curr  BY <1>1
<1>13. c + 1 \in Nat /\ (c + 1) - 1 = c /\ c + 1 # 1  OBVIOUS
<1>14. Due(c + 1)' <=> ~skip  BY <1>9, <1>12, <1>13 DEF Due, DueAfter
<1>15. CASE ~skip
  <2>1. curr' = c + 1  BY <1>12, <1>15
  <2>2. \A k \in 1..Len(commands') : k < curr' => (result'[k] # "none" <=> Due(k)')
    BY <1>1, <1>10, <1>12, <2>1
  <2>3. \A k \in 1..Len(commands') : k > curr' \/ k = curr' => result'[k] = "none"
    BY <1>1, <1>11, <1>12, <2>1
  <2>4. Due(curr)'  BY <1>14, <1>15, <2>1 DEF Due
  <2> QED  BY <2>2, <2>3, <2>4 DEF SkipInv
<1>16. CASE skip
  <2>1. curr' = c + 2 /\ c + 2 \in Nat  BY <1>12, <1>16
  <2>2. \A k \in 1..Len(commands') : k < curr' => (result'[k] # "none" <=> Due(k)')
    <3> SUFFICES ASSUME NEW k \in 1..Len(commands), k < c + 2
                 PROVE  result'[k] # "none" <=> Due(k)'
      BY <2>1
    <3>1. CASE k \in 1..curr  BY <1>10, <3>1
    <3>2. CASE k = c + 1
      <4>1. result'[k] = "none"  BY <1>1, <1>11, <1>12, <3>2
      <4> QED  BY <1>14, <1>16, <3>2, <4>1 DEF Due
    <3> QED  BY <1>1, <1>12, <3>1, <3>2
  <2>3. \A k \in 1..Len(commands') : k > curr' \/ k = curr' => result'[k] = "none"
    BY <1>1, <1>11, <1>12, <2>1
  <2>4. ASSUME c + 2 <= Len(commands) PROVE Due(c + 2)'
    <3>1. PICK d \in Nat : d = c + 1 /\ d > 1 /\ d # 0 /\ d - 1 = c
      BY <1>13
    <3>2. SucceededBy'[d] = (how = "succeeded")
      <4>1. SucceededBy'[d] =
               IF d > 1 /\ ~DueAfter(SucceededBy'[d - 1], commands'[d - 1].run)
               THEN SucceededBy'[d - 1] ELSE result'[d] = "succeeded"
        BY <1>8, <3>1 DEF StatusEquation, DueAfter
      <4> QED  BY <1>9, <1>12, <1>16, <3>1, <4>1
    <3>3. /\ commands[c].run \in {"&&", "||"}
          /\ ~DueAfter(how = "succeeded", commands[c].run)
      BY <1>12, <1>16 DEF DueAfter
    <3>4. commands[c].run # commands[c + 1].run
      <4>1. c \in 1..(Len(commands) - 1)  BY <1>1, <2>4
      <4> QED  BY <1>3, <3>3, <4>1 DEF RepeatedConditional
    <3>5. DueAfter(how = "succeeded", commands[c + 1].run)
      BY <3>3, <3>4 DEF DueAfter
    <3>6. c + 2 # 1 /\ (c + 2) - 1 = c + 1  OBVIOUS
    <3> QED  BY <3>1, <3>2, <3>5, <3>6 DEF Due, DueAfter
  <2>5. curr' <= Len(commands') => Due(curr)'  BY <2>1, <2>4 DEF Due
  <2> QED  BY <2>2, <2>3, <2>5 DEF SkipInv
<1> QED  BY <1>15, <1>16

LEMMA SkipStep ==
    ASSUME OshInv, SkipInv, [Next]_vars
    PROVE  SkipInv'
<1>1. CASE ReadCommandLine
  BY <1>1 DEF ReadCommandLine, ReadLine, SkipInv
<1>2. CASE LeaveShell  BY <1>2 DEF LeaveShell, EndShell, SkipInv
<1>3. CASE ShellStep
  <2>1. CASE Parse
    <3>1. ParserStep  BY <2>1 DEF Parse
    <3>2. phase' \in {"list", "symbols", "done"}
      BY <3>1, ParserStepData DEF OshInv
    <3> QED  BY <3>2 DEF SkipInv
  <2>2. CASE NothingToExecute
    BY <2>2 DEF NothingToExecute, TakeList, SkipInv
  <2>3. CASE BeginList
    <3>1. /\ phase' = "execute" /\ curr' = 1 /\ commands' = commands
          /\ result' = [k \in DOMAIN commands |-> "none"]
      BY <2>3 DEF BeginList
    <3>2. DOMAIN commands = 1..Len(commands) /\ Len(commands) \in Nat
      BY LenProperties DEF OshInv, ParserData
    <3>3. Due(curr)'  BY <3>1 DEF Due
    <3> QED  BY <3>1, <3>2, <3>3 DEF SkipInv
  <2>4. CASE EndOfList \/ ExecuteExit
    BY <2>4 DEF EndOfList, ExecuteExit, LeaveList, SkipInv
  <2>5. CASE NullDereference \/ ForkFails
    BY <2>5 DEF NullDereference, ForkFails, EndShell, SkipInv
  <2>6. CASE Fork  BY <2>6, ForkSkips
  <2>7. CASE CloseWriteEnd
    BY <2>7, SkipKept DEF CloseWriteEnd
  <2>8. CASE WaitForChild
    <3> DEFINE code == process[Len(process)].status
               fared == IF code = 0 THEN "succeeded" ELSE "failed"
               skip == IsSkipNextCommand(code)
    <3>1. /\ phase = "wait" /\ phase' = "execute" /\ commands' = commands
          /\ curr' = curr + (IF skip THEN 2 ELSE 1)
          /\ result' = [result EXCEPT ![curr] = fared]
      BY <2>8, Reaping DEF Advance
    <3>2. skip \in BOOLEAN  BY DEF IsSkipNextCommand
    <3>3. skip <=> ~DueAfter(fared = "succeeded", commands[curr].run)
      BY DEF IsSkipNextCommand, DueAfter, currCommand
    <3>4. fared \in Results \ {"none"}  BY DEF Results
    <3> HIDE DEF skip, fared
    <3> QED  BY <3>1, <3>2, <3>3, <3>4, AdvanceSkips
  <2>9. CASE GoOn
    <3>1. /\ phase = "wait" /\ phase' = "execute" /\ commands' = commands
          /\ curr' = curr + 1 /\ result' = result
      BY <2>9 DEF GoOn, Advance
    <3>2. commands[curr].run \notin {"&&", "||"}
      BY <2>9 DEF GoOn, MustWait, Conditionals, currCommand
    <3>3. DueAfter("started" = "succeeded", commands[curr].run)
      BY <3>2 DEF DueAfter
    <3>4. "started" \in Results \ {"none"}  BY DEF Results
    <3>5. curr' = curr + (IF FALSE THEN 2 ELSE 1)  BY <3>1
    <3> QED  BY <3>1, <3>3, <3>4, <3>5, AdvanceSkips
  <2> QED
    BY <1>3, <2>1, <2>2, <2>3, <2>4, <2>5, <2>6, <2>7, <2>8, <2>9 DEF ShellStep
<1>4. ASSUME NEW c, Child(c) PROVE SkipInv'
  BY <1>4, SkipKept DEF Child, parserVars
<1>5. CASE UNCHANGED vars
  BY <1>5, SkipKept DEF vars, parserVars, executorVars
<1> QED  BY <1>1, <1>2, <1>3, <1>4, <1>5 DEF Next

\* The commands of a list that are run are those that a shell runs, if no operator is
\* repeated, however the commands fare and whatever the children do in between.
THEOREM SkippingIsShells == Spec => []SkipsAsShell
<1>1. Init => SkipInv  BY DEF Init, ParserInit, SkipInv
<1>2. OshInv /\ SkipInv /\ [Next]_vars => SkipInv'  BY SkipStep
<1>3. OshInv /\ SkipInv => SkipsAsShell
  <2> SUFFICES ASSUME OshInv, SkipInv, phase = "execute", ~RepeatedConditional,
                      NEW k \in 1..(curr - 1), k <= Len(commands)
               PROVE  result[k] # "none" <=> Due(k)
    BY DEF SkipsAsShell
  <2>1. curr \in Nat /\ Len(commands) \in Nat
    BY LenProperties DEF OshInv, ParserData, ExecutorData
  <2>2. k \in 1..Len(commands) /\ k < curr  BY <2>1
  <2> QED  BY <2>2 DEF SkipInv
<1> QED  BY <1>1, <1>2, <1>3, OshInvariance, PTL DEF Spec

-----------------------------------------------------------------------------
(* The shell survives all lines that follow the grammar.                   *)

GoodLine == WellFormed(line) /\ SegmentCount(line) <= MaxCommands

CrashInv ==
    /\ Understood
    /\ phase \in Executing => commands # <<>>
    /\ phase = "crashed" => ~GoodLine

\* argv is not null, and there is a next command where one is piped into.
LEMMA NoNullOnGoodLines ==
    ASSUME OshInv, CrashInv, GoodLine, NullDereference
    PROVE  FALSE
<1>1. /\ phase = "execute" /\ curr <= Len(commands)
      /\ \/ commands[curr].argv = <<>>
         \/ commands[curr].output = "pipe" /\ curr = Len(commands)
  BY DEF NullDereference, InLoop, currCommand, IsLast
<1>2. ParserData /\ Understood /\ commands # <<>> /\ curr \in Nat \ {0}
  BY <1>1 DEF OshInv, ExecutorData, CrashInv, Executing
<1>3. line \in Seq(Words \cup Symbols) /\ line # <<>>
  BY <1>2 DEF ParserData, Understood
<1>4. Regular(line) /\ Outcome
  BY <1>1, <1>2, <1>3, WellFormedRegular DEF GoodLine, Understood, Executing
<1>5. /\ Len(commands) = SegmentCount(line)
      /\ \A k \in 1..SegmentCount(line) : commands[k] = Expected(line, carried, k)
  BY <1>2, <1>4 DEF Outcome
<1>6. PICK k \in 1..SegmentCount(line) : k = curr
  <2>1. SegmentCount(line) \in Nat  BY <1>3, <1>4, RegularFacts
  <2>2. curr \in 1..SegmentCount(line)  BY <1>1, <1>2, <1>5, <2>1
  <2> QED  BY <2>2
<1>7. /\ commands[k].argv = LeadingWords(Segment(line, k))
      /\ commands[k].output = "pipe" => PipedOut(line, k)
  BY <1>5 DEF Expected, CommandOf, OutputMeant
<1>8. IsCommand(Segment(line, k)) /\ (PipedOut(line, k) => k < SegmentCount(line))
  BY DEF GoodLine, WellFormed
<1>9. LeadingWords(Segment(line, k)) # <<>>  BY <1>8, EmptySeq DEF IsCommand
<1>10. PipedOut(line, k) => k # SegmentCount(line)
  <2>1. SegmentCount(line) \in Nat  BY <1>3, <1>4, RegularFacts
  <2> QED  BY <1>8, <2>1
<1> QED  BY <1>1, <1>5, <1>6, <1>7, <1>9, <1>10

\* The executor goes on with the list, is done with it, or ends the shell.
LEMMA SameLine ==
    ASSUME CrashInv, UNCHANGED <<line, commands, status, carried>>,
           phase \in {"done"} \cup Executing, phase' \in Executing, commands # <<>>
    PROVE  CrashInv'
  BY DEF CrashInv, Understood, Outcome, Executing

LEMMA LeftLine ==
    ASSUME line' = <<>>, commands' = <<>>, status' = "success", phase' = "read"
    PROVE  CrashInv'
<1>1. ~Regular(line')  BY DEF Regular, NamesFiles
<1> QED  BY <1>1 DEF CrashInv, Understood, Executing

LEMMA EndedShell ==
    ASSUME CrashInv, NEW how \in {"exited", "crashed"}, EndShell(how),
           how = "crashed" => ~GoodLine
    PROVE  CrashInv'
<1>1. phase' = how /\ UNCHANGED <<line, commands, status>>  BY DEF EndShell
<1>2. (how \notin {"list", "symbols"}) /\ (how \notin {"done"} \cup Executing)
  BY DEF Executing
<1> QED  BY <1>1, <1>2 DEF CrashInv, Understood, GoodLine

\* All steps of the shell and of its children.
LEMMA CrashStep ==
    ASSUME OshInv, CrashInv, [Next]_vars
    PROVE  CrashInv'
<1>0. ParserData /\ Understood  BY DEF OshInv, CrashInv
<1>1. CASE ReadCommandLine
  <2>1. ReadLine  BY <1>1 DEF ReadCommandLine
  <2>2. Understood' /\ phase' = "list"  BY <1>0, <2>1, UnderstoodAtRead DEF ReadLine
  <2> QED  BY <2>2 DEF CrashInv, Executing
<1>2. CASE LeaveShell
  BY <1>2, EndedShell DEF LeaveShell
<1>3. CASE Parse
  <2>1. Understood' /\ phase' \in {"list", "symbols", "done"}
    BY <1>0, <1>3, UnderstoodStep, ParserStepData DEF Parse
  <2> QED  BY <2>1 DEF CrashInv, Executing
<1>4. CASE NothingToExecute
  BY <1>4, LeftLine DEF NothingToExecute, TakeList
<1>5. CASE BeginList
  BY <1>5, SameLine DEF BeginList, Executing
<1>6. CASE EndOfList \/ ExecuteExit
  BY <1>6, LeftLine DEF EndOfList, ExecuteExit, LeaveList
<1>7. CASE NullDereference
  <2>1. ~GoodLine  BY <1>7, NoNullOnGoodLines
  <2>2. EndShell("crashed")  BY <1>7 DEF NullDereference
  <2> QED  BY <2>1, <2>2, EndedShell
<1>8. CASE ForkFails
  BY <1>8, EndedShell DEF ForkFails
<1>9. CASE Fork \/ CloseWriteEnd \/ WaitForChild \/ GoOn
  <2>1. /\ phase \in Executing /\ phase' \in Executing
        /\ UNCHANGED <<line, commands, status, carried>>
    BY <1>9 DEF Fork, CloseWriteEnd, WaitForChild, GoOn, Advance, InLoop, Executing
  <2> QED  BY <2>1, SameLine DEF CrashInv
<1>10. ASSUME NEW c, Child(c) PROVE CrashInv'
  <2>1. UNCHANGED parserVars  BY <1>10 DEF Child
  <2> QED
    BY <2>1 DEF parserVars, CrashInv, GoodLine, Understood, Parsing, ParsedSoFar,
       AtSegment, InSegment, Outcome
<1>11. CASE UNCHANGED vars
  <2>1. UNCHANGED parserVars  BY <1>11 DEF vars
  <2> QED
    BY <2>1 DEF parserVars, CrashInv, GoodLine, Understood, Parsing, ParsedSoFar,
       AtSegment, InSegment, Outcome
<1> QED
  BY <1>1, <1>2, <1>3, <1>4, <1>5, <1>6, <1>7, <1>8, <1>9, <1>10, <1>11
  DEF Next, ShellStep

\* The null pointers that argv and next may be are followed only on lines that do not
\* follow the grammar, or have more commands than the parser takes.
THEOREM GoodLinesAreSafe == Spec => []CrashesOnlyOnMalformed
<1>1. Init => CrashInv
  <2> SUFFICES ASSUME Init PROVE CrashInv  OBVIOUS
  <2>1. line = <<>> /\ commands = <<>> /\ status = "success" /\ phase = "read"
    BY DEF Init, ParserInit
  <2>2. ~Regular(line)  BY <2>1 DEF Regular, NamesFiles
  <2> QED  BY <2>1, <2>2 DEF CrashInv, Understood, Executing
<1>2. OshInv /\ CrashInv /\ [Next]_vars => CrashInv'  BY CrashStep
<1>3. OshInv /\ CrashInv => CrashesOnlyOnMalformed
  <2> SUFFICES ASSUME OshInv, CrashInv, phase = "crashed", WellFormed(line)
               PROVE  SegmentCount(line) > MaxCommands
    BY DEF CrashesOnlyOnMalformed
  <2>1. ~(SegmentCount(line) <= MaxCommands)  BY DEF CrashInv, GoodLine
  <2>2. line \in Seq(Words \cup Symbols)  BY DEF OshInv, ParserData
  <2>3. SegmentCount(line) \in Nat  BY <2>2, CountFacts, BlankMeaning
  <2> QED  BY <2>1, <2>3, ParserAssumption
<1> QED  BY <1>1, <1>2, <1>3, OshInvariance, PTL DEF Spec
=============================================================================
