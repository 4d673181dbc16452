------------------------------ MODULE MCParser ------------------------------
\* All lines of up to MaxTokens tokens over an alphabet, and of up to three over
\* all words and symbols.
EXTENDS Parser

CONSTANTS Alphabet, MaxTokens

AllLines == UNION {[1..n -> Alphabet] : n \in 0..MaxTokens}
            \cup UNION {[1..n -> Words \cup Symbols] : n \in 0..3}
=============================================================================
