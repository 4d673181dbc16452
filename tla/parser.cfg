\* Every line of up to five tokens over two words and four symbols,
\* and of up to three over all symbols, one after the other.
SPECIFICATION ParserSpec
CONSTANTS
    Words = {"a", "f"}
    NoToken = ""
    Alphabet = {"a", "f", "<", ">", "|", "&&"}
    MaxTokens = 5
    Lines <- AllLines
    MaxCommands = 3
INVARIANTS ParsesGrammar RejectsExactlyFaulty
PROPERTIES ParserReturns
