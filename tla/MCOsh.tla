------------------------------- MODULE MCOsh -------------------------------
\* Lines with each connector and redirection.
EXTENDS Osh

Chosen == {
    <<"gen", "|", "cat">>,
    <<"gen", "|", "true">>,
    <<"gen", "|", "cat", "|", "true">>,
    <<"gen", "|", "cat", "|", "cat", "|", "true">>,
    <<"false", "&&", "gen", "||", "true">>,
    <<"true", "||", "false", ";", "false">>,
    <<"false", "&&", "true", "&&", "true">>,
    <<"gen", "|", "exit">>,
    <<"cat", "<", "f", "|", "cat">>,
    <<"gen", ">>", "f">>,
    <<"gen", "|", "|", "true">>,
    <<>>}

\* A pipe to nothing, and an operator where a command should be.
Faults == {<<"true", "|">>, <<"true", ";", ";", "true">>}

AllChosen == Chosen \cup Faults
=============================================================================
