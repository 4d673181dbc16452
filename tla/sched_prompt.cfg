\* Three workers compete for a queue of two and may take any time to get into it, but
\* for one that timer_handler waits for; signals are acted on within the quantum they
\* were sent in.
SPECIFICATION FairSpec
CONSTANTS
    Workers = {w1, w2, w3}
    QueueSize = 2
    QuantaChoices = {1, 2}
    NoWorker = NoWorker
    PromptSignals = TRUE
    PromptEntry = TRUE
INVARIANTS OnlyCurrentRuns QueueExact QueueBounded RunsItsQuanta NoUseAfterFree QuitOnlyWhenComplete
PROPERTIES NoOvertaking Termination
