\* A worker takes longer than a quantum to get into a queue that timer_handler waits
\* for: the next SIGALRM finds the queue empty.
SPECIFICATION Spec
CONSTANTS
    Workers = {w1, w2}
    QueueSize = 1
    QuantaChoices = {1, 2}
    NoWorker = NoWorker
    PromptSignals = TRUE
    PromptEntry = FALSE
SYMMETRY Symmetry
INVARIANT QuitOnlyWhenComplete
