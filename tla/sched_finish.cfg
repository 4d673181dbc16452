\* The scheduler quits when it has told the last worker to end.
SPECIFICATION Spec
CONSTANTS
    Workers = {w1, w2}
    QueueSize = 2
    QuantaChoices = {1, 2}
    NoWorker = NoWorker
    PromptSignals = TRUE
    PromptEntry = TRUE
INVARIANT FinishesWhenDead
