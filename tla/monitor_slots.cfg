\* One slot as in monitor.c: the slot loaded from is never stored to.
CONSTANTS
    Producers = {p1, p2}
    Consumers = {c1, c2}
    BufferLength = 1
    NumberOfWrites = 2
    Chars = {x}
    Unset = Unset
SPECIFICATION Spec
INVARIANT RemovesWhatWasInserted
