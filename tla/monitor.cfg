\* The two producers and two consumers of main.c; a buffer of two slots, so that
\* it can be neither empty nor full.
SPECIFICATION FairSpec
CONSTANTS
    Producers = {p1, p2}
    Consumers = {c1, c2}
    BufferLength = 2
    NumberOfWrites = 2
    Chars = {x}
    Unset = Unset
INVARIANTS LocksExclusive FlagsMatchBuffer
           BlockedConsumersCounted AllInputRead
PROPERTIES Termination PoolSpec
