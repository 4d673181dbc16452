\* Fewer slots than producers, so that producers and consumers block; a buffer
\* of two slots, so that it can be neither empty nor full.
SPECIFICATION FairSpec
CONSTANTS
    Producers = {p1, p2, p3}
    Consumers = {c1, c2}
    BufferLength = 2
    NumberOfWrites = 2
INVARIANTS MutualExclusion AccessInBounds NoLostUpdate SlotsConserved
           AllInputRead
PROPERTIES Termination PoolSpec
