\* LRU with just as many frames as keep a page in memory for as long as its
\* entry is in the TLB, and one page too many for them.
SPECIFICATION Spec
CONSTANTS
    Pages = {a, b, c, d, e, f}
    NumFrames = 5
    TlbSize = 3
    Strategy = "lru"
    DiskFaults = {"seek"}
    NoFrame = NoFrame
    NoEntry = NoEntry
    Garbage = Garbage
SYMMETRY Symmetry
INVARIANTS FramesOwned TableCoherent TlbCoherent TlbUnique
           ReadsBackingStore
PROPERTY PagingSpec
