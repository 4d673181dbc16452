\* FIFO evicts a page whose TLB entry is still there, and the entry stays.
SPECIFICATION Spec
CONSTANTS
    Pages = {a, b, c, d}
    NumFrames = 3
    TlbSize = 2
    Strategy = "fifo"
    DiskFaults = {}
    NoFrame = NoFrame
    NoEntry = NoEntry
    Garbage = Garbage
INVARIANT ReadsBackingStore
