\* As many frames as pages, and too few TLB entries for them.
SPECIFICATION Spec
CONSTANTS
    Pages = {a, b, c, d, e}
    NumFrames = 5
    TlbSize = 3
    DiskFaults = {"seek"}
    MaxFailures = 2
    NoFrame = NoFrame
    NoEntry = NoEntry
    Garbage = Garbage
SYMMETRY Symmetry
INVARIANT FaultsMaxOut
PROPERTY PagingSpec
