\* Two processes use three blocks, one of them logged, in two buffers: they
\* share the logged block, evict each other's, and run out of buffers.
CONSTANTS
    Procs = {p1, p2}
    NBUF = 2
    Blocks = {b1, b2, b3}
    Data = {d1, d2}
    Reach <- AllBlocks
    LogBlocks = {b1}
    None = None
    MaxPins = 1
    MaxRef = 3
SPECIFICATION Spec
SYMMETRY Symmetric
INVARIANTS HolderSeesLatest NoLostWakeup PinnedStays
CHECK_DEADLOCK FALSE
