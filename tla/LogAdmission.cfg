\* The proportions of consts/fs.rs, LOGSIZE = 3 * MAXOPBLOCKS: operations
\* of fewer than MAXOPBLOCKS blocks.
CONSTANTS
    Procs = {p1, p2, p3}
    Blocks = {b1, b2, b3, b4, b5}
    Data = {0}
    MAXOPBLOCKS = 2
    LOGSIZE = 6
    SIZE = 6
    OpBlocks = 1
SPECIFICATION FairSpec
INVARIANTS NoPanic NoLostWakeup
PROPERTIES SleeperIsWoken
