\* Crashes at every block write; every interleaving of two operations.
CONSTANTS
    Procs = {p1, p2}
    Blocks = {b1, b2, b3}
    Data = {0, 1}
    MAXOPBLOCKS = 2
    LOGSIZE = 6
    SIZE = 6
    OpBlocks = 2
SPECIFICATION Spec
SYMMETRY SymProcsBlocks
INVARIANTS LogInv
PROPERTIES ImplementsAtomicDisk
