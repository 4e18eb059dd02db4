\* Two processes that share a File after fork, two files; batches of one
\* block, the smallest MAXOPBLOCKS that fwrite allows.  The disk runs full.
CONSTANTS
    Procs = {p1, p2}
    Files = {f1, f2}
    Objs = {o1, o2}
    None = None
    BSIZE = 2
    NDIRECT = 1
    NINDIRECT = 2
    MAXOPBLOCKS = 6
    NFILE = 2
    NBLOCK = 5
    Counts = {1, 4}
    Wanted = {4}
    Modes = {"r", "w"}
    MaxWrites = 2
    MaxReads = 1
    MaxOpens = 1
SPECIFICATION Spec
SYMMETRY Sym
INVARIANTS BlocksOwnedOnce CrashImage ContentIsFlat OffsetShared OpFits
CHECK_DEADLOCK FALSE
