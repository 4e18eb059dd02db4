\* Descriptors for two requests with one left over, which alloc3_desc's error
\* path takes, three processes, and up to eight requests: the indices run past
\* the length of the ring and to the end of their range.
CONSTANTS
    Procs = {p1, p2, p3}
    NUM = 7
    IdxMod = 9
    None = None
SPECIFICATION Spec
SYMMETRY SymProcs
INVARIANTS DescriptorsOwned DoneIsTransferred NoLostWakeup
CHECK_DEADLOCK FALSE
