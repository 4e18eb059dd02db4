\* Two writers and a reader; counters that wrap between two cells, as 2^32 does
\* with 454 of them; a writer and the reader are killed at any moment.
CONSTANTS
    Readers = {r1}
    Writers = {w1, w2}
    Killable = {r1, w1}
    None = None
    PIPESIZE = 2
    CntMod = 5
    MaxCount = 3
    MaxBytes = 3
SPECIFICATION FairSpec
INVARIANTS BytesInOrder NoLostWakeup
PROPERTIES CloseEndsCalls
CHECK_DEADLOCK FALSE
