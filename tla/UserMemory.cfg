CONSTANTS
    Meta = 1
    End = 31
    Slots = {1, 2}
    PAGE_SIZE = 2
    MAX_PAGES = 4
    IMAGE = 1
    USTACK = 2
    KCLASS = 1
    Increments <- Grow
    Others = {0, 8, 10}
    MAX_OPS = 3
    MAX_KOBJ = 1
SPECIFICATION Spec
INVARIANTS HeapSound FreesOnce
CHECK_DEADLOCK FALSE
