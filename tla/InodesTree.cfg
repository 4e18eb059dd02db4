\* Two processes remove names under open files and working directories, or
\* create and link, or free and allocate at once, or use a directory that is
\* removed meanwhile: every interleaving of the locks of meta and of inodes.
CONSTANTS
    Procs = {p1, p2}
    NINODE = 4
    NINUM = 4
    Names = {"", ".", "..", "a", "b", "d"}
    Trees <- InstTrees
    Menus <- InstMenus
SPECIFICATION Spec
SYMMETRY Sym
INVARIANTS LinksCounted RefsCounted CachedIsCurrent NoOrphan NoLockCycle NoPanic
CHECK_DEADLOCK FALSE
