\* Two CPUs share two processes; traps do not nest.
CONSTANTS
    CPUs = {c0, c1}
    CPU0 = c0
    Procs = {p1, p2}
    None = None
    MaxDepth = 1
SPECIFICATION Spec
INVARIANTS LocksExclude NoPanic HandlerStaysOff
