\* Two CPUs, init and two more processes, of which one kills the others.
CONSTANTS
    CPUs = {c1, c2}
    NPROC = 3
    MaxPid = 3
    Killers = {1}
SPECIFICATION Spec
SYMMETRY SymCPUs
INVARIANTS ExclusiveRun ReadyOnce NoLostChild AssertsHold PidsOfLive
