\* One CPU shared by init and two more processes.
CONSTANTS
    CPUs = {c1}
    NPROC = 3
    MaxPid = 3
    Killers = {}
SPECIFICATION FairSpec
PROPERTIES QueuedRuns
