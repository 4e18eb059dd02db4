----------------------------- MODULE AtomicDisk -----------------------------
(***************************************************************************)
(* What the log layer (kernel/src/fs/log.rs) promises to the file system:  *)
(* a set of disk blocks whose surviving contents change only as a whole,   *)
(* and only to a state in which no file-system operation is in progress.   *)
(*                                                                         *)
(* mem is what the operations read and write, stable is what a reboot      *)
(* finds.  The last operation to end must flush before anyone may begin    *)
(* again, and a crash falls back to the last flush.                        *)
(***************************************************************************)
CONSTANTS Procs,    \* processes that perform file-system operations
          Blocks,   \* disk blocks outside the log area
          Data      \* contents of a block

VARIABLES mem,      \* contents as the running system sees them
          stable,   \* contents a crash would leave behind
          active,   \* processes inside an operation
          flushing  \* the last operation has ended and is being made durable

avars == <<mem, stable, active, flushing>>

AInit == /\ mem \in [Blocks -> Data]
         /\ stable = mem
         /\ active = {}
         /\ flushing = FALSE

ABegin(p) == /\ ~flushing
             /\ active' = active \cup {p}
             /\ UNCHANGED <<mem, stable, flushing>>

AWrite(p, b, d) == /\ p \in active
                   /\ mem' = [mem EXCEPT ![b] = d]
                   /\ UNCHANGED <<stable, active, flushing>>

AEnd(p) == /\ p \in active
           /\ active' = active \ {p}
           /\ flushing' = (active' = {})
           /\ UNCHANGED <<mem, stable>>

AFlush == /\ flushing
          /\ stable' = mem
          /\ UNCHANGED <<mem, active, flushing>>

ADone == /\ flushing
         /\ stable = mem
         /\ flushing' = FALSE
         /\ UNCHANGED <<mem, stable, active>>

ACrash == /\ mem' = stable
          /\ active' = {}
          /\ flushing' = FALSE
          /\ UNCHANGED stable

ANext == \/ \E p \in Procs : \/ ABegin(p)
                             \/ \E b \in Blocks, d \in Data : AWrite(p, b, d)
                             \/ AEnd(p)
         \/ AFlush
         \/ ADone
         \/ ACrash

ASpec == AInit /\ [][ANext]_avars
=============================================================================
