-------------------------------- MODULE Log --------------------------------
(***************************************************************************)
(* The write-ahead log of kernel/src/fs/log.rs: begin_op, write and end_op *)
(* called by concurrent processes, commit and recover one disk-block write *)
(* at a time, and a crash (power loss or panic followed by a reboot)       *)
(* between any two of those writes.                                        *)
(*                                                                         *)
(* LOG's spin lock makes begin_op, write and each locked part of end_op    *)
(* one step.  commit runs without the lock and is one step per bwrite.     *)
(* The disk writes one block atomically.                                   *)
(***************************************************************************)
EXTENDS Naturals, Sequences, FiniteSets

CONSTANTS Procs,        \* processes that perform file-system operations
          Blocks,       \* home block numbers
          Data,         \* contents of a block
          MAXOPBLOCKS,  \* blocks begin_op reserves for each operation
          LOGSIZE,      \* capacity compiled into the kernel, header included
          SIZE,         \* capacity found in the superblock (nlog)
          OpBlocks      \* distinct blocks an operation really writes

ASSUME LogAssumption ==
    /\ IsFiniteSet(Procs)
    /\ MAXOPBLOCKS \in Nat \ {0}
    /\ LOGSIZE \in Nat
    /\ MAXOPBLOCKS < LOGSIZE      \* an operation fits into an empty log
    /\ SIZE \in Nat
    /\ OpBlocks \in Nat

VARIABLES home,         \* disk: the blocks at their home positions
          logblk,       \* disk: the data blocks of the log area
          dhead,        \* disk: the header block, the block numbers of a
                        \*       committed but not yet installed transaction
          cache,        \* what bread returns for each home block
          pins,         \* references that pin a buffer in the cache
          lh,           \* Log.lh: block numbers of the open transaction
          outstanding,  \* Log.outstanding
          committing,   \* Log.committing
          pc,           \* where each process is: "out", "sleep" (in begin_op),
                        \* "woken", "in" (inside an operation), "commit"
          wrote,        \* blocks written by the operation of each process
          stuck,        \* processes kill made RUNNABLE in their sleep, never queued
          stage,        \* the step of commit() or recover() under way
          idx,          \* its loop variable, counted from 1
          panicked      \* the kernel has panicked

disk == <<home, logblk, dhead>>
bufs == <<cache, pins>>
procs == <<pc, wrote, stuck>>
loop == <<stage, idx>>
vars == <<home, logblk, dhead, cache, pins, lh, outstanding, committing,
          pc, wrote, stuck, stage, idx, panicked>>

Slots == 1 .. (LOGSIZE - 1)
CommitStages == {"write_log", "write_head", "install", "empty_head", "finish"}
RecoverStages == {"read_head", "recover", "recover_empty"}

(* The block numbers recorded in a header. *)
Logged(h) == {h[i] : i \in 1 .. Len(h)}

Running == ~panicked /\ stage \notin RecoverStages

Init == /\ home \in [Blocks -> Data]
        /\ \E d \in Data : logblk = [i \in Slots |-> d]
        /\ dhead = <<>>
        /\ cache = home
        /\ pins = [b \in Blocks |-> 0]
        /\ lh = <<>>
        /\ outstanding = 0
        /\ committing = FALSE
        /\ pc = [p \in Procs |-> "out"]
        /\ wrote = [p \in Procs |-> {}]
        /\ stuck = {}
        /\ stage = "read_head"
        /\ idx = 1
        /\ panicked = FALSE

-----------------------------------------------------------------------------
(***************************************************************************)
(* The interface used by the file system.                                  *)
(***************************************************************************)

(* Fault: the caller's own blocks are left out of the reservation. *)
MustWaitNoReserve == committing \/ 1 + Len(lh) + outstanding * MAXOPBLOCKS > LOGSIZE

(* begin_op: the condition under which the caller must sleep. *)
MustWait == committing \/ 1 + Len(lh) + (outstanding + 1) * MAXOPBLOCKS > LOGSIZE

(* One turn of begin_op's loop, entered by a caller or after a wakeup. *)
BeginOp(p) ==
    /\ Running
    /\ p \notin stuck
    /\ pc[p] \in {"out", "woken"}
    /\ \/ /\ MustWait
          /\ pc' = [pc EXCEPT ![p] = "sleep"]
          /\ UNCHANGED outstanding
       \/ /\ ~MustWait
          /\ pc' = [pc EXCEPT ![p] = "in"]
          /\ outstanding' = outstanding + 1
    /\ UNCHANGED <<disk, bufs, lh, committing, wrote, stuck, loop, panicked>>

(* The two capacity checks of write: for any write, and for a new block. *)
NoRoom == Len(lh) + 1 >= LOGSIZE \/ Len(lh) + 1 >= SIZE
NoRoomForNew == Len(lh) + 2 >= LOGSIZE \/ Len(lh) + 2 >= SIZE

(* Fault: the recorded buffer is not pinned. *)
RecordUnpinned(b) == /\ lh' = Append(lh, b)
                     /\ UNCHANGED pins

(* write, once the block is known to be a new one: pin it and record it. *)
Record(b) == /\ lh' = Append(lh, b)
             /\ pins' = [pins EXCEPT ![b] = @ + 1]

(***************************************************************************)
(* A caller changes block b in its locked buffer and hands it to write.    *)
(* The buffer stays locked from bread to the end of write, so nobody sees  *)
(* the change before it is recorded.  A block that is already in the       *)
(* header is absorbed.                                                     *)
(***************************************************************************)
Write(p, b, d) ==
    /\ Running
    /\ pc[p] = "in" /\ p \notin stuck
    /\ b \in wrote[p] \/ Cardinality(wrote[p]) < OpBlocks
    /\ cache' = [cache EXCEPT ![b] = d]
    /\ \/ /\ NoRoom \/ outstanding < 1 \/ (b \notin Logged(lh) /\ NoRoomForNew)
          /\ panicked' = TRUE
          /\ UNCHANGED <<lh, pins, wrote>>
       \/ /\ ~NoRoom /\ outstanding >= 1 /\ b \in Logged(lh)
          /\ wrote' = [wrote EXCEPT ![p] = @ \cup {b}]
          /\ UNCHANGED <<lh, pins, panicked>>
       \/ /\ ~NoRoom /\ outstanding >= 1 /\ b \notin Logged(lh) /\ ~NoRoomForNew
          /\ Record(b)
          /\ wrote' = [wrote EXCEPT ![p] = @ \cup {b}]
          /\ UNCHANGED panicked
    /\ UNCHANGED <<disk, outstanding, committing, pc, stuck, loop>>

(* Fault: the sleepers are not woken. *)
WakeNobody(p, to) == [pc EXCEPT ![p] = to]

(* PROC_MANAGER.wakeup on LOG's channel: the new pc when p moves to `to`.  *)
(* A sleeper that was killed is not SLEEPING any more.                     *)
WakeAll(p, to) == [q \in Procs |-> IF q = p THEN to
                                   ELSE IF pc[q] = "sleep" /\ q \notin stuck THEN "woken"
                                   ELSE pc[q]]

(* Fault: commit while one other operation is still inside. *)
LastOpEarly == outstanding' <= 1

(* end_op: the last operation to end commits. *)
LastOp == outstanding' = 0

(* The first locked part of end_op. *)
EndOp(p) ==
    /\ Running
    /\ pc[p] = "in" /\ p \notin stuck
    /\ outstanding' = outstanding - 1
    /\ wrote' = [wrote EXCEPT ![p] = {}]
    /\ \/ /\ committing
          /\ panicked' = TRUE
          /\ UNCHANGED <<committing, pc, loop>>
       \/ /\ ~committing /\ LastOp
          /\ committing' = TRUE
          /\ pc' = [pc EXCEPT ![p] = "commit"]
          /\ stage' = IF Len(lh) > 0 THEN "write_log" ELSE "finish"
          /\ idx' = 1
          /\ UNCHANGED panicked
       \/ /\ ~committing /\ ~LastOp
          /\ pc' = WakeAll(p, "out")
          /\ UNCHANGED <<committing, loop, panicked>>
    /\ UNCHANGED <<disk, bufs, lh, stuck>>

-----------------------------------------------------------------------------
(***************************************************************************)
(* commit(), run by the process whose end_op was the last.                 *)
(***************************************************************************)

(* The process that commits goes on. *)
Commits == ~panicked /\ \E p \in Procs \ stuck : pc[p] = "commit"

(* Advance a loop over the header: stay in `here`, or go on to `next`. *)
Advance(here, next) ==
    /\ stage = here
    /\ stage' = IF idx < Len(lh) THEN here ELSE next
    /\ idx' = IF idx < Len(lh) THEN idx + 1 ELSE 1

(* write_log: copy one cached block into its log slot. *)
WriteLog ==
    /\ Commits
    /\ Advance("write_log", "write_head")
    /\ logblk' = [logblk EXCEPT ![idx] = cache[lh[idx]]]
    /\ UNCHANGED <<home, dhead, bufs, lh, outstanding, committing, procs, panicked>>

(* write_head: the header block reaches the disk, the transaction commits. *)
WriteHead ==
    /\ Commits
    /\ stage = "write_head"
    /\ dhead' = lh
    /\ stage' = "install"
    /\ UNCHANGED <<home, logblk, bufs, lh, outstanding, committing, procs, idx, panicked>>

(* The body of install_trans: the log's copy goes to the home block. *)
InstallBlock(b) == /\ home' = [home EXCEPT ![b] = logblk[idx]]
                   /\ cache' = [cache EXCEPT ![b] = logblk[idx]]

(* install_trans(false): one block, then its buffer is unpinned. *)
Install ==
    /\ Commits
    /\ Advance("install", "empty_head")
    /\ InstallBlock(lh[idx])
    /\ pins' = [pins EXCEPT ![lh[idx]] = @ - 1]
    /\ UNCHANGED <<logblk, dhead, lh, outstanding, committing, procs, panicked>>

(* empty_head: the header in memory and on disk is cleared. *)
EmptyHead ==
    /\ Commits
    /\ stage = "empty_head"
    /\ lh' = <<>>
    /\ dhead' = <<>>
    /\ stage' = "finish"
    /\ UNCHANGED <<home, logblk, bufs, outstanding, committing, procs, idx, panicked>>

(* The second locked part of end_op. *)
FinishCommit(p) ==
    /\ ~panicked
    /\ pc[p] = "commit" /\ p \notin stuck
    /\ stage = "finish"
    /\ committing' = FALSE
    /\ pc' = WakeAll(p, "out")
    /\ stage' = "idle"
    /\ UNCHANGED <<disk, bufs, lh, outstanding, wrote, stuck, idx, panicked>>

(* kill of a process asleep in begin_op, inside an operation or a commit   *)
(* (in bread, bwrite or a sleep lock), or elsewhere, perhaps with a buffer *)
(* or an inode locked: it is made RUNNABLE, not queued, and never runs     *)
(* again (module Proc).                                                    *)
Kill(p) ==
    /\ Running
    /\ p \notin stuck /\ pc[p] # "woken"
    /\ stuck' = stuck \cup {p}
    /\ UNCHANGED <<disk, bufs, lh, outstanding, committing, pc, wrote, loop, panicked>>

-----------------------------------------------------------------------------
(***************************************************************************)
(* Crash, and Log::init at the next boot.                                  *)
(***************************************************************************)

(* Everything but the disk is lost; an empty cache reads the home blocks. *)
Crash ==
    /\ cache' = home
    /\ pins' = [b \in Blocks |-> 0]
    /\ lh' = <<>>
    /\ outstanding' = 0
    /\ committing' = FALSE
    /\ pc' = [p \in Procs |-> "out"]
    /\ wrote' = [p \in Procs |-> {}]
    /\ stuck' = {}
    /\ stage' = "read_head"
    /\ idx' = 1
    /\ panicked' = FALSE
    /\ UNCHANGED disk

(* recover: read_head, and go on to install_trans when the log has blocks. *)
ReadHead ==
    /\ stage = "read_head"
    /\ lh' = dhead
    /\ stage' = IF Len(dhead) > 0 THEN "recover" ELSE "idle"
    /\ UNCHANGED <<disk, bufs, outstanding, committing, procs, idx, panicked>>

(* install_trans(true). *)
RecoverInstall ==
    /\ Advance("recover", "recover_empty")
    /\ InstallBlock(lh[idx])
    /\ UNCHANGED <<logblk, dhead, pins, lh, outstanding, committing, procs, panicked>>

RecoverEmpty ==
    /\ stage = "recover_empty"
    /\ lh' = <<>>
    /\ dhead' = <<>>
    /\ stage' = "idle"
    /\ UNCHANGED <<home, logblk, bufs, outstanding, committing, procs, idx, panicked>>

(* The buffer cache may recycle a buffer that nobody pins: the next bread  *)
(* reads the home block again.                                             *)
Recycle(b) ==
    /\ ~panicked
    /\ pins[b] = 0
    /\ cache' = [cache EXCEPT ![b] = home[b]]
    /\ UNCHANGED <<disk, pins, lh, outstanding, committing, procs, loop, panicked>>

Next ==
    \/ \E p \in Procs : \/ BeginOp(p)
                        \/ \E b \in Blocks, d \in Data : Write(p, b, d)
                        \/ EndOp(p)
                        \/ FinishCommit(p)
                        \/ Kill(p)
    \/ WriteLog \/ WriteHead \/ Install \/ EmptyHead
    \/ Crash \/ ReadHead \/ RecoverInstall \/ RecoverEmpty
    \/ \E b \in Blocks : Recycle(b)

Spec == Init /\ [][Next]_vars

(***************************************************************************)
(* Fairness.  A process inside an operation finishes it unless it is stuck *)
(* and a process that was woken runs again (the scheduler serves queued    *)
(* processes in FIFO order), the disk completes every request, and booting *)
(* goes on.  That an operation finishes although another process is stuck, *)
(* perhaps with a lock it needs, is not relied upon: see SleeperIsWoken.   *)
(* Nobody is obliged to start an operation, to write, to kill or to crash. *)
(***************************************************************************)
CommitStep == WriteLog \/ WriteHead \/ Install \/ EmptyHead
RecoverStep == ReadHead \/ RecoverInstall \/ RecoverEmpty

Fairness == /\ \A p \in Procs : /\ WF_vars(EndOp(p))
                                /\ WF_vars(FinishCommit(p))
                                /\ WF_vars(pc[p] = "woken" /\ BeginOp(p))
            /\ WF_vars(CommitStep)
            /\ WF_vars(RecoverStep)

FairSpec == Spec /\ Fairness

-----------------------------------------------------------------------------
(***************************************************************************)
(* Properties.                                                             *)
(***************************************************************************)

(* Every variable has its type; no more than LOGSIZE - 2 blocks are logged, *)
(* so that blocknos and the log area are never overrun.                     *)
TypeOK ==
    /\ home \in [Blocks -> Data]
    /\ logblk \in [Slots -> Data]
    /\ dhead \in Seq(Blocks) /\ Len(dhead) < LOGSIZE
    /\ cache \in [Blocks -> Data]
    /\ pins \in [Blocks -> Nat]
    /\ lh \in Seq(Blocks) /\ Len(lh) < LOGSIZE
    /\ outstanding \in Nat
    /\ committing \in BOOLEAN
    /\ pc \in [Procs -> {"out", "sleep", "woken", "in", "commit"}]
    /\ wrote \in [Procs -> SUBSET Blocks]
    /\ stuck \subseteq Procs
    /\ stage \in CommitStages \cup RecoverStages \cup {"idle"}
    /\ idx \in 1 .. LOGSIZE
    /\ panicked \in BOOLEAN

(***************************************************************************)
(* What a reboot would find: recover() copies every block of the disk's    *)
(* header from the log area and leaves the others alone.                   *)
(***************************************************************************)
Recovered ==
    [b \in Blocks |-> IF b \in Logged(dhead)
                      THEN logblk[CHOOSE i \in 1 .. Len(dhead) : dhead[i] = b]
                      ELSE home[b]]

Atomic == INSTANCE AtomicDisk
          WITH mem      <- IF stage \in RecoverStages THEN Recovered ELSE cache,
               stable   <- Recovered,
               active   <- {p \in Procs : pc[p] = "in"},
               flushing <- committing

(* The log implements an atomic disk: whatever the interleaving and        *)
(* wherever the crash, a reboot finds the contents as they were at the end *)
(* of the last commit, and never part of an operation; end_op of the last  *)
(* operation returns only when its writes are durable.                     *)
ImplementsAtomicDisk == Atomic!ASpec

(* begin_op's doc: whoever sleeps in it has a reason to, so that the       *)
(* wakeup that end_op owes it is still to come (no lost wakeup); a killed  *)
(* sleeper is past waking.                                                 *)
NoLostWakeup ==
    \A p \in Procs \ stuck : pc[p] = "sleep" => committing \/ (MustWait /\ outstanding > 0)

(* The reservation of begin_op is enough: no admitted operation that keeps *)
(* to its number of blocks runs into a panic of write or end_op.           *)
NoPanic == ~panicked

(* A sleeper of begin_op is eventually woken by some end_op, unless it was *)
(* killed in its sleep, or another process was while it slept inside an    *)
(* operation or a commit, or outside with a lock that one may wait for.    *)
SleeperIsWoken ==
    \A p \in Procs : pc[p] = "sleep" ~>
        \/ pc[p] # "sleep"
        \/ p \in stuck
        \/ \E q \in stuck : pc[q] # "sleep"

-----------------------------------------------------------------------------
(***************************************************************************)
(* The inductive invariant behind ImplementsAtomicDisk.                    *)
(***************************************************************************)
InOp == {p \in Procs : pc[p] = "in"}
Distinct(h) == \A i, j \in 1 .. Len(h) : h[i] = h[j] => i = j

(* The first n log slots hold what the cache holds. *)
Copied(n) == \A i \in 1 .. n : logblk[i] = cache[lh[i]]
(* The first n logged blocks have reached their home positions. *)
Installed(n) == \A i \in 1 .. n : home[lh[i]] = logblk[i]

(* outstanding counts the operations, and commit and recovery exclude them. *)
OpsInv == /\ outstanding = Cardinality(InOp)
          /\ committing <=> stage \in CommitStages
          /\ stage # "idle" => outstanding = 0
          /\ stage \in RecoverStages =>
                ~panicked /\ cache = home /\ \A b \in Blocks : pins[b] = 0

(* A block that is not logged is clean; a logged one is pinned exactly     *)
(* until it is installed.                                                  *)
CacheInv == ~panicked /\ stage \notin RecoverStages =>
    /\ \A b \in Blocks : b \notin Logged(lh) => cache[b] = home[b] /\ pins[b] = 0
    /\ \A i \in 1 .. Len(lh) :
         pins[lh[i]] = IF stage = "empty_head" \/ (stage = "install" /\ i < idx)
                       THEN 0 ELSE 1

(* How far each stage of commit and recovery has got. *)
StageInv ==
    /\ stage \in {"idle", "write_log", "write_head", "finish"} => dhead = <<>>
    /\ stage \in {"read_head", "finish"} => lh = <<>>
    /\ stage \in {"install", "empty_head", "recover", "recover_empty"} => dhead = lh
    /\ stage \in {"write_log", "write_head", "install", "recover"} => idx <= Len(lh)
    /\ stage \notin {"write_log", "install", "recover"} => idx = 1
    /\ stage = "write_log" => Copied(idx - 1)
    /\ stage \in {"write_head", "install", "empty_head"} => Copied(Len(lh))
    /\ stage \in {"install", "recover"} => Installed(idx - 1)
    /\ stage \in {"empty_head", "recover_empty"} => Installed(Len(lh))

(* In full: a crash anywhere leaves a log that recovers to a commit. *)
LogInv == /\ TypeOK
          /\ Distinct(lh)
          /\ Distinct(dhead)
          /\ OpsInv
          /\ CacheInv
          /\ StageInv

(* An idle log without operations is empty, so begin_op does not sleep.    *)
WakeupInv == /\ NoLostWakeup
             /\ stage = "idle" /\ outstanding = 0 => lh = <<>>
=============================================================================
