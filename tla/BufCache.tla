------------------------------ MODULE BufCache ------------------------------
(***************************************************************************)
(* The block cache of kernel/src/fs/bio.rs with the sleep locks of         *)
(* sleeplock.rs that protect its buffers.                                  *)
(*                                                                         *)
(* BCACHE.ctrl is a spin lock: a lookup (find_cached or recycle) and a     *)
(* release (move_if_no_ref) are one step each.  A buffer's data is under a *)
(* sleep lock, which is held across disk I/O.  Buf::pin and Buf::unpin     *)
(* read and then write the reference count without ctrl: two steps.        *)
(***************************************************************************)
EXTENDS Naturals, Sequences, FiniteSets

CONSTANTS Procs,   \* threads of control, each with at most one buffer
          NBUF,    \* buffers
          Blocks,  \* block numbers
          Data,    \* contents of a block
          Reach,   \* the blocks each process uses
          LogBlocks,  \* the blocks that are written through the log
          None,    \* no process, and the block of a buffer never used
          MaxPins, \* blocks the log records at a time
          MaxRef   \* bound on a count that lost updates drive up

ASSUME BufAssumption == /\ NBUF \in Nat \ {0}
                        /\ MaxPins \in Nat /\ MaxRef \in Nat
                        /\ IsFiniteSet(Procs)
                        /\ Reach \in [Procs -> SUBSET Blocks]
                        /\ LogBlocks \subseteq Blocks
                        /\ None \notin Procs \cup Blocks

VARIABLES lru,      \* BufLru: the buffers from head to tail
          blk,      \* BufCtrl.blockno
          refcnt,   \* BufCtrl.refcnt
          valid,    \* BufInner.valid
          data,     \* BufInner.data
          owner,    \* holder of the sleep lock of each buffer
          disk,     \* the blocks on the disk
          last,     \* the contents callers have last given to each block
          logged,   \* blocks recorded in the log and not yet installed
          pc,       \* "out", "lock", "io", "hold", "pin", "unpin", "rel"
          asleep,   \* processes asleep in SleepLock::lock
          idx,      \* Buf.index
          want,     \* Buf.blockno
          rc,       \* the reference count pin or unpin has read
          torn,     \* pin or unpin has overwritten a count changed meanwhile
          panicked

meta == <<lru, blk, refcnt, valid>>
store == <<data, disk, last>>
vars == <<lru, blk, refcnt, valid, data, owner, disk, last, logged, pc,
          asleep, idx, want, rc, torn, panicked>>

Bufs == 1 .. NBUF

(* binit: the list in index order; nothing is cached. *)
Init == /\ lru = [i \in Bufs |-> i]
        /\ blk = [i \in Bufs |-> None]
        /\ refcnt = [i \in Bufs |-> 0]
        /\ valid = [i \in Bufs |-> FALSE]
        /\ disk \in [Blocks -> Data]
        /\ last = disk
        /\ \E d \in Data : data = [i \in Bufs |-> d]
        /\ owner = [i \in Bufs |-> None]
        /\ logged = {}
        /\ pc = [p \in Procs |-> "out"]
        /\ asleep = {}
        /\ idx = [p \in Procs |-> 1]
        /\ want = [p \in Procs |-> None]
        /\ rc = [p \in Procs |-> 0]
        /\ torn = FALSE /\ panicked = FALSE

Goto(p, to) == pc' = [pc EXCEPT ![p] = to]

-----------------------------------------------------------------------------
(***************************************************************************)
(* bget.                                                                   *)
(***************************************************************************)

(* Fault: a buffer nobody refers to is not found. *)
CachedInUse(b) == {i \in Bufs : blk[i] = b /\ refcnt[i] > 0}

(* The buffers find_cached accepts. *)
Cached(b) == {i \in Bufs : blk[i] = b}

(* The first of them from the head. *)
FirstCached(b) == LET k == CHOOSE k \in 1 .. NBUF :
                              /\ lru[k] \in Cached(b)
                              /\ \A j \in 1 .. (k - 1) : lru[j] \notin Cached(b)
                  IN lru[k]

(* The buffers recycle accepts. *)
Unused == {i \in Bufs : refcnt[i] = 0}

(* The first unused buffer from the tail. *)
Victim == LET k == CHOOSE k \in 1 .. NBUF :
                       /\ lru[k] \in Unused
                       /\ \A j \in (k + 1) .. NBUF : lru[j] \notin Unused
          IN lru[k]

(* bget: valid.store(false) on the recycled buffer, before ctrl is dropped. *)
Invalidated(i) == [valid EXCEPT ![i] = FALSE]

(* The reference count after find_cached has found a buffer. *)
Found(n) == n + 1

(* Both paths of bget up to drop(ctrl), and its panic. *)
Bget(p, b) ==
    /\ ~panicked
    /\ pc[p] = "out"
    /\ want' = [want EXCEPT ![p] = b]
    /\ \/ /\ Cached(b) # {} /\ refcnt[FirstCached(b)] < MaxRef
          /\ idx' = [idx EXCEPT ![p] = FirstCached(b)]
          /\ refcnt' = [refcnt EXCEPT ![FirstCached(b)] = Found(@)]
          /\ Goto(p, "lock")
          /\ UNCHANGED <<blk, valid, panicked>>
       \/ /\ Cached(b) = {}
          /\ panicked' = (Unused = {})
          /\ IF Unused = {} THEN UNCHANGED <<idx, blk, refcnt, valid, pc>>
             ELSE /\ idx' = [idx EXCEPT ![p] = Victim]
                  /\ blk' = [blk EXCEPT ![Victim] = b]
                  /\ refcnt' = [refcnt EXCEPT ![Victim] = @ + 1]
                  /\ valid' = Invalidated(Victim)
                  /\ Goto(p, "lock")
    /\ UNCHANGED <<lru, store, owner, logged, asleep, rc, torn>>

(***************************************************************************)
(* SleepLock::lock: one turn of its loop.  It sleeps on the address of     *)
(* `locked` while somebody else holds the lock.                            *)
(***************************************************************************)
Lock(p) ==
    LET i == idx[p] IN
    /\ ~panicked
    /\ pc[p] = "lock" /\ p \notin asleep
    /\ \/ /\ owner[i] # None
          /\ asleep' = asleep \cup {p}
          /\ UNCHANGED <<owner, pc>>
       \/ /\ owner[i] = None
          /\ owner' = [owner EXCEPT ![i] = p]
          /\ Goto(p, IF valid[i] THEN "hold" ELSE "io")
          /\ UNCHANGED asleep
    /\ UNCHANGED <<meta, store, logged, idx, want, rc, torn, panicked>>

(* bread: DISK.rw(b, false) and valid.store(true). *)
BreadIo(p) ==
    LET i == idx[p] IN
    /\ ~panicked
    /\ pc[p] = "io"
    /\ data' = [data EXCEPT ![i] = disk[want[p]]]
    /\ valid' = [valid EXCEPT ![i] = TRUE]
    /\ Goto(p, "hold")
    /\ UNCHANGED <<lru, blk, refcnt, disk, last, owner, logged, asleep, idx, want,
                   rc, torn, panicked>>

-----------------------------------------------------------------------------
(***************************************************************************)
(* What a holder does with its buffer.                                     *)
(***************************************************************************)

(* Change the data and bwrite it, as the log does with its own blocks. *)
Bwrite(p, d) ==
    /\ ~panicked
    /\ pc[p] = "hold" /\ want[p] \notin LogBlocks
    /\ data' = [data EXCEPT ![idx[p]] = d]
    /\ last' = [last EXCEPT ![want[p]] = d]
    /\ disk' = [disk EXCEPT ![want[p]] = d]
    /\ UNCHANGED <<meta, owner, logged, pc, asleep, idx, want, rc, torn, panicked>>

(* LOG.write and the install loop are the only callers of pin and unpin;   *)
(* the log lets one of them run at a time.                                 *)
NoPinning == \A q \in Procs : pc[q] \notin {"pin", "unpin"}

(* Change the data and give it to LOG.write, which absorbs a block it has  *)
(* already and otherwise pins the buffer: here up to pin's read of refcnt. *)
LogWrite(p, d) ==
    /\ ~panicked
    /\ pc[p] = "hold" /\ want[p] \in LogBlocks
    /\ NoPinning
    /\ want[p] \in logged \/ Cardinality(logged) < MaxPins
    /\ data' = [data EXCEPT ![idx[p]] = d]
    /\ last' = [last EXCEPT ![want[p]] = d]
    /\ \/ /\ want[p] \in logged
          /\ UNCHANGED <<rc, pc>>
       \/ /\ want[p] \notin logged /\ refcnt[idx[p]] < MaxRef
          /\ rc' = [rc EXCEPT ![p] = refcnt[idx[p]]]
          /\ Goto(p, "pin")
    /\ UNCHANGED <<meta, disk, owner, logged, asleep, idx, want, torn, panicked>>

(* Fault: pin stores what it has read. *)
PinnedSame(n) == n

(* The count pin stores. *)
Pinned(n) == n + 1

(* The count p is about to store loses what others have counted since p    *)
(* has read it.                                                            *)
Overwrites(p) == refcnt[idx[p]] # rc[p]

(* pin writes the count. *)
PinStore(p) ==
    /\ ~panicked
    /\ pc[p] = "pin"
    /\ refcnt' = [refcnt EXCEPT ![idx[p]] = Pinned(rc[p])]
    /\ torn' = (torn \/ Overwrites(p))
    /\ logged' = logged \cup {want[p]}
    /\ Goto(p, "hold")
    /\ UNCHANGED <<lru, blk, valid, store, owner, asleep, idx, want, rc, panicked>>

(* The install loop: bwrite the recorded block, then unpin's read and its  *)
(* check.                                                                  *)
Install(p) ==
    LET i == idx[p] IN
    /\ ~panicked
    /\ pc[p] = "hold" /\ want[p] \in logged
    /\ NoPinning
    /\ disk' = [disk EXCEPT ![want[p]] = data[i]]
    /\ rc' = [rc EXCEPT ![p] = refcnt[i]]
    /\ panicked' = (refcnt[i] <= 1)
    /\ Goto(p, "unpin")
    /\ UNCHANGED <<meta, data, last, owner, logged, asleep, idx, want, torn>>

(* The count unpin stores. *)
Unpinned(n) == n - 1

UnpinStore(p) ==
    /\ ~panicked
    /\ pc[p] = "unpin"
    /\ refcnt' = [refcnt EXCEPT ![idx[p]] = Unpinned(rc[p])]
    /\ torn' = (torn \/ Overwrites(p))
    /\ logged' = logged \ {want[p]}
    /\ Goto(p, "hold")
    /\ UNCHANGED <<lru, blk, valid, store, owner, asleep, idx, want, rc, panicked>>

-----------------------------------------------------------------------------
(***************************************************************************)
(* Dropping a Buf.                                                         *)
(***************************************************************************)

(* Fault: SleepLock::unlock wakes nobody. *)
WakeNobody(i) == asleep

(* wakeup on the address of the lock of buffer i. *)
Wake(i) == {q \in asleep : idx[q] # i}

(* SleepLock::unlock. *)
Unlock(p) ==
    /\ ~panicked
    /\ pc[p] = "hold"
    /\ owner' = [owner EXCEPT ![idx[p]] = None]
    /\ asleep' = Wake(idx[p])
    /\ Goto(p, "rel")
    /\ UNCHANGED <<meta, store, logged, idx, want, rc, torn, panicked>>

(* Buffer i moves to the head of the list, and those before it by one. *)
ToFront(i) == LET k == CHOOSE k \in Bufs : lru[k] = i
              IN [j \in Bufs |-> IF j = 1 THEN i ELSE IF j <= k THEN lru[j - 1] ELSE lru[j]]

(* brelse: move_if_no_ref.  The subtraction is checked. *)
Brelse(p) ==
    LET i == idx[p] IN
    /\ ~panicked
    /\ pc[p] = "rel"
    /\ panicked' = (refcnt[i] = 0)
    /\ refcnt' = [refcnt EXCEPT ![i] = IF @ = 0 THEN 0 ELSE @ - 1]
    /\ lru' = IF refcnt[i] = 1 THEN ToFront(i) ELSE lru
    /\ Goto(p, "out")
    /\ UNCHANGED <<blk, valid, store, owner, logged, asleep, idx, want, rc, torn>>

-----------------------------------------------------------------------------
Next == \E p \in Procs :
            \/ \E b \in Reach[p] : Bget(p, b)
            \/ Lock(p) \/ BreadIo(p)
            \/ \E d \in Data : Bwrite(p, d) \/ LogWrite(p, d)
            \/ PinStore(p) \/ Install(p) \/ UnpinStore(p)
            \/ Unlock(p) \/ Brelse(p)

Spec == Init /\ [][Next]_vars

-----------------------------------------------------------------------------
(***************************************************************************)
(* Properties.                                                             *)
(***************************************************************************)

(* Every variable has its type; the list holds every buffer once. *)
TypeOK ==
    /\ lru \in [Bufs -> Bufs] /\ \A i \in Bufs : \E k \in Bufs : lru[k] = i
    /\ blk \in [Bufs -> Blocks \cup {None}]
    /\ refcnt \in [Bufs -> Nat]
    /\ valid \in [Bufs -> BOOLEAN]
    /\ data \in [Bufs -> Data] /\ disk \in [Blocks -> Data] /\ last \in [Blocks -> Data]
    /\ owner \in [Bufs -> Procs \cup {None}]
    /\ logged \subseteq Blocks
    /\ pc \in [Procs -> {"out", "lock", "io", "hold", "pin", "unpin", "rel"}]
    /\ asleep \subseteq Procs
    /\ idx \in [Procs -> Bufs]
    /\ want \in [Procs -> Blocks \cup {None}]
    /\ rc \in [Procs -> Nat]
    /\ torn \in BOOLEAN /\ panicked \in BOOLEAN

Referring(i) == {p \in Procs : pc[p] # "out" /\ idx[p] = i}
Pins(i) == {b \in logged : blk[i] = b}

(* Whoever holds a buffer holds the block it asked for, with the contents  *)
(* the last holder left there, and no other buffer has that block: no      *)
(* update is lost by an eviction, by a stale read, or because the data of  *)
(* a buffer is locked only after ctrl has been released.  It lasts until   *)
(* pin or unpin, which do not take ctrl, overwrite a count that a bget or  *)
(* brelse has changed under them; the interleavings in which nobody        *)
(* touches the count between the two halves are all covered.               *)
HolderSeesLatest ==
    ~torn =>
        /\ \A i, j \in Bufs : blk[i] = blk[j] /\ blk[i] # None => i = j
        /\ \A p \in Procs : pc[p] = "hold" =>
              /\ owner[idx[p]] = p
              /\ blk[idx[p]] = want[p]
              /\ data[idx[p]] = last[want[p]]

(* refcnt is the number of Bufs that refer to a buffer plus its pin, and   *)
(* LOG.write pins a buffer "以防止该块在提交前被驱逐或回收" (so that it is   *)
(* not evicted or recycled before the commit): a recorded block stays      *)
(* cached, with its contents.  The only panic is bget's, and only when     *)
(* every single buffer is held or pinned: those of unpin and               *)
(* move_if_no_ref stay silent.  Nothing but the unlocked update of the     *)
(* count in pin and unpin can end this.                                    *)
PinnedStays ==
    ~torn =>
        /\ \A i \in Bufs :
              refcnt[i] = Cardinality(Referring(i)) + Cardinality(Pins(i))
        /\ \A b \in logged :
              \E i \in Bufs : blk[i] = b /\ valid[i] /\ data[i] = last[b]
        /\ panicked => \A i \in Bufs : refcnt[i] > 0

(* A sleeper waits for a lock that somebody holds and will release. *)
NoLostWakeup == \A p \in asleep : owner[idx[p]] # None
=============================================================================
