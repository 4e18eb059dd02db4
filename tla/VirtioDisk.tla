----------------------------- MODULE VirtioDisk -----------------------------
(***************************************************************************)
(* The virtio block driver of kernel/src/driver/virtio_disk.rs: processes  *)
(* in DISK.rw, the interrupt handler Disk.intr, and the device behind the  *)
(* two rings.                                                              *)
(*                                                                         *)
(* DISK's spin lock makes what rw does between two sleeps one step.  intr  *)
(* holds the lock from its acknowledgement of the interrupt to the end of  *)
(* its loop; the device, which takes no lock, moves at any time.           *)
(***************************************************************************)
EXTENDS Naturals, Sequences, FiniteSets

CONSTANTS Procs,   \* processes doing disk I/O, each with its own locked buffer
          NUM,     \* descriptors
          IdxMod,  \* values of the 16-bit ring indices (2^16)
          None     \* no process

ASSUME DiskAssumption == /\ NUM \in Nat /\ NUM >= 3
                         /\ IdxMod \in Nat \ {0}
                         /\ None \notin Procs

VARIABLES desc,     \* descriptors: next = the next of its chain or End,
                    \*              addr = whose buffer it points to, or None
          free,     \* the free descriptors
          info,     \* per head descriptor: disk, chan = buf_channel, status
          ops,      \* per head descriptor: whose header (type, sector) it is
          avail,    \* available ring: ring, idx
          used,     \* used ring: ring, idx
          usedIdx,  \* Disk.used_idx
          pc,       \* "out", "alloc" (sleeping for descriptors), "disk"
          asleep,   \* processes asleep at their pc
          head,     \* idx[0] of the request of each process
          seen,     \* device: available entries it has taken
          inflight, \* device: requests being served
          moved,    \* device: processes whose buffer has been transferred
          irq,      \* device: its interrupt is asserted
          intrRuns, \* intr runs and holds DISK
          misfreed, \* alloc3_desc has freed other descriptors than it took
          panicked  \* reason of a kernel panic, or "no"

drv == <<desc, free, info, ops, misfreed>>
rings == <<avail, used, usedIdx>>
dev == <<seen, inflight, moved>>
procs == <<pc, asleep, head>>
vars == <<desc, free, info, ops, avail, used, usedIdx, pc, asleep, head,
          seen, inflight, moved, irq, intrRuns, misfreed, panicked>>

Descs == 0 .. (NUM - 1)
End == NUM              \* VRING_DESC_F_NEXT is clear
NoDesc == [next |-> End, addr |-> None]
Least(S) == CHOOSE s \in S : \A t \in S : s <= t

Init == /\ desc = [i \in Descs |-> NoDesc]
        /\ free = Descs
        /\ info = [i \in Descs |-> [disk |-> FALSE, chan |-> None, status |-> 0]]
        /\ ops = [i \in Descs |-> None]
        /\ avail = [ring |-> [i \in Descs |-> 0], idx |-> 0]
        /\ used = [ring |-> [i \in Descs |-> 0], idx |-> 0]
        /\ usedIdx = 0
        /\ pc = [p \in Procs |-> "out"]
        /\ asleep = {}
        /\ head = [p \in Procs |-> 0]
        /\ seen = 0 /\ inflight = {} /\ moved = {}
        /\ irq = FALSE /\ intrRuns = FALSE
        /\ misfreed = FALSE /\ panicked = "no"

(* DISK is free and the kernel alive: a process may be in rw's lock. *)
CanLock == ~intrRuns /\ panicked = "no"

(* idx += 1 on a u16; Overflows says when the checked addition panics. *)
Bump(i) == (i + 1) % IdxMod
Overflows(i) == i + 1 = IdxMod

-----------------------------------------------------------------------------
(***************************************************************************)
(* Descriptors.                                                            *)
(***************************************************************************)
Cleared(S) == [i \in Descs |-> IF i \in S THEN NoDesc ELSE desc[i]]

(* wakeup on &free[0]: nobody waits for descriptors any more. *)
WakeAlloc == {p \in asleep : pc[p] # "alloc"}

(* The descriptors alloc3_desc's error path frees after n of the three     *)
(* alloc_desc calls have succeeded: those numbered 0 .. n-1, which need    *)
(* not be the ones it took.                                                *)
Undone(n) == 0 .. (n - 1)

(* The descriptor free_chain has reached after n links from i, or End. *)
ChainAt(i) ==
    LET link == [d \in 0 .. NUM |-> IF d = End THEN End ELSE desc[d].next]
        at[n \in 0 .. NUM] == IF n = 0 THEN i ELSE link[at[n - 1]]
    IN at

InChain(i) == LET at == ChainAt(i) IN {at[n] : n \in 0 .. NUM} \ {End}

(* Fault: only the head descriptor is freed. *)
FreedHead(i) == {i}

(* The descriptors free_chain frees. *)
Freed(i) == InChain(i)

(* free_desc panics on a descriptor that is free already: one of the chain *)
(* was, or the chain comes back to its start.                              *)
FreePanics(i) == InChain(i) \cap free # {} \/ ChainAt(i)[NUM] # End

-----------------------------------------------------------------------------
(***************************************************************************)
(* rw.                                                                     *)
(***************************************************************************)

(* Too few descriptors: alloc3_desc takes all that are free, its error     *)
(* path frees some and wakes the waiters, and the caller sleeps.           *)
AllocFails(p) ==
    LET n == Cardinality(free) IN
    /\ n < 3
    /\ free' = Undone(n)
    /\ desc' = Cleared(Undone(n))
    /\ misfreed' = (misfreed \/ Undone(n) # free)
    /\ asleep' = (IF n = 0 THEN asleep ELSE WakeAlloc) \cup {p}
    /\ pc' = [pc EXCEPT ![p] = "alloc"]
    /\ UNCHANGED <<info, ops, rings, head, moved, panicked>>

(* Fault: info[idx[0]].disk is not set. *)
InfoNotOwned(p) == [disk |-> FALSE, chan |-> p, status |-> 255]

(* What rw records about the request under its head descriptor. *)
InfoOf(p) == [disk |-> TRUE, chan |-> p, status |-> 255]

(***************************************************************************)
(* Three descriptors, the lowest free ones: format them, publish the head  *)
(* in the available ring, notify the device, and sleep on the buffer until *)
(* info.disk is cleared.  avail.idx += 1 is checked arithmetic.            *)
(***************************************************************************)
Submit(p) ==
    LET i == Least(free)
        j == Least(free \ {i})
        k == Least(free \ {i, j}) IN
    /\ Cardinality(free) >= 3
    /\ free' = free \ {i, j, k}
    /\ ops' = [ops EXCEPT ![i] = p]
    /\ desc' = [desc EXCEPT ![i] = [next |-> j, addr |-> None],
                            ![j] = [next |-> k, addr |-> p],
                            ![k] = [next |-> End, addr |-> None]]
    /\ info' = [info EXCEPT ![i] = InfoOf(p)]
    /\ avail' = [ring |-> [avail.ring EXCEPT ![avail.idx % NUM] = i],
                 idx |-> Bump(avail.idx)]
    /\ panicked' = IF Overflows(avail.idx) THEN "index" ELSE panicked
    /\ head' = [head EXCEPT ![p] = i]
    /\ pc' = [pc EXCEPT ![p] = "disk"]
    /\ asleep' = asleep \cup {p}
    /\ moved' = moved \ {p}
    /\ UNCHANGED <<used, usedIdx, misfreed>>

(* rw is called, or the caller wakes up to look for descriptors again. *)
Rw(p) ==
    /\ CanLock
    /\ pc[p] \in {"out", "alloc"} /\ p \notin asleep
    /\ AllocFails(p) \/ Submit(p)
    /\ UNCHANGED <<seen, inflight, irq, intrRuns>>

(* info[idx[0]].disk, the condition of rw's last loop. *)
Owned(p) == info[head[p]].disk

(***************************************************************************)
(* rw wakes up: sleep again while the device owns the buffer; else take    *)
(* the channel back, free the chain, and wake who waits for descriptors.   *)
(***************************************************************************)
RwDone(p) ==
    LET h == head[p] IN
    /\ CanLock
    /\ pc[p] = "disk" /\ p \notin asleep
    /\ IF Owned(p)
       THEN /\ asleep' = asleep \cup {p}
            /\ UNCHANGED <<info, free, desc, pc, panicked>>
       ELSE /\ info' = [info EXCEPT ![h].chan = None]
            /\ panicked' = IF info[h].chan # p THEN "channel"
                           ELSE IF FreePanics(h) THEN "free" ELSE panicked
            /\ free' = free \cup Freed(h)
            /\ desc' = Cleared(Freed(h))
            /\ asleep' = WakeAlloc
            /\ pc' = [pc EXCEPT ![p] = "out"]
    /\ UNCHANGED <<ops, rings, head, dev, irq, intrRuns, misfreed>>

-----------------------------------------------------------------------------
(***************************************************************************)
(* The device (external): it takes available entries in order, reads the   *)
(* chain, and completes requests in any order.                             *)
(***************************************************************************)
DevTake ==
    /\ panicked = "no"
    /\ seen # avail.idx
    /\ LET h == avail.ring[seen % NUM] IN
       inflight' = inflight \cup
           {[head |-> h, op |-> ops[h],
             buf |-> IF desc[h].next = End THEN None ELSE desc[desc[h].next].addr]}
    /\ seen' = (seen + 1) % IdxMod
    /\ UNCHANGED <<drv, rings, procs, moved, irq, intrRuns, panicked>>

DevComplete(r) ==
    /\ panicked = "no"
    /\ r \in inflight
    /\ inflight' = inflight \ {r}
    /\ moved' = IF r.op = r.buf THEN moved \cup {r.buf} ELSE moved
    /\ info' = [info EXCEPT ![r.head].status = 0]
    /\ used' = [ring |-> [used.ring EXCEPT ![used.idx % NUM] = r.head],
                idx |-> (used.idx + 1) % IdxMod]
    /\ irq' = TRUE
    /\ UNCHANGED <<desc, free, ops, misfreed, avail, usedIdx, procs, seen, intrRuns, panicked>>

-----------------------------------------------------------------------------
(***************************************************************************)
(* intr.                                                                   *)
(***************************************************************************)

(* The interrupt is acknowledged before the used ring is read. *)
IntrAck ==
    /\ CanLock
    /\ irq
    /\ irq' = FALSE
    /\ intrRuns' = TRUE
    /\ UNCHANGED <<drv, rings, procs, dev, panicked>>

(* The used entry the handler is at. *)
UsedHead == used.ring[usedIdx % NUM]

(* wakeup on a buffer's address: its process, if it sleeps there. *)
WakeBuf(ch) == {p \in asleep : ~(pc[p] = "disk" /\ p = ch)}

(* One turn of intr's loop. *)
IntrStep ==
    LET h == UsedHead IN
    /\ intrRuns /\ panicked = "no"
    /\ usedIdx # used.idx
    /\ panicked' = IF info[h].status # 0 THEN "status"
                   ELSE IF info[h].chan = None THEN "channel"
                   ELSE IF Overflows(usedIdx) THEN "index" ELSE panicked
    /\ info' = [info EXCEPT ![h].disk = FALSE]
    /\ asleep' = WakeBuf(info[h].chan)
    /\ usedIdx' = Bump(usedIdx)
    /\ UNCHANGED <<desc, free, ops, misfreed, avail, used, pc, head, dev, irq, intrRuns>>

(* Fault: the handler may leave with entries in the used ring. *)
IntrEndEarly ==
    /\ intrRuns /\ panicked = "no"
    /\ intrRuns' = FALSE
    /\ UNCHANGED <<drv, rings, procs, dev, irq, panicked>>

(* The used ring is empty: intr returns and DISK is unlocked. *)
IntrEnd ==
    /\ intrRuns /\ panicked = "no"
    /\ usedIdx = used.idx
    /\ intrRuns' = FALSE
    /\ UNCHANGED <<drv, rings, procs, dev, irq, panicked>>

Intr == IntrAck \/ IntrStep \/ IntrEnd

-----------------------------------------------------------------------------
Next == \/ \E p \in Procs : Rw(p) \/ RwDone(p)
        \/ DevTake
        \/ \E r \in inflight : DevComplete(r)
        \/ Intr

Spec == Init /\ [][Next]_vars

-----------------------------------------------------------------------------
(***************************************************************************)
(* Properties.                                                             *)
(***************************************************************************)

(* Every variable has its type. *)
TypeOK ==
    /\ desc \in [Descs -> [next : Descs \cup {End}, addr : Procs \cup {None}]]
    /\ free \subseteq Descs
    /\ info \in [Descs -> [disk : BOOLEAN, chan : Procs \cup {None}, status : {0, 255}]]
    /\ ops \in [Descs -> Procs \cup {None}]
    /\ avail \in [ring : [Descs -> Descs], idx : 0 .. (IdxMod - 1)]
    /\ used \in [ring : [Descs -> Descs], idx : 0 .. (IdxMod - 1)]
    /\ usedIdx \in 0 .. (IdxMod - 1) /\ seen \in 0 .. (IdxMod - 1)
    /\ pc \in [Procs -> {"out", "alloc", "disk"}]
    /\ asleep \subseteq Procs
    /\ head \in [Procs -> Descs]
    /\ inflight \subseteq [head : Descs, op : Procs \cup {None}, buf : Procs \cup {None}]
    /\ moved \subseteq Procs
    /\ irq \in BOOLEAN /\ intrRuns \in BOOLEAN /\ misfreed \in BOOLEAN
    /\ panicked \in {"no", "index", "free", "channel", "status"}

Submitted == {p \in Procs : pc[p] = "disk"}

(* The descriptors of submitted requests are not free and not shared, and  *)
(* all others are free; the assertions and panics of rw, intr and          *)
(* free_desc stay silent, except for the overflow of a 16-bit index.  The  *)
(* one thing that ends this is alloc3_desc's error path, which says        *)
(* "失败时会自动释放已分配的描述符" (a failed allocation gives back what it *)
(* took) and frees descriptors 0 .. n-1 instead: nothing else in rw, the   *)
(* device or the handler does.                                             *)
DescriptorsOwned ==
    ~misfreed =>
        /\ panicked \in {"no", "index"}
        /\ panicked = "no" =>
            /\ \A p \in Submitted : Cardinality(InChain(head[p])) = 3
            /\ \A p, q \in Submitted : p # q => InChain(head[p]) \cap InChain(head[q]) = {}
            /\ free = Descs \ UNION {InChain(head[p]) : p \in Submitted}

(* Until the error path has freed another request's descriptors: when      *)
(* info.disk of a request is cleared, the device has transferred that very *)
(* request's buffer.  Completions may arrive in any order and several per  *)
(* interrupt, and every one reaches the process it belongs to.             *)
DoneIsTransferred ==
    ~misfreed => \A p \in Submitted :
        panicked = "no" /\ ~info[head[p]].disk => p \in moved

(* Nobody sleeps on in rw without a reason.  Nobody waits for descriptors  *)
(* while there are enough, whatever the error path has freed; and until it *)
(* has freed another request's descriptors, while a process sleeps for a   *)
(* request the device has finished, the handler runs or its interrupt is   *)
(* pending.                                                                *)
NoLostWakeup ==
    panicked = "no" => \A p \in asleep :
        /\ pc[p] = "alloc" => Cardinality(free) < 3
        /\ ~misfreed /\ p \in Submitted /\ p \in moved => intrRuns \/ irq

(* NUM is a power of two so that the index of a ring entry survives the    *)
(* wrap of the 16-bit indices: a wrap does not stop the kernel.            *)
IndexWraps == panicked # "index"
=============================================================================
