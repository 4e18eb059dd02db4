--------------------------- MODULE BufCacheProofs ---------------------------
(***************************************************************************)
(* Proofs about the block cache for any number of processes, buffers and   *)
(* blocks.  A sleeper always has somebody to wait for.  pin and unpin      *)
(* change a reference count in two steps without ctrl: until one of them   *)
(* overwrites a count that has changed in between, no update of a block is *)
(* lost, and the cache panics only when every buffer is in use.            *)
(***************************************************************************)
EXTENDS BufCache, WellFoundedInduction, FiniteSetTheorems, TLAPS

(* Where a process has a buffer locked. *)
Locked == {"io", "hold", "pin", "unpin"}

-----------------------------------------------------------------------------
(***************************************************************************)
(* The inductive invariant.                                                *)
(***************************************************************************)

(* No two buffers have the same block. *)
OneBuffer == \A i, j \in Bufs : blk[i] = blk[j] /\ blk[i] # None => i = j

(* A sleeper waits in lock() for a buffer somebody has. *)
SleepInv == \A p \in asleep : pc[p] = "lock" /\ owner[idx[p]] # None

(* The sleep lock has one holder. *)
OwnerInv == \A p \in Procs : pc[p] \in Locked => owner[idx[p]] = p

(* A buffer somebody refers to keeps the block it was asked for. *)
BlockInv == \A p \in Procs : pc[p] # "out" => want[p] \in Reach[p] /\ blk[idx[p]] = want[p]

Pin(i) == IF blk[i] \in logged THEN 1 ELSE 0

(* The reference count is the number of Bufs plus the pin. *)
CountInv == \A i \in Bufs : /\ IsFiniteSet(Referring(i))
                            /\ refcnt[i] = Cardinality(Referring(i)) + Pin(i)

(* One process at a time is in pin or unpin, of a block of the log.  The   *)
(* count it has read need not be the count any more.                       *)
PinInv ==
    /\ \A p, q \in Procs : pc[p] \in {"pin", "unpin"} /\ pc[q] \in {"pin", "unpin"} => p = q
    /\ \A p \in Procs : pc[p] \in {"pin", "unpin"} => want[p] \in LogBlocks
    /\ \A p \in Procs : pc[p] = "pin" => want[p] \notin logged
    /\ \A p \in Procs : pc[p] = "unpin" => want[p] \in logged

(* The log records as many blocks as it may. *)
RecordInv ==
    /\ IsFiniteSet(logged) /\ Cardinality(logged) <= MaxPins /\ logged \subseteq LogBlocks
    /\ \A p \in Procs : pc[p] = "pin" => Cardinality(logged) < MaxPins

(* A valid buffer has the latest contents of its block; a block whose      *)
(* latest contents are not on the disk is recorded or about to be, and a   *)
(* recorded block is in a valid buffer.                                    *)
DataInv ==
    /\ \A i \in Bufs : valid[i] => blk[i] \in Blocks /\ data[i] = last[blk[i]]
    /\ \A b \in Blocks : disk[b] # last[b] =>
          b \in logged \/ \E p \in Procs : pc[p] = "pin" /\ want[p] = b
    /\ \A b \in logged : \E i \in Bufs : blk[i] = b /\ valid[i]
    /\ \A p \in Procs : pc[p] \in {"hold", "pin", "unpin"} => valid[idx[p]]
    /\ \A p \in Procs : pc[p] = "io" => ~valid[idx[p]]
    /\ \A p \in Procs : pc[p] = "unpin" => disk[want[p]] = last[want[p]]

(* Only bget panics, when it has no buffer for one more. *)
PanicInv == panicked => Unused = {}

BufInv == /\ TypeOK /\ OneBuffer /\ SleepInv /\ OwnerInv /\ BlockInv /\ CountInv
          /\ PinInv /\ RecordInv /\ DataInv /\ PanicInv

Pcs == {"out", "lock", "io", "hold", "pin", "unpin", "rel"}

USE DEF meta, store

-----------------------------------------------------------------------------
(***************************************************************************)
(* The list.                                                               *)
(***************************************************************************)

(* A nonempty set of naturals has a least element. *)
LEMMA HasLeast == ASSUME NEW S, S \subseteq Nat, S # {} PROVE \E x \in S : \A y \in S : x <= y
<1>1. \E x \in S : \A y \in S : ~(<<y, x>> \in OpToRel(<, Nat))
  BY NatLessThanWellFounded, WFMin
<1>2. PICK x \in S : \A y \in S : ~(<<y, x>> \in OpToRel(<, Nat))  BY <1>1
<1>3. ASSUME NEW y \in S PROVE x <= y
  <2>1. <<y, x>> \in Nat \X Nat /\ x \in Nat /\ y \in Nat  OBVIOUS
  <2>2. ~(y < x)  BY <1>2, <2>1 DEF OpToRel
  <2> QED  BY <2>1, <2>2
<1> QED  BY <1>3

(* find_cached finds a buffer with the block when there is one. *)
LEMMA FirstCachedIs ==
  ASSUME TypeOK, NEW b, Cached(b) # {}
  PROVE  FirstCached(b) \in Bufs /\ blk[FirstCached(b)] = b
<1> DEFINE S == {k \in 1 .. NBUF : lru[k] \in Cached(b)}
<1>1. S # {}
  <2>1. PICK i \in Bufs : i \in Cached(b)  BY DEF Cached
  <2>2. PICK k \in Bufs : lru[k] = i  BY DEF TypeOK
  <2> QED  BY <2>1, <2>2 DEF Bufs
<1>2. S \subseteq Nat  OBVIOUS
<1>3. PICK k \in S : \A j \in S : k <= j  BY <1>1, <1>2, HasLeast
<1>4. \A j \in 1 .. (k - 1) : j \notin S /\ j \in 1 .. NBUF
  BY <1>3, BufAssumption
<1>5. \A j \in 1 .. (k - 1) : lru[j] \notin Cached(b)  BY <1>4
<1>6. \E m \in 1 .. NBUF : /\ lru[m] \in Cached(b)
                           /\ \A j \in 1 .. (m - 1) : lru[j] \notin Cached(b)
  BY <1>3, <1>5
<1>7. FirstCached(b) \in Cached(b)  BY <1>6 DEF FirstCached
<1> QED  BY <1>7 DEF Cached

(* recycle finds an unused buffer when there is one. *)
LEMMA VictimIs ==
  ASSUME TypeOK, Unused # {}
  PROVE  Victim \in Bufs /\ refcnt[Victim] = 0
<1> DEFINE S == {n \in 0 .. NBUF : n < NBUF /\ lru[NBUF - n] \in Unused}
<1>0. NBUF \in Nat  BY BufAssumption
<1>1. S # {}
  <2>1. PICK i \in Bufs : i \in Unused  BY DEF Unused
  <2>2. PICK k \in Bufs : lru[k] = i  BY DEF TypeOK
  <2>3. k \in 1 .. NBUF /\ NBUF - k \in 0 .. NBUF /\ NBUF - k < NBUF /\ NBUF - (NBUF - k) = k
    BY <1>0, <2>2 DEF Bufs
  <2> QED  BY <2>1, <2>2, <2>3
<1>2. S \subseteq Nat  OBVIOUS
<1>3. PICK n \in S : \A m \in S : n <= m  BY <1>1, <1>2, HasLeast
<1>4. NBUF - n \in 1 .. NBUF  BY <1>0, <1>3
<1>5. ASSUME NEW j \in ((NBUF - n) + 1) .. NBUF PROVE lru[j] \notin Unused
  <2>1. NBUF - j \in 0 .. NBUF /\ NBUF - j < n /\ NBUF - j < NBUF /\ NBUF - (NBUF - j) = j
    BY <1>0, <1>3, <1>4
  <2>2. NBUF - j \notin S  BY <1>2, <1>3, <2>1
  <2> QED  BY <2>1, <2>2
<1>6. \E m \in 1 .. NBUF : /\ lru[m] \in Unused
                           /\ \A j \in (m + 1) .. NBUF : lru[j] \notin Unused
  BY <1>3, <1>4, <1>5
<1>7. Victim \in Unused  BY <1>6 DEF Victim
<1> QED  BY <1>7 DEF Unused

(* A released buffer moves to the head; the list keeps every buffer. *)
LEMMA ToFrontIs ==
  ASSUME TypeOK, NEW i \in Bufs
  PROVE  ToFront(i) \in [Bufs -> Bufs] /\ \A x \in Bufs : \E k \in Bufs : ToFront(i)[k] = x
<1> DEFINE k == CHOOSE k \in Bufs : lru[k] = i
           f == [j \in Bufs |-> IF j = 1 THEN i ELSE IF j <= k THEN lru[j - 1] ELSE lru[j]]
<1>0. NBUF \in Nat /\ NBUF >= 1 /\ Bufs = 1 .. NBUF /\ lru \in [Bufs -> Bufs]
  <2>1. NBUF \in Nat /\ NBUF # 0  BY BufAssumption
  <2>2. NBUF >= 1  BY <2>1
  <2>3. lru \in [Bufs -> Bufs]  BY DEF TypeOK
  <2> QED  BY <2>1, <2>2, <2>3 DEF Bufs
<1>1. k \in Bufs /\ lru[k] = i  BY DEF TypeOK
<1>2. ToFront(i) = f  BY DEF ToFront
<1> HIDE DEF k
<1>3. f \in [Bufs -> Bufs]
  <2>1. ASSUME NEW j \in Bufs PROVE (IF j = 1 THEN i ELSE IF j <= k THEN lru[j - 1] ELSE lru[j]) \in Bufs
    <3>1. j # 1 => j - 1 \in Bufs  BY <1>0
    <3> QED  BY <1>0, <3>1
  <2> QED  BY <2>1
<1>4. ASSUME NEW x \in Bufs PROVE \E j \in Bufs : f[j] = x
  <2>1. CASE x = i
    <3>1. 1 \in Bufs /\ f[1] = i  BY <1>0
    <3> QED  BY <2>1, <3>1
  <2>2. CASE x # i
    <3>1. PICK m \in Bufs : lru[m] = x  BY DEF TypeOK
    <3>2. m # k  BY <1>1, <2>2, <3>1
    <3>3. CASE m < k
      <4>1. m + 1 \in Bufs /\ m + 1 # 1 /\ m + 1 <= k /\ (m + 1) - 1 = m
        BY <1>0, <1>1, <3>3
      <4>2. f[m + 1] = x  BY <3>1, <4>1
      <4> QED  BY <4>1, <4>2
    <3>4. CASE m > k
      <4>1. m # 1 /\ ~(m <= k)  BY <1>0, <1>1, <3>4
      <4>2. f[m] = x  BY <3>1, <4>1
      <4> QED  BY <4>2
    <3> QED  BY <1>0, <1>1, <3>2, <3>3, <3>4
  <2> QED  BY <2>1, <2>2
<1> HIDE DEF f
<1> QED  BY <1>2, <1>3, <1>4

-----------------------------------------------------------------------------
(***************************************************************************)
(* Facts about a state that satisfies the invariant.                       *)
(***************************************************************************)

(* Processes and blocks are something. *)
LEMMA Names ==
  /\ \A p \in Procs : p # None /\ \A b \in Reach[p] : b \in Blocks
  /\ \A b \in Blocks : b # None
  /\ LogBlocks \subseteq Blocks
BY BufAssumption

(* A buffer somebody refers to is counted, and twice when it is pinned. *)
LEMMA Referred ==
  ASSUME BufInv, NEW p \in Procs, pc[p] # "out"
  PROVE  /\ idx[p] \in Bufs /\ want[p] \in Blocks /\ want[p] \in Reach[p]
         /\ blk[idx[p]] = want[p] /\ refcnt[idx[p]] \in Nat /\ refcnt[idx[p]] >= 1
         /\ want[p] \in logged => refcnt[idx[p]] >= 2
         /\ p \in Referring(idx[p])
<1> DEFINE i == idx[p]
<1>1. i \in Bufs /\ want[p] \in Reach[p] /\ want[p] \in Blocks /\ blk[i] = want[p]
      /\ refcnt[i] \in Nat
  BY Names DEF BufInv, BlockInv, TypeOK
<1>2. p \in Referring(i)  BY DEF Referring
<1>3. IsFiniteSet(Referring(i)) /\ refcnt[i] = Cardinality(Referring(i)) + Pin(i)
  BY <1>1 DEF BufInv, CountInv
<1> HIDE DEF i
<1>4. Cardinality(Referring(i)) \in Nat /\ Cardinality(Referring(i)) # 0
  <2>1. Cardinality(Referring(i)) \in Nat  BY <1>3, FS_CardinalityType
  <2>2. Referring(i) # {}  BY <1>2
  <2> QED  BY <1>3, <2>1, <2>2, FS_EmptySet
<1>5. Pin(i) \in {0, 1} /\ (want[p] \in logged => Pin(i) = 1)  BY <1>1 DEF Pin
<1>6. refcnt[i] >= 1 /\ (want[p] \in logged => refcnt[i] >= 2)
  BY <1>3, <1>4, <1>5
<1> QED  BY <1>1, <1>2, <1>6 DEF i

(* Whoever has a buffer locked has it alone, and its block too. *)
LEMMA Alone ==
  ASSUME BufInv, NEW p \in Procs, pc[p] \in Locked
  PROVE  /\ owner[idx[p]] = p
         /\ \A q \in Procs \ {p} : pc[q] \in Locked => idx[q] # idx[p] /\ want[q] # want[p]
<1>1. \A q \in Procs : pc[q] \in Locked => owner[idx[q]] = q  BY DEF BufInv, OwnerInv
<1>2. \A q \in Procs : pc[q] \in Locked =>
         idx[q] \in Bufs /\ blk[idx[q]] = want[q] /\ blk[idx[q]] # None
  BY Referred, Names DEF Locked
<1>3. ASSUME NEW q \in Procs \ {p}, pc[q] \in Locked
      PROVE  idx[q] # idx[p] /\ want[q] # want[p]
  <2>1. idx[q] # idx[p]  BY <1>1, <1>3
  <2> QED  BY <1>2, <1>3, <2>1 DEF BufInv, OneBuffer
<1> QED  BY <1>1, <1>3

(* An unused buffer is referred to by nobody, and not pinned. *)
LEMMA UnusedIs ==
  ASSUME BufInv, NEW i \in Bufs, refcnt[i] = 0
  PROVE  /\ \A q \in Procs : pc[q] # "out" => idx[q] # i
         /\ blk[i] \notin logged /\ Referring(i) = {}
<1>1. ASSUME NEW q \in Procs, pc[q] # "out" PROVE idx[q] # i
  <2>1. refcnt[idx[q]] \in Nat /\ refcnt[idx[q]] >= 1  BY <1>1, Referred
  <2> QED  BY <2>1
<1>2. Referring(i) = {}  BY <1>1 DEF Referring
<1>3. refcnt[i] = 0 + Pin(i)  BY <1>2, FS_EmptySet DEF BufInv, CountInv
<1>4. blk[i] \notin logged  BY <1>3 DEF Pin
<1> QED  BY <1>1, <1>2, <1>4

(* A process moves on. *)
LEMMA GotoIs ==
  ASSUME TypeOK, NEW p \in Procs, NEW to \in Pcs, Goto(p, to)
  PROVE  pc' \in [Procs -> Pcs] /\ pc'[p] = to /\ \A q \in Procs \ {p} : pc'[q] = pc[q]
BY DEF TypeOK, Pcs, Goto

-----------------------------------------------------------------------------
(***************************************************************************)
(* What keeps parts of the invariant when a step does not concern them.    *)
(***************************************************************************)

(* No reference is taken or dropped. *)
LEMMA CountFrame ==
  ASSUME CountInv, UNCHANGED <<refcnt, idx, blk, logged>>,
         \A q \in Procs : pc'[q] = "out" <=> pc[q] = "out"
  PROVE  CountInv'
<1>1. \A i : Referring(i)' = Referring(i)  BY DEF Referring
<1>2. \A i : Pin(i)' = Pin(i)  BY DEF Pin
<1> QED  BY <1>1, <1>2 DEF CountInv

(* Nobody starts or ends a pin. *)
LEMMA PinFrame ==
  ASSUME PinInv, RecordInv, UNCHANGED logged,
         \A q \in Procs : pc'[q] \in {"pin", "unpin"} =>
            pc'[q] = pc[q] /\ want'[q] = want[q]
  PROVE  PinInv' /\ RecordInv'
<1>1. PinInv'  BY DEF PinInv
<1>2. RecordInv'  BY DEF RecordInv
<1> QED  BY <1>1, <1>2

-----------------------------------------------------------------------------
(***************************************************************************)
(* bget.                                                                   *)
(***************************************************************************)

(* The block is cached: one more reference to its buffer. *)
LEMMA BgetHit ==
  ASSUME BufInv, NEW p \in Procs, NEW b \in Reach[p], Bget(p, b), Cached(b) # {}
  PROVE  BufInv'
<1>0. /\ TypeOK /\ OneBuffer /\ SleepInv /\ OwnerInv /\ BlockInv /\ CountInv
      /\ PinInv /\ RecordInv /\ DataInv
  BY DEF BufInv
<1>2. PICK i \in Bufs : i = FirstCached(b) /\ blk[i] = b /\ b \in Blocks
  BY <1>0, FirstCachedIs, Names
<1>1. /\ ~panicked /\ pc[p] = "out" /\ want' = [want EXCEPT ![p] = b]
      /\ idx' = [idx EXCEPT ![p] = i]
      /\ refcnt' = [refcnt EXCEPT ![i] = @ + 1]
      /\ Goto(p, "lock")
      /\ UNCHANGED <<blk, valid, panicked, lru, data, disk, last, owner, logged, asleep, rc, torn>>
  BY <1>2 DEF Bget, Found
<1>3. pc' \in [Procs -> Pcs] /\ pc'[p] = "lock" /\ \A q \in Procs \ {p} : pc'[q] = pc[q]
  BY <1>0, <1>1, GotoIs DEF Pcs
<1>4. /\ idx' \in [Procs -> Bufs] /\ idx'[p] = i /\ \A q \in Procs \ {p} : idx'[q] = idx[q]
      /\ want' \in [Procs -> Blocks \cup {None}] /\ want'[p] = b
      /\ \A q \in Procs \ {p} : want'[q] = want[q]
  BY <1>0, <1>1, <1>2 DEF TypeOK
<1>5. /\ refcnt' \in [Bufs -> Nat] /\ refcnt'[i] = refcnt[i] + 1
      /\ \A j \in Bufs \ {i} : refcnt'[j] = refcnt[j]
  BY <1>0, <1>1, <1>2 DEF TypeOK
<1>6. TypeOK'  BY <1>0, <1>1, <1>3, <1>4, <1>5 DEF TypeOK, Pcs
<1>7. OneBuffer' /\ PanicInv'  BY <1>0, <1>1 DEF OneBuffer, PanicInv
<1>8. SleepInv'
  <2>1. \A q \in asleep : q \in Procs /\ q # p  BY <1>0, <1>1 DEF SleepInv, TypeOK
  <2> QED  BY <1>0, <1>1, <1>3, <1>4, <2>1 DEF SleepInv
<1>9. \A q \in Procs : pc'[q] \in Locked =>
         q # p /\ pc[q] = pc'[q] /\ idx'[q] = idx[q] /\ want'[q] = want[q]
  BY <1>3, <1>4 DEF Locked
<1>10. OwnerInv'  BY <1>0, <1>1, <1>9 DEF OwnerInv
<1>11. BlockInv'  BY <1>0, <1>1, <1>2, <1>3, <1>4 DEF BlockInv
<1>12. CountInv'
  <2>1. p \notin Referring(i)  BY <1>1 DEF Referring
  <2>2. Referring(i)' = Referring(i) \cup {p}  BY <1>3, <1>4 DEF Referring
  <2>3. \A j \in Bufs \ {i} : Referring(j)' = Referring(j)
    BY <1>1, <1>3, <1>4 DEF Referring
  <2>4. \A j : Pin(j)' = Pin(j)  BY <1>1 DEF Pin
  <2>5. IsFiniteSet(Referring(i)) /\ refcnt[i] = Cardinality(Referring(i)) + Pin(i)
    BY <1>0, <1>2 DEF CountInv
  <2>6. /\ IsFiniteSet(Referring(i)')
        /\ Cardinality(Referring(i)') = Cardinality(Referring(i)) + 1
    BY <2>1, <2>2, <2>5, FS_AddElement
  <2>7. Cardinality(Referring(i)) \in Nat /\ Pin(i) \in Nat
    BY <2>5, FS_CardinalityType DEF Pin
  <2>8. refcnt'[i] = Cardinality(Referring(i)') + Pin(i)
    BY <1>5, <2>5, <2>6, <2>7
  <2> QED  BY <1>0, <1>5, <2>3, <2>4, <2>6, <2>8 DEF CountInv
<1>13. PinInv' /\ RecordInv'
  <2>1. \A q \in Procs : pc'[q] \in {"pin", "unpin"} =>
           pc'[q] = pc[q] /\ want'[q] = want[q]
    BY <1>9 DEF Locked
  <2> QED  BY <1>0, <1>1, <2>1, PinFrame
<1>14. DataInv'
  <2>1. \A q \in Procs : pc[q] = "pin" => pc'[q] = "pin" /\ want'[q] = want[q]
    BY <1>1, <1>3, <1>4
  <2> QED  BY <1>0, <1>1, <1>9, <2>1 DEF DataInv, Locked
<1> QED  BY <1>6, <1>7, <1>8, <1>10, <1>11, <1>12, <1>13, <1>14 DEF BufInv

(* The block is not cached: an unused buffer gets it. *)
LEMMA BgetMiss ==
  ASSUME BufInv, NEW p \in Procs, NEW b \in Reach[p], Bget(p, b), Cached(b) = {},
         Unused # {}
  PROVE  BufInv'
<1>0. /\ TypeOK /\ OneBuffer /\ SleepInv /\ OwnerInv /\ BlockInv /\ CountInv
      /\ PinInv /\ RecordInv /\ DataInv
  BY DEF BufInv
<1>2. PICK i \in Bufs : i = Victim /\ refcnt[i] = 0 /\ b \in Blocks /\ b # None
  BY <1>0, VictimIs, Names
<1>1. /\ ~panicked /\ pc[p] = "out" /\ want' = [want EXCEPT ![p] = b]
      /\ idx' = [idx EXCEPT ![p] = i]
      /\ blk' = [blk EXCEPT ![i] = b]
      /\ refcnt' = [refcnt EXCEPT ![i] = @ + 1]
      /\ valid' = [valid EXCEPT ![i] = FALSE]
      /\ panicked' = FALSE
      /\ Goto(p, "lock")
      /\ UNCHANGED <<lru, data, disk, last, owner, logged, asleep, rc, torn>>
  BY <1>2 DEF Bget, Invalidated
<1>3. \A j \in Bufs : blk[j] # b  BY DEF Cached
<1>4. b \notin logged  BY <1>0, <1>3 DEF DataInv
<1>5. /\ \A q \in Procs : pc[q] # "out" => idx[q] # i
      /\ blk[i] \notin logged /\ Referring(i) = {}
  BY <1>2, UnusedIs
<1>6. pc' \in [Procs -> Pcs] /\ pc'[p] = "lock" /\ \A q \in Procs \ {p} : pc'[q] = pc[q]
  BY <1>0, <1>1, GotoIs DEF Pcs
<1>7. /\ idx' \in [Procs -> Bufs] /\ idx'[p] = i /\ \A q \in Procs \ {p} : idx'[q] = idx[q]
      /\ want' \in [Procs -> Blocks \cup {None}] /\ want'[p] = b
      /\ \A q \in Procs \ {p} : want'[q] = want[q]
  BY <1>0, <1>1, <1>2 DEF TypeOK
<1>8. /\ refcnt' \in [Bufs -> Nat] /\ refcnt'[i] = 1
      /\ \A j \in Bufs \ {i} : refcnt'[j] = refcnt[j]
      /\ blk' \in [Bufs -> Blocks \cup {None}] /\ blk'[i] = b
      /\ \A j \in Bufs \ {i} : blk'[j] = blk[j]
      /\ valid' \in [Bufs -> BOOLEAN] /\ ~valid'[i]
      /\ \A j \in Bufs \ {i} : valid'[j] = valid[j]
  BY <1>0, <1>1, <1>2 DEF TypeOK
<1>9. TypeOK'  BY <1>0, <1>1, <1>6, <1>7, <1>8 DEF TypeOK, Pcs
<1>10. OneBuffer'  BY <1>0, <1>3, <1>8 DEF OneBuffer
<1>11. SleepInv'
  <2>1. \A q \in asleep : q \in Procs /\ q # p  BY <1>0, <1>1 DEF SleepInv, TypeOK
  <2> QED  BY <1>0, <1>1, <1>6, <1>7, <2>1 DEF SleepInv
<1>12. \A q \in Procs : pc'[q] \in Locked =>
         /\ q # p /\ pc[q] = pc'[q] /\ idx'[q] = idx[q] /\ want'[q] = want[q]
         /\ idx[q] # i /\ idx[q] \in Bufs
  BY <1>5, <1>6, <1>7, Referred DEF Locked
<1>13. OwnerInv'  BY <1>0, <1>1, <1>12 DEF OwnerInv
<1>14. BlockInv'
  <2>1. ASSUME NEW q \in Procs, q # p, pc'[q] # "out"
        PROVE  want'[q] \in Reach[q] /\ blk'[idx'[q]] = want'[q]
    <3>1. pc[q] # "out" /\ idx'[q] = idx[q] /\ want'[q] = want[q]  BY <1>6, <1>7, <2>1
    <3>2. idx[q] \in Bufs \ {i} /\ blk[idx[q]] = want[q] /\ want[q] \in Reach[q]
      BY <1>5, <3>1, Referred
    <3> QED  BY <1>8, <3>1, <3>2
  <2> QED  BY <1>7, <1>8, <2>1 DEF BlockInv
<1>15. CountInv'
  <2>1. Referring(i)' = {p}  BY <1>5, <1>6, <1>7 DEF Referring
  <2>2. \A j \in Bufs \ {i} : Referring(j)' = Referring(j)
    BY <1>1, <1>6, <1>7 DEF Referring
  <2>3. Pin(i)' = 0 /\ \A j \in Bufs \ {i} : Pin(j)' = Pin(j)
    BY <1>1, <1>4, <1>8 DEF Pin
  <2>4. IsFiniteSet({p}) /\ Cardinality({p}) = 1  BY FS_Singleton
  <2>5. IsFiniteSet(Referring(i)') /\ refcnt'[i] = Cardinality(Referring(i)') + Pin(i)'
    <3>1. refcnt'[i] = 1 + 0  BY <1>8
    <3> QED  BY <2>1, <2>3, <2>4, <3>1
  <2>6. ASSUME NEW j \in Bufs \ {i}
        PROVE  IsFiniteSet(Referring(j)') /\ refcnt'[j] = Cardinality(Referring(j)') + Pin(j)'
    <3>1. IsFiniteSet(Referring(j)) /\ refcnt[j] = Cardinality(Referring(j)) + Pin(j)
      BY <1>0 DEF CountInv
    <3>2. refcnt'[j] = refcnt[j]  BY <1>8
    <3> QED  BY <2>2, <2>3, <3>1, <3>2
  <2> QED  BY <2>5, <2>6 DEF CountInv
<1>16. PinInv' /\ RecordInv'
  <2>1. \A q \in Procs : pc'[q] \in {"pin", "unpin"} =>
           pc'[q] = pc[q] /\ want'[q] = want[q]
    BY <1>8, <1>12 DEF Locked
  <2> QED  BY <1>0, <1>1, <2>1, PinFrame
<1>17. DataInv'
  <2>1. \A q \in Procs : pc[q] = "pin" => pc'[q] = "pin" /\ want'[q] = want[q]
    BY <1>1, <1>6, <1>7
  <2>2. \A j \in Bufs : valid'[j] => blk'[j] \in Blocks /\ data'[j] = last'[blk'[j]]
    BY <1>0, <1>1, <1>8 DEF DataInv
  <2>3. \A x \in Blocks : disk'[x] # last'[x] =>
           x \in logged' \/ \E q \in Procs : pc'[q] = "pin" /\ want'[q] = x
    BY <1>0, <1>1, <2>1 DEF DataInv
  <2>4. ASSUME NEW x \in logged' PROVE \E j \in Bufs : blk'[j] = x /\ valid'[j]
    <3>1. PICK j \in Bufs : blk[j] = x /\ valid[j]  BY <1>0, <1>1 DEF DataInv
    <3>2. j # i  BY <1>1, <1>5, <3>1
    <3> QED  BY <1>8, <3>1, <3>2
  <2>5. \A q \in Procs : pc'[q] \in Locked => valid'[idx'[q]] = valid[idx[q]]
    BY <1>8, <1>12
  <2> QED  BY <1>0, <1>1, <1>12, <2>2, <2>3, <2>4, <2>5 DEF DataInv, Locked
<1>18. PanicInv'  BY <1>1 DEF PanicInv
<1> QED  BY <1>9, <1>10, <1>11, <1>13, <1>14, <1>15, <1>16, <1>17, <1>18 DEF BufInv

(* Every buffer is in use: bget panics. *)
LEMMA BgetPanic ==
  ASSUME BufInv, NEW p \in Procs, NEW b \in Reach[p], Bget(p, b), Cached(b) = {}, Unused = {}
  PROVE  BufInv'
<1>0. /\ TypeOK /\ OneBuffer /\ SleepInv /\ OwnerInv /\ BlockInv /\ CountInv
      /\ PinInv /\ RecordInv /\ DataInv
  BY DEF BufInv
<1>1. /\ pc[p] = "out" /\ want' = [want EXCEPT ![p] = b] /\ panicked' = TRUE
      /\ UNCHANGED <<idx, blk, refcnt, valid, pc, lru, data, disk, last, owner, logged, asleep, rc, torn>>
  BY DEF Bget
<1>2. b \in Blocks  BY Names
<1>3. /\ want' \in [Procs -> Blocks \cup {None}] /\ \A q \in Procs \ {p} : want'[q] = want[q]
  BY <1>0, <1>1, <1>2 DEF TypeOK
<1>4. TypeOK'  BY <1>0, <1>1, <1>3 DEF TypeOK
<1>5. OneBuffer' /\ SleepInv' /\ OwnerInv'  BY <1>0, <1>1 DEF OneBuffer, SleepInv, OwnerInv
<1>6. \A q \in Procs : pc[q] # "out" => want'[q] = want[q]  BY <1>1, <1>3
<1>7. BlockInv'  BY <1>0, <1>1, <1>6 DEF BlockInv
<1>8. CountInv'  BY <1>0, <1>1, CountFrame
<1>9. PinInv' /\ RecordInv'  BY <1>0, <1>1, <1>6, PinFrame
<1>10. DataInv'
  <2>1. \A q \in Procs : pc[q] \in {"pin", "unpin"} => want'[q] = want[q]  BY <1>6
  <2> QED  BY <1>0, <1>1, <2>1 DEF DataInv
<1>11. PanicInv'  BY <1>1 DEF PanicInv, Unused
<1> QED  BY <1>4, <1>5, <1>7, <1>8, <1>9, <1>10, <1>11 DEF BufInv

-----------------------------------------------------------------------------
(***************************************************************************)
(* lock, and reading the block.                                            *)
(***************************************************************************)

(* The lock is taken by one process, or waited for. *)
LEMMA LockInv == ASSUME BufInv, NEW p \in Procs, Lock(p) PROVE BufInv'
<1> DEFINE i == idx[p]
<1>0. /\ TypeOK /\ OneBuffer /\ SleepInv /\ OwnerInv /\ BlockInv /\ CountInv
      /\ PinInv /\ RecordInv /\ DataInv
  BY DEF BufInv
<1>1. /\ ~panicked /\ pc[p] = "lock" /\ p \notin asleep
      /\ UNCHANGED <<lru, blk, refcnt, valid, data, disk, last, logged, idx, want, rc, torn, panicked>>
  BY DEF Lock
<1>2. CASE owner[i] # None /\ asleep' = asleep \cup {p} /\ UNCHANGED <<owner, pc>>
  <2>1. TypeOK'  BY <1>0, <1>1, <1>2 DEF TypeOK
  <2>2. OneBuffer' /\ SleepInv' /\ OwnerInv' /\ BlockInv'
    BY <1>0, <1>1, <1>2 DEF OneBuffer, SleepInv, OwnerInv, BlockInv
  <2>3. CountInv'  BY <1>0, <1>1, <1>2, CountFrame
  <2>4. PinInv' /\ RecordInv'  BY <1>0, <1>1, <1>2, PinFrame
  <2>5. DataInv' /\ PanicInv'  BY <1>0, <1>1, <1>2 DEF DataInv, PanicInv
  <2> QED  BY <2>1, <2>2, <2>3, <2>4, <2>5 DEF BufInv
<1>3. CASE /\ owner[i] = None /\ owner' = [owner EXCEPT ![i] = p]
           /\ Goto(p, IF valid[i] THEN "hold" ELSE "io") /\ UNCHANGED asleep
  <2> DEFINE to == IF valid[i] THEN "hold" ELSE "io"
  <2>1. to \in {"hold", "io"} /\ to \in Pcs /\ (to = "hold" => valid[i]) /\ (to = "io" => ~valid[i])
        /\ Goto(p, to)
    BY <1>3 DEF Pcs
  <2>2. i \in Bufs  BY <1>1, Referred
  <2> HIDE DEF to, i
  <2>3. pc' \in [Procs -> Pcs] /\ pc'[p] = to /\ \A q \in Procs \ {p} : pc'[q] = pc[q]
    BY <1>0, <2>1, GotoIs
  <2>4. /\ owner' \in [Bufs -> Procs \cup {None}] /\ owner'[i] = p
        /\ \A j \in Bufs \ {i} : owner'[j] = owner[j]
    BY <1>0, <1>3, <2>2 DEF TypeOK
  <2>5. TypeOK'  BY <1>0, <1>1, <1>3, <2>3, <2>4 DEF TypeOK, Pcs
  <2>6. OneBuffer' /\ BlockInv'  BY <1>0, <1>1, <2>3 DEF OneBuffer, BlockInv
  <2>7. SleepInv'
    <3>1. \A q \in asleep : q \in Procs /\ q # p /\ idx[q] \in Bufs /\ p # None
      BY <1>0, <1>1, Names DEF TypeOK
    <3> QED  BY <1>0, <1>1, <1>3, <2>3, <2>4, <3>1 DEF SleepInv
  <2>8. OwnerInv'
    <3>1. ASSUME NEW q \in Procs, q # p, pc'[q] \in Locked PROVE owner'[idx'[q]] = q
      <4>1. pc[q] \in Locked /\ idx[q] \in Bufs /\ owner[idx[q]] = q /\ q # None
        BY <1>0, <2>3, <3>1, Names DEF OwnerInv, TypeOK
      <4>2. idx[q] # i  BY <1>3, <4>1
      <4> QED  BY <1>1, <2>4, <4>1, <4>2
    <3>2. idx'[p] = i  BY <1>1 DEF i
    <3> QED  BY <2>4, <3>1, <3>2 DEF OwnerInv
  <2>9. CountInv'  BY <1>0, <1>1, <2>1, <2>3, CountFrame
  <2>10. PinInv' /\ RecordInv'  BY <1>0, <1>1, <2>1, <2>3, PinFrame
  <2>11. DataInv'
    <3>1. idx[p] = i  BY DEF i
    <3>2. \A q \in Procs : (pc'[q] = "pin" <=> pc[q] = "pin") /\ (pc'[q] = "unpin" <=> pc[q] = "unpin")
      BY <1>1, <2>1, <2>3
    <3> QED  BY <1>0, <1>1, <2>1, <2>3, <3>1, <3>2 DEF DataInv
  <2>12. PanicInv'  BY <1>1 DEF PanicInv
  <2> QED  BY <2>5, <2>6, <2>7, <2>8, <2>9, <2>10, <2>11, <2>12 DEF BufInv
<1> QED  BY <1>2, <1>3 DEF Lock

(* The block is read: nothing newer can be in another buffer, or recorded. *)
LEMMA BreadIoInv == ASSUME BufInv, NEW p \in Procs, BreadIo(p) PROVE BufInv'
<1> DEFINE i == idx[p]
           b == want[p]
<1>0. /\ TypeOK /\ OneBuffer /\ SleepInv /\ OwnerInv /\ BlockInv /\ CountInv
      /\ PinInv /\ RecordInv /\ DataInv
  BY DEF BufInv
<1>1. /\ ~panicked /\ pc[p] = "io"
      /\ data' = [data EXCEPT ![i] = disk[b]]
      /\ valid' = [valid EXCEPT ![i] = TRUE]
      /\ Goto(p, "hold")
      /\ UNCHANGED <<lru, blk, refcnt, disk, last, owner, logged, asleep, idx, want, rc, torn, panicked>>
  BY DEF BreadIo
<1>2. i \in Bufs /\ b \in Blocks /\ b # None /\ blk[i] = b /\ ~valid[i]
  BY <1>0, <1>1, Referred, Names DEF DataInv
<1>3. \A q \in Procs \ {p} : pc[q] \in Locked => idx[q] # i /\ want[q] # b
  BY <1>1, Alone DEF Locked
<1>4. idx[p] = i /\ want[p] = b  OBVIOUS
<1> HIDE DEF i, b
<1>5. disk[b] = last[b]
  <2>1. b \notin logged
    <3>1. SUFFICES ASSUME b \in logged PROVE FALSE
      OBVIOUS
    <3>2. PICK j \in Bufs : blk[j] = b /\ valid[j]  BY <1>0, <3>1 DEF DataInv
    <3>3. j = i  BY <1>0, <1>2, <3>2 DEF OneBuffer
    <3> QED  BY <1>2, <3>2, <3>3
  <2>2. \A q \in Procs : ~(pc[q] = "pin" /\ want[q] = b)
    BY <1>1, <1>3 DEF Locked
  <2> QED  BY <1>0, <1>2, <2>1, <2>2 DEF DataInv
<1>6. pc' \in [Procs -> Pcs] /\ pc'[p] = "hold" /\ \A q \in Procs \ {p} : pc'[q] = pc[q]
  BY <1>0, <1>1, GotoIs DEF Pcs
<1>7. /\ data' \in [Bufs -> Data] /\ data'[i] = disk[b]
      /\ \A j \in Bufs \ {i} : data'[j] = data[j]
      /\ valid' \in [Bufs -> BOOLEAN] /\ valid'[i]
      /\ \A j \in Bufs \ {i} : valid'[j] = valid[j]
  BY <1>0, <1>1, <1>2 DEF TypeOK
<1>8. TypeOK'  BY <1>0, <1>1, <1>6, <1>7 DEF TypeOK, Pcs
<1>9. OneBuffer' /\ BlockInv' /\ PanicInv'
  BY <1>0, <1>1, <1>6 DEF OneBuffer, BlockInv, PanicInv
<1>10. SleepInv'
  <2>1. \A q \in asleep : q \in Procs /\ q # p  BY <1>0, <1>1 DEF SleepInv, TypeOK
  <2> QED  BY <1>0, <1>1, <1>6, <2>1 DEF SleepInv
<1>11. OwnerInv'  BY <1>0, <1>1, <1>6 DEF OwnerInv, Locked
<1>12. CountInv'  BY <1>0, <1>1, <1>6, CountFrame
<1>13. PinInv' /\ RecordInv'  BY <1>0, <1>1, <1>6, PinFrame
<1>14. DataInv'
  <2>1. \A j \in Bufs : valid'[j] => blk'[j] \in Blocks /\ data'[j] = last'[blk'[j]]
    BY <1>0, <1>1, <1>2, <1>5, <1>7 DEF DataInv
  <2>2. \A x \in Blocks : disk'[x] # last'[x] =>
           x \in logged' \/ \E q \in Procs : pc'[q] = "pin" /\ want'[q] = x
    BY <1>0, <1>1, <1>6 DEF DataInv
  <2>3. \A x \in logged' : \E j \in Bufs : blk'[j] = x /\ valid'[j]
    BY <1>0, <1>1, <1>7 DEF DataInv
  <2>4. \A q \in Procs \ {p} : pc[q] \in Locked => idx[q] \in Bufs /\ valid'[idx[q]] = valid[idx[q]]
    BY <1>0, <1>3, <1>7 DEF TypeOK
  <2>5. ASSUME NEW q \in Procs, pc'[q] \in {"hold", "pin", "unpin"} PROVE valid'[idx'[q]]
    <3>1. CASE q = p  BY <1>1, <1>4, <1>7, <3>1
    <3>2. CASE q # p
      <4>1. pc[q] \in Locked /\ valid[idx[q]]  BY <1>0, <1>6, <2>5, <3>2 DEF DataInv, Locked
      <4> QED  BY <1>1, <2>4, <3>2, <4>1
    <3> QED  BY <3>1, <3>2
  <2>6. ASSUME NEW q \in Procs, pc'[q] = "io" PROVE ~valid'[idx'[q]]
    <3>1. q # p /\ pc[q] = "io" /\ pc[q] \in Locked  BY <1>6, <2>6 DEF Locked
    <3>2. ~valid[idx[q]]  BY <1>0, <3>1 DEF DataInv
    <3> QED  BY <1>1, <2>4, <3>1, <3>2
  <2>7. \A q \in Procs : pc'[q] = "unpin" => disk'[want'[q]] = last'[want'[q]]
    BY <1>0, <1>1, <1>6 DEF DataInv
  <2> QED  BY <2>1, <2>2, <2>3, <2>5, <2>6, <2>7 DEF DataInv
<1> QED  BY <1>8, <1>9, <1>10, <1>11, <1>12, <1>13, <1>14 DEF BufInv

-----------------------------------------------------------------------------
(***************************************************************************)
(* What a holder does.                                                     *)
(***************************************************************************)

(* A holder gives its block new contents: in its buffer, and in no other. *)
LEMMA NewContents ==
  ASSUME BufInv, NEW p \in Procs, pc[p] \in Locked, NEW d \in Data,
         data' = [data EXCEPT ![idx[p]] = d], last' = [last EXCEPT ![want[p]] = d],
         UNCHANGED <<blk, valid>>
  PROVE  /\ data' \in [Bufs -> Data] /\ last' \in [Blocks -> Data] /\ last'[want[p]] = d
         /\ \A x \in Blocks \ {want[p]} : last'[x] = last[x]
         /\ \A j \in Bufs : valid'[j] => blk'[j] \in Blocks /\ data'[j] = last'[blk'[j]]
<1>1. idx[p] \in Bufs /\ want[p] \in Blocks /\ want[p] # None /\ blk[idx[p]] = want[p]
  BY Referred, Names DEF Locked
<1>2. data \in [Bufs -> Data] /\ last \in [Blocks -> Data]  BY DEF BufInv, TypeOK
<1>3. /\ data' \in [Bufs -> Data] /\ last' \in [Blocks -> Data] /\ last'[want[p]] = d
      /\ \A x \in Blocks \ {want[p]} : last'[x] = last[x]
      /\ data'[idx[p]] = d /\ \A j \in Bufs \ {idx[p]} : data'[j] = data[j]
  BY <1>1, <1>2
<1>4. ASSUME NEW j \in Bufs, valid'[j] PROVE blk'[j] \in Blocks /\ data'[j] = last'[blk'[j]]
  <2>1. blk[j] \in Blocks /\ data[j] = last[blk[j]] /\ blk'[j] = blk[j]
    BY <1>4 DEF BufInv, DataInv
  <2>2. CASE j = idx[p]  BY <1>1, <1>3, <2>1, <2>2
  <2>3. CASE j # idx[p]
    <3>1. blk[j] # want[p]  BY <1>1, <2>3 DEF BufInv, OneBuffer
    <3> QED  BY <1>3, <2>1, <2>3, <3>1
  <2> QED  BY <2>2, <2>3
<1> QED  BY <1>3, <1>4

(* bwrite: the new contents are on the disk too. *)
LEMMA BwriteInv == ASSUME BufInv, NEW p \in Procs, NEW d \in Data, Bwrite(p, d) PROVE BufInv'
<1>0. /\ TypeOK /\ OneBuffer /\ SleepInv /\ OwnerInv /\ BlockInv /\ CountInv
      /\ PinInv /\ RecordInv /\ DataInv
  BY DEF BufInv
<1>1. /\ ~panicked /\ pc[p] = "hold" /\ pc[p] \in Locked
      /\ data' = [data EXCEPT ![idx[p]] = d] /\ last' = [last EXCEPT ![want[p]] = d]
      /\ disk' = [disk EXCEPT ![want[p]] = d]
      /\ UNCHANGED <<lru, blk, refcnt, valid, owner, logged, pc, asleep, idx, want, rc, torn, panicked>>
  BY DEF Bwrite, Locked
<1>2. /\ data' \in [Bufs -> Data] /\ last' \in [Blocks -> Data] /\ last'[want[p]] = d
      /\ \A x \in Blocks \ {want[p]} : last'[x] = last[x]
      /\ \A j \in Bufs : valid'[j] => blk'[j] \in Blocks /\ data'[j] = last'[blk'[j]]
  BY <1>1, NewContents
<1>3. want[p] \in Blocks  BY <1>1, Referred
<1>4. /\ disk' \in [Blocks -> Data] /\ disk'[want[p]] = d
      /\ \A x \in Blocks \ {want[p]} : disk'[x] = disk[x]
  BY <1>0, <1>1, <1>3 DEF TypeOK
<1>5. TypeOK'  BY <1>0, <1>1, <1>2, <1>4 DEF TypeOK
<1>6. OneBuffer' /\ SleepInv' /\ OwnerInv' /\ BlockInv' /\ PanicInv'
  BY <1>0, <1>1 DEF OneBuffer, SleepInv, OwnerInv, BlockInv, PanicInv
<1>7. CountInv'  BY <1>0, <1>1, CountFrame
<1>8. PinInv' /\ RecordInv'  BY <1>0, <1>1, PinFrame
<1>9. DataInv'
  <2>1. ASSUME NEW x \in Blocks, disk'[x] # last'[x]
        PROVE  x \in logged' \/ \E q \in Procs : pc'[q] = "pin" /\ want'[q] = x
    <3>1. x # want[p] /\ disk[x] # last[x]  BY <1>2, <1>4, <2>1
    <3> QED  BY <1>0, <1>1, <3>1 DEF DataInv
  <2>2. \A x \in logged' : \E j \in Bufs : blk'[j] = x /\ valid'[j]
    BY <1>0, <1>1 DEF DataInv
  <2>3. ASSUME NEW q \in Procs, pc'[q] = "unpin" PROVE disk'[want'[q]] = last'[want'[q]]
    <3>1. pc[q] = "unpin" /\ q # p /\ want'[q] = want[q]  BY <1>1, <2>3
    <3>2. want[q] # want[p] /\ want[q] \in Blocks  BY <1>1, <3>1, Alone, Referred DEF Locked
    <3>3. disk[want[q]] = last[want[q]]  BY <1>0, <3>1 DEF DataInv
    <3> QED  BY <1>2, <1>4, <3>1, <3>2, <3>3
  <2>4. \A q \in Procs : /\ pc'[q] \in {"hold", "pin", "unpin"} => valid'[idx'[q]]
                         /\ pc'[q] = "io" => ~valid'[idx'[q]]
    BY <1>0, <1>1 DEF DataInv
  <2> QED  BY <1>2, <2>1, <2>2, <2>3, <2>4 DEF DataInv
<1> QED  BY <1>5, <1>6, <1>7, <1>8, <1>9 DEF BufInv

(* LOG.write: a recorded block is absorbed, another one is being pinned. *)
LEMMA LogWriteInv == ASSUME BufInv, NEW p \in Procs, NEW d \in Data, LogWrite(p, d) PROVE BufInv'
<1>0. /\ TypeOK /\ OneBuffer /\ SleepInv /\ OwnerInv /\ BlockInv /\ CountInv
      /\ PinInv /\ RecordInv /\ DataInv
  BY DEF BufInv
<1>1. /\ ~panicked /\ pc[p] = "hold" /\ pc[p] \in Locked /\ want[p] \in LogBlocks
      /\ \A q \in Procs : pc[q] \notin {"pin", "unpin"}
      /\ data' = [data EXCEPT ![idx[p]] = d] /\ last' = [last EXCEPT ![want[p]] = d]
      /\ UNCHANGED <<lru, blk, refcnt, valid, disk, owner, logged, asleep, idx, want, torn, panicked>>
  BY DEF LogWrite, Locked, NoPinning
<1>2. /\ data' \in [Bufs -> Data] /\ last' \in [Blocks -> Data] /\ last'[want[p]] = d
      /\ \A x \in Blocks \ {want[p]} : last'[x] = last[x]
      /\ \A j \in Bufs : valid'[j] => blk'[j] \in Blocks /\ data'[j] = last'[blk'[j]]
  BY <1>1, NewContents
<1>3. idx[p] \in Bufs /\ refcnt[idx[p]] \in Nat  BY <1>1, Referred
<1>4. \/ want[p] \in logged /\ rc' = rc /\ pc' = pc
      \/ /\ want[p] \notin logged /\ Cardinality(logged) < MaxPins
         /\ rc' = [rc EXCEPT ![p] = refcnt[idx[p]]] /\ Goto(p, "pin")
  BY DEF LogWrite
<1>5. /\ pc' \in [Procs -> Pcs] /\ rc' \in [Procs -> Nat]
      /\ pc'[p] \in {"hold", "pin"} /\ \A q \in Procs \ {p} : pc'[q] = pc[q]
      /\ pc'[p] = "hold" => want[p] \in logged
      /\ pc'[p] = "pin" => /\ rc'[p] = refcnt[idx[p]] /\ want[p] \notin logged
                           /\ Cardinality(logged) < MaxPins
  <2>1. CASE want[p] \in logged /\ rc' = rc /\ pc' = pc  BY <1>0, <1>1, <2>1 DEF TypeOK, Pcs
  <2>2. CASE /\ want[p] \notin logged /\ Cardinality(logged) < MaxPins
             /\ rc' = [rc EXCEPT ![p] = refcnt[idx[p]]] /\ Goto(p, "pin")
    <3>1. pc' \in [Procs -> Pcs] /\ pc'[p] = "pin" /\ \A q \in Procs \ {p} : pc'[q] = pc[q]
      BY <1>0, <2>2, GotoIs DEF Pcs
    <3>2. rc' \in [Procs -> Nat] /\ rc'[p] = refcnt[idx[p]]  BY <1>0, <1>3, <2>2 DEF TypeOK
    <3> QED  BY <2>2, <3>1, <3>2
  <2> QED  BY <1>4, <2>1, <2>2
<1>6. TypeOK'  BY <1>0, <1>1, <1>2, <1>5 DEF TypeOK, Pcs
<1>7. OneBuffer' /\ BlockInv' /\ PanicInv'
  BY <1>0, <1>1, <1>5 DEF OneBuffer, BlockInv, PanicInv
<1>8. SleepInv'
  <2>1. \A q \in asleep : q \in Procs /\ q # p  BY <1>0, <1>1 DEF SleepInv, TypeOK
  <2> QED  BY <1>0, <1>1, <1>5, <2>1 DEF SleepInv
<1>9. OwnerInv'  BY <1>0, <1>1, <1>5 DEF OwnerInv, Locked
<1>10. CountInv'
  <2>1. \A q \in Procs : pc'[q] = "out" <=> pc[q] = "out"  BY <1>1, <1>5
  <2> QED  BY <1>0, <1>1, <2>1, CountFrame
<1>11. \A q \in Procs : pc'[q] \in {"pin", "unpin"} => q = p /\ pc'[p] = "pin"
  BY <1>1, <1>5
<1>12. PinInv'  BY <1>1, <1>5, <1>11 DEF PinInv
<1>13. RecordInv'  BY <1>0, <1>1, <1>5, <1>11 DEF RecordInv
<1>14. DataInv'
  <2>1. ASSUME NEW x \in Blocks, disk'[x] # last'[x]
        PROVE  x \in logged' \/ \E q \in Procs : pc'[q] = "pin" /\ want'[q] = x
    <3>1. CASE x = want[p]  BY <1>1, <1>5, <3>1
    <3>2. CASE x # want[p]
      <4>1. disk[x] # last[x]  BY <1>1, <1>2, <2>1, <3>2
      <4>2. x \in logged  BY <1>0, <1>1, <4>1 DEF DataInv
      <4> QED  BY <1>1, <4>2
    <3> QED  BY <3>1, <3>2
  <2>2. \A x \in logged' : \E j \in Bufs : blk'[j] = x /\ valid'[j]
    BY <1>0, <1>1 DEF DataInv
  <2>3. \A q \in Procs : pc'[q] # "unpin"  BY <1>11
  <2>4. \A q \in Procs : /\ pc'[q] \in {"hold", "pin", "unpin"} => valid'[idx'[q]]
                         /\ pc'[q] = "io" => ~valid'[idx'[q]]
    BY <1>0, <1>1, <1>5 DEF DataInv
  <2> QED  BY <1>2, <2>1, <2>2, <2>3, <2>4 DEF DataInv
<1> QED  BY <1>6, <1>7, <1>8, <1>9, <1>10, <1>12, <1>13, <1>14 DEF BufInv

(* Only the pin of the buffer that has the block depends on whether the    *)
(* block is recorded.                                                      *)
LEMMA PinOfBlock ==
  ASSUME BufInv, NEW p \in Procs, pc[p] \in Locked, UNCHANGED blk,
         \A x : x # want[p] => (x \in logged' <=> x \in logged)
  PROVE  /\ \A j \in Bufs \ {idx[p]} : Pin(j)' = Pin(j)
         /\ Pin(idx[p]) = (IF want[p] \in logged THEN 1 ELSE 0)
         /\ \A i : i = idx[p] => Pin(i)' = (IF want[p] \in logged' THEN 1 ELSE 0)
<1>1. idx[p] \in Bufs /\ want[p] # None /\ blk[idx[p]] = want[p]
  BY Referred, Names DEF Locked
<1>2. \A j \in Bufs \ {idx[p]} : blk[j] # want[p]  BY <1>1 DEF BufInv, OneBuffer
<1>3. \A j \in Bufs \ {idx[p]} : Pin(j)' = Pin(j)  BY <1>2 DEF Pin
<1>4. \A i : i = idx[p] => Pin(i)' = (IF want[p] \in logged' THEN 1 ELSE 0)
  BY <1>1 DEF Pin
<1> QED  BY <1>1, <1>3, <1>4 DEF Pin

(* pin of the count it has read: one more, and the block is recorded. *)
LEMMA PinStoreInv == ASSUME BufInv, NEW p \in Procs, PinStore(p), ~torn' PROVE BufInv'
<1>0. /\ TypeOK /\ OneBuffer /\ SleepInv /\ OwnerInv /\ BlockInv /\ CountInv
      /\ PinInv /\ RecordInv /\ DataInv
  BY DEF BufInv
<1>1. PICK i \in Bufs : i = idx[p] /\ pc[p] = "pin" /\ pc[p] \in Locked
  BY <1>0 DEF TypeOK, PinStore, Locked
<1>2. rc[p] = refcnt[i] /\ want[p] \in LogBlocks /\ want[p] \notin logged
      /\ \A q \in Procs \ {p} : pc[q] \notin {"pin", "unpin"}
  BY <1>0, <1>1 DEF PinInv, PinStore, Overwrites
<1>3. /\ ~panicked /\ refcnt' = [refcnt EXCEPT ![i] = refcnt[i] + 1]
      /\ logged' = logged \cup {want[p]} /\ Goto(p, "hold")
      /\ torn' = FALSE /\ UNCHANGED <<lru, blk, valid, data, disk, last, owner, asleep, idx, want, rc, panicked>>
  BY <1>1, <1>2 DEF PinStore, Overwrites, Pinned
<1>4. pc' \in [Procs -> Pcs] /\ pc'[p] = "hold" /\ \A q \in Procs \ {p} : pc'[q] = pc[q]
  BY <1>0, <1>3, GotoIs DEF Pcs
<1>5. /\ refcnt' \in [Bufs -> Nat] /\ refcnt'[i] = refcnt[i] + 1
      /\ \A j \in Bufs \ {i} : refcnt'[j] = refcnt[j]
  BY <1>0, <1>3 DEF TypeOK
<1>6. blk[i] = want[p] /\ want[p] \in Blocks /\ valid[i]
  BY <1>0, <1>1, Referred DEF DataInv
<1>7. TypeOK'  BY <1>0, <1>3, <1>4, <1>5, <1>6 DEF TypeOK, Pcs
<1>8. OneBuffer' /\ BlockInv' /\ PanicInv'
  BY <1>0, <1>1, <1>3, <1>4 DEF OneBuffer, BlockInv, PanicInv
<1>9. SleepInv'
  <2>1. \A q \in asleep : q \in Procs /\ q # p  BY <1>0, <1>1 DEF SleepInv, TypeOK
  <2> QED  BY <1>0, <1>3, <1>4, <2>1 DEF SleepInv
<1>10. OwnerInv'  BY <1>0, <1>1, <1>3, <1>4 DEF OwnerInv, Locked
<1>11. CountInv'
  <2>1. \A j : Referring(j)' = Referring(j)  BY <1>1, <1>3, <1>4 DEF Referring
  <2>2. Pin(i) = 0 /\ Pin(i)' = 1 /\ \A j \in Bufs \ {i} : Pin(j)' = Pin(j)
    BY <1>1, <1>2, <1>3, PinOfBlock
  <2>3. ASSUME NEW j \in Bufs
        PROVE  IsFiniteSet(Referring(j)') /\ refcnt'[j] = Cardinality(Referring(j)') + Pin(j)'
    <3>1. IsFiniteSet(Referring(j)) /\ refcnt[j] = Cardinality(Referring(j)) + Pin(j)
      BY <1>0 DEF CountInv
    <3>2. Cardinality(Referring(j)) \in Nat  BY <3>1, FS_CardinalityType
    <3>3. CASE j = i
      <4>1. refcnt'[j] = Cardinality(Referring(j)) + 1  BY <1>5, <2>2, <3>1, <3>2, <3>3
      <4> QED  BY <2>1, <2>2, <3>1, <3>3, <4>1
    <3>4. CASE j # i
      <4>1. refcnt'[j] = refcnt[j] /\ Pin(j)' = Pin(j)  BY <1>5, <2>2, <3>4
      <4> QED  BY <2>1, <3>1, <4>1
    <3> QED  BY <3>3, <3>4
  <2> QED  BY <2>3 DEF CountInv
<1>12. PinInv'  BY <1>2, <1>4 DEF PinInv
<1>13. RecordInv'
  <2>1. IsFiniteSet(logged) /\ Cardinality(logged) < MaxPins /\ logged \subseteq LogBlocks
    BY <1>0, <1>1 DEF RecordInv
  <2>2. IsFiniteSet(logged') /\ Cardinality(logged') = Cardinality(logged) + 1
    BY <1>2, <1>3, <2>1, FS_AddElement
  <2>3. Cardinality(logged) \in Nat /\ MaxPins \in Nat
    BY <2>1, FS_CardinalityType, BufAssumption
  <2>4. Cardinality(logged') <= MaxPins  BY <2>1, <2>2, <2>3
  <2>5. logged' \subseteq LogBlocks  BY <1>2, <1>3, <2>1
  <2> QED  BY <1>2, <1>4, <2>2, <2>4, <2>5 DEF RecordInv
<1>14. DataInv'
  <2>1. \A x \in Blocks : disk'[x] # last'[x] =>
           x \in logged' \/ \E q \in Procs : pc'[q] = "pin" /\ want'[q] = x
    <3>1. \A q \in Procs : pc[q] = "pin" => want[q] \in logged'  BY <1>2, <1>3
    <3> QED  BY <1>0, <1>3, <3>1 DEF DataInv
  <2>2. \A x \in logged' : \E j \in Bufs : blk'[j] = x /\ valid'[j]
    BY <1>0, <1>3, <1>6 DEF DataInv
  <2>3. \A q \in Procs : pc'[q] # "unpin"  BY <1>2, <1>4
  <2>4. \A q \in Procs : /\ pc'[q] \in {"hold", "pin", "unpin"} => valid'[idx'[q]]
                         /\ pc'[q] = "io" => ~valid'[idx'[q]]
    BY <1>0, <1>1, <1>3, <1>4 DEF DataInv
  <2>5. \A j \in Bufs : valid'[j] => blk'[j] \in Blocks /\ data'[j] = last'[blk'[j]]
    BY <1>0, <1>3 DEF DataInv
  <2> QED  BY <2>1, <2>2, <2>3, <2>4, <2>5 DEF DataInv
<1> QED  BY <1>7, <1>8, <1>9, <1>10, <1>11, <1>12, <1>13, <1>14 DEF BufInv

(* The install loop writes the latest contents, and unpin does not panic. *)
LEMMA InstallInv == ASSUME BufInv, NEW p \in Procs, Install(p) PROVE BufInv'
<1>0. /\ TypeOK /\ OneBuffer /\ SleepInv /\ OwnerInv /\ BlockInv /\ CountInv
      /\ PinInv /\ RecordInv /\ DataInv
  BY DEF BufInv
<1>1. /\ ~panicked /\ pc[p] = "hold" /\ pc[p] \in Locked /\ want[p] \in logged
      /\ \A q \in Procs : pc[q] \notin {"pin", "unpin"}
      /\ disk' = [disk EXCEPT ![want[p]] = data[idx[p]]]
      /\ rc' = [rc EXCEPT ![p] = refcnt[idx[p]]]
      /\ panicked' = (refcnt[idx[p]] <= 1) /\ Goto(p, "unpin")
      /\ UNCHANGED <<lru, blk, refcnt, valid, data, last, owner, logged, asleep, idx, want, torn>>
  BY DEF Install, Locked, NoPinning
<1>2. /\ idx[p] \in Bufs /\ want[p] \in Blocks /\ blk[idx[p]] = want[p]
      /\ refcnt[idx[p]] \in Nat /\ refcnt[idx[p]] >= 2
  BY <1>1, Referred
<1>3. panicked' = FALSE
  <2>1. (refcnt[idx[p]] <= 1) = FALSE  BY <1>2
  <2>2. panicked' = (refcnt[idx[p]] <= 1)  BY Zenon DEF Install
  <2> QED  BY <2>1, <2>2, Zenon
<1>4. data[idx[p]] = last[want[p]] /\ data[idx[p]] \in Data
  BY <1>0, <1>1, <1>2 DEF DataInv, TypeOK
<1>5. pc' \in [Procs -> Pcs] /\ pc'[p] = "unpin" /\ \A q \in Procs \ {p} : pc'[q] = pc[q]
  BY <1>0, <1>1, GotoIs DEF Pcs
<1>6. /\ disk' \in [Blocks -> Data] /\ disk'[want[p]] = last[want[p]]
      /\ \A x \in Blocks \ {want[p]} : disk'[x] = disk[x]
      /\ rc' \in [Procs -> Nat] /\ rc'[p] = refcnt[idx[p]]
  BY <1>0, <1>1, <1>2, <1>4 DEF TypeOK
<1>7. TypeOK'  BY <1>0, <1>1, <1>3, <1>5, <1>6 DEF TypeOK, Pcs
<1>8. OneBuffer' /\ BlockInv' /\ PanicInv'
  BY <1>0, <1>1, <1>3, <1>5 DEF OneBuffer, BlockInv, PanicInv
<1>9. SleepInv'
  <2>1. \A q \in asleep : q \in Procs /\ q # p  BY <1>0, <1>1 DEF SleepInv, TypeOK
  <2> QED  BY <1>0, <1>1, <1>5, <2>1 DEF SleepInv
<1>10. OwnerInv'  BY <1>0, <1>1, <1>5 DEF OwnerInv, Locked
<1>11. CountInv'
  <2>1. \A q \in Procs : pc'[q] = "out" <=> pc[q] = "out"  BY <1>1, <1>5
  <2> QED  BY <1>0, <1>1, <2>1, CountFrame
<1>12. \A q \in Procs : pc'[q] \in {"pin", "unpin"} => q = p  BY <1>1, <1>5
<1>13. PinInv'
  <2>1. want[p] \in LogBlocks  BY <1>0, <1>1 DEF RecordInv
  <2> QED  BY <1>1, <1>5, <1>6, <1>12, <2>1 DEF PinInv
<1>14. RecordInv'  BY <1>0, <1>1, <1>5, <1>12 DEF RecordInv
<1>15. DataInv'
  <2>1. ASSUME NEW x \in Blocks, disk'[x] # last'[x] PROVE x \in logged'
    <3>1. disk[x] # last[x]  BY <1>1, <1>6, <2>1
    <3> QED  BY <1>0, <1>1, <3>1 DEF DataInv
  <2>2. \A x \in logged' : \E j \in Bufs : blk'[j] = x /\ valid'[j]
    BY <1>0, <1>1 DEF DataInv
  <2>3. \A q \in Procs : pc'[q] = "unpin" => disk'[want'[q]] = last'[want'[q]]
    BY <1>1, <1>6, <1>12
  <2>4. \A q \in Procs : /\ pc'[q] \in {"hold", "pin", "unpin"} => valid'[idx'[q]]
                         /\ pc'[q] = "io" => ~valid'[idx'[q]]
    BY <1>0, <1>1, <1>5 DEF DataInv
  <2>5. \A j \in Bufs : valid'[j] => blk'[j] \in Blocks /\ data'[j] = last'[blk'[j]]
    BY <1>0, <1>1 DEF DataInv
  <2> QED  BY <2>1, <2>2, <2>3, <2>4, <2>5 DEF DataInv
<1> QED  BY <1>7, <1>8, <1>9, <1>10, <1>11, <1>13, <1>14, <1>15 DEF BufInv

(* unpin of the count it has read: one less, and the block is on the disk. *)
LEMMA UnpinStoreInv == ASSUME BufInv, NEW p \in Procs, UnpinStore(p), ~torn' PROVE BufInv'
<1>0. /\ TypeOK /\ OneBuffer /\ SleepInv /\ OwnerInv /\ BlockInv /\ CountInv
      /\ PinInv /\ RecordInv /\ DataInv
  BY DEF BufInv
<1>1. PICK i \in Bufs : i = idx[p] /\ pc[p] = "unpin" /\ pc[p] \in Locked
  BY <1>0 DEF TypeOK, UnpinStore, Locked
<1>2. rc[p] = refcnt[i] /\ want[p] \in logged
      /\ \A q \in Procs \ {p} : pc[q] \notin {"pin", "unpin"}
  BY <1>0, <1>1 DEF PinInv, UnpinStore, Overwrites
<1>3. /\ ~panicked /\ refcnt' = [refcnt EXCEPT ![i] = refcnt[i] - 1]
      /\ logged' = logged \ {want[p]} /\ Goto(p, "hold")
      /\ torn' = FALSE /\ UNCHANGED <<lru, blk, valid, data, disk, last, owner, asleep, idx, want, rc, panicked>>
  BY <1>1, <1>2 DEF UnpinStore, Overwrites, Unpinned
<1>4. pc' \in [Procs -> Pcs] /\ pc'[p] = "hold" /\ \A q \in Procs \ {p} : pc'[q] = pc[q]
  BY <1>0, <1>3, GotoIs DEF Pcs
<1>5. refcnt[i] \in Nat /\ refcnt[i] >= 2 /\ refcnt \in [Bufs -> Nat]
  BY <1>0, <1>1, <1>2, Referred DEF TypeOK
<1>6. /\ refcnt' \in [Bufs -> Nat] /\ refcnt'[i] = refcnt[i] - 1
      /\ \A j \in Bufs \ {i} : refcnt'[j] = refcnt[j]
  BY <1>3, <1>5
<1>7. TypeOK'  BY <1>0, <1>3, <1>4, <1>6 DEF TypeOK, Pcs
<1>8. OneBuffer' /\ BlockInv' /\ PanicInv'
  BY <1>0, <1>1, <1>3, <1>4 DEF OneBuffer, BlockInv, PanicInv
<1>9. SleepInv'
  <2>1. \A q \in asleep : q \in Procs /\ q # p  BY <1>0, <1>1 DEF SleepInv, TypeOK
  <2> QED  BY <1>0, <1>3, <1>4, <2>1 DEF SleepInv
<1>10. OwnerInv'  BY <1>0, <1>1, <1>3, <1>4 DEF OwnerInv, Locked
<1>11. CountInv'
  <2>1. \A j : Referring(j)' = Referring(j)  BY <1>1, <1>3, <1>4 DEF Referring
  <2>2. Pin(i) = 1 /\ Pin(i)' = 0 /\ \A j \in Bufs \ {i} : Pin(j)' = Pin(j)
    BY <1>1, <1>2, <1>3, PinOfBlock
  <2>3. ASSUME NEW j \in Bufs
        PROVE  IsFiniteSet(Referring(j)') /\ refcnt'[j] = Cardinality(Referring(j)') + Pin(j)'
    <3>1. IsFiniteSet(Referring(j)) /\ refcnt[j] = Cardinality(Referring(j)) + Pin(j)
      BY <1>0 DEF CountInv
    <3>2. Cardinality(Referring(j)) \in Nat  BY <3>1, FS_CardinalityType
    <3>3. CASE j = i
      <4>1. refcnt'[j] = Cardinality(Referring(j)) + 0  BY <1>6, <2>2, <3>1, <3>2, <3>3
      <4> QED  BY <2>1, <2>2, <3>1, <3>3, <4>1
    <3>4. CASE j # i
      <4>1. refcnt'[j] = refcnt[j] /\ Pin(j)' = Pin(j)  BY <1>6, <2>2, <3>4
      <4> QED  BY <2>1, <3>1, <4>1
    <3> QED  BY <3>3, <3>4
  <2> QED  BY <2>3 DEF CountInv
<1>12. PinInv'  BY <1>2, <1>4 DEF PinInv
<1>13. RecordInv'
  <2>1. IsFiniteSet(logged) /\ Cardinality(logged) <= MaxPins /\ logged \subseteq LogBlocks
    BY <1>0 DEF RecordInv
  <2>2. IsFiniteSet(logged') /\ Cardinality(logged') <= Cardinality(logged)
    BY <1>3, <2>1, FS_Subset
  <2>3. Cardinality(logged) \in Nat /\ Cardinality(logged') \in Nat /\ MaxPins \in Nat
    BY <2>1, <2>2, FS_CardinalityType, BufAssumption
  <2>4. Cardinality(logged') <= MaxPins  BY <2>1, <2>2, <2>3
  <2>5. logged' \subseteq LogBlocks  BY <1>3, <2>1
  <2> QED  BY <1>2, <1>4, <2>2, <2>4, <2>5 DEF RecordInv
<1>14. DataInv'
  <2>0. disk[want[p]] = last[want[p]]  BY <1>0, <1>1 DEF DataInv
  <2>1. \A x \in Blocks : disk'[x] # last'[x] => x \in logged'
    <3>1. \A q \in Procs : pc[q] # "pin"  BY <1>1, <1>2
    <3>2. \A x \in Blocks : disk[x] # last[x] => x \in logged  BY <1>0, <3>1 DEF DataInv
    <3> QED  BY <1>3, <2>0, <3>2
  <2>2. \A x \in logged' : \E j \in Bufs : blk'[j] = x /\ valid'[j]
    BY <1>0, <1>3 DEF DataInv
  <2>3. \A q \in Procs : pc'[q] # "unpin"  BY <1>2, <1>4
  <2>4. \A q \in Procs : /\ pc'[q] \in {"hold", "pin", "unpin"} => valid'[idx'[q]]
                         /\ pc'[q] = "io" => ~valid'[idx'[q]]
    BY <1>0, <1>1, <1>3, <1>4 DEF DataInv
  <2>5. \A j \in Bufs : valid'[j] => blk'[j] \in Blocks /\ data'[j] = last'[blk'[j]]
    BY <1>0, <1>3 DEF DataInv
  <2> QED  BY <2>1, <2>2, <2>3, <2>4, <2>5 DEF DataInv
<1> QED  BY <1>7, <1>8, <1>9, <1>10, <1>11, <1>12, <1>13, <1>14 DEF BufInv

-----------------------------------------------------------------------------
(***************************************************************************)
(* Dropping a Buf.                                                         *)
(***************************************************************************)

(* unlock wakes everybody who waits for this lock. *)
LEMMA UnlockInv == ASSUME BufInv, NEW p \in Procs, Unlock(p) PROVE BufInv'
<1>0. /\ TypeOK /\ OneBuffer /\ SleepInv /\ OwnerInv /\ BlockInv /\ CountInv
      /\ PinInv /\ RecordInv /\ DataInv
  BY DEF BufInv
<1>1. PICK i \in Bufs : i = idx[p] /\ pc[p] = "hold" /\ pc[p] \in Locked
  BY <1>0 DEF TypeOK, Unlock, Locked
<1>2. /\ ~panicked /\ owner' = [owner EXCEPT ![i] = None]
      /\ asleep' = {q \in asleep : idx[q] # i} /\ Goto(p, "rel")
      /\ UNCHANGED <<lru, blk, refcnt, valid, data, disk, last, logged, idx, want, rc, torn, panicked>>
  BY <1>1 DEF Unlock, Wake
<1>3. pc' \in [Procs -> Pcs] /\ pc'[p] = "rel" /\ \A q \in Procs \ {p} : pc'[q] = pc[q]
  BY <1>0, <1>2, GotoIs DEF Pcs
<1>4. /\ owner' \in [Bufs -> Procs \cup {None}] /\ \A j \in Bufs \ {i} : owner'[j] = owner[j]
  BY <1>0, <1>2 DEF TypeOK
<1>5. TypeOK'  BY <1>0, <1>2, <1>3, <1>4 DEF TypeOK, Pcs
<1>6. OneBuffer' /\ BlockInv' /\ PanicInv'
  BY <1>0, <1>1, <1>2, <1>3 DEF OneBuffer, BlockInv, PanicInv
<1>7. SleepInv'
  <2>1. \A q \in asleep : q \in Procs /\ q # p /\ idx[q] \in Bufs
    BY <1>0, <1>1 DEF SleepInv, TypeOK
  <2> QED  BY <1>0, <1>2, <1>3, <1>4, <2>1 DEF SleepInv
<1>8. OwnerInv'
  <2>1. ASSUME NEW q \in Procs, pc'[q] \in Locked PROVE owner'[idx'[q]] = q
    <3>1. q # p /\ pc[q] \in Locked  BY <1>3, <2>1 DEF Locked
    <3>2. idx[q] # i /\ idx[q] \in Bufs /\ owner[idx[q]] = q
      BY <1>0, <1>1, <3>1, Alone DEF OwnerInv, TypeOK
    <3> QED  BY <1>2, <1>4, <3>2
  <2> QED  BY <2>1 DEF OwnerInv
<1>9. CountInv'  BY <1>0, <1>1, <1>2, <1>3, CountFrame
<1>10. PinInv' /\ RecordInv'  BY <1>0, <1>2, <1>3, PinFrame
<1>11. DataInv'
  <2>1. \A q \in Procs : (pc'[q] \in Locked => pc[q] = pc'[q]) /\ (pc[q] = "pin" => pc'[q] = "pin")
    BY <1>1, <1>3 DEF Locked
  <2> QED  BY <1>0, <1>2, <2>1 DEF DataInv, Locked
<1> QED  BY <1>5, <1>6, <1>7, <1>8, <1>9, <1>10, <1>11 DEF BufInv

(* The last reference is dropped, and the buffer stays cached. *)
LEMMA BrelseInv == ASSUME BufInv, NEW p \in Procs, Brelse(p) PROVE BufInv'
<1>0. /\ TypeOK /\ OneBuffer /\ SleepInv /\ OwnerInv /\ BlockInv /\ CountInv
      /\ PinInv /\ RecordInv /\ DataInv
  BY DEF BufInv
<1>1. PICK i \in Bufs : i = idx[p] /\ pc[p] = "rel"
  BY <1>0 DEF TypeOK, Brelse
<1>2. refcnt[i] \in Nat /\ refcnt[i] >= 1 /\ p \in Referring(i) /\ refcnt \in [Bufs -> Nat]
  BY <1>0, <1>1, Referred DEF TypeOK
<1>3. /\ panicked' = (refcnt[i] = 0) /\ ~panicked
      /\ refcnt' = [refcnt EXCEPT ![i] = IF refcnt[i] = 0 THEN 0 ELSE refcnt[i] - 1]
      /\ lru' = (IF refcnt[i] = 1 THEN ToFront(i) ELSE lru)
      /\ Goto(p, "out")
      /\ UNCHANGED <<blk, valid, data, disk, last, owner, logged, asleep, idx, want, rc, torn>>
  BY <1>1 DEF Brelse
<1>4. /\ panicked' = FALSE /\ refcnt' \in [Bufs -> Nat] /\ refcnt'[i] = refcnt[i] - 1
      /\ \A j \in Bufs \ {i} : refcnt'[j] = refcnt[j]
  <2>1. refcnt[i] # 0 /\ refcnt[i] - 1 \in Nat  BY <1>2
  <2>2. panicked' = FALSE  BY <1>3, <2>1, Zenon
  <2>3. refcnt' = [refcnt EXCEPT ![i] = refcnt[i] - 1]  BY <1>3, <2>1
  <2> QED  BY <1>2, <2>1, <2>2, <2>3
<1>5. pc' \in [Procs -> Pcs] /\ pc'[p] = "out" /\ \A q \in Procs \ {p} : pc'[q] = pc[q]
  BY <1>0, <1>3, GotoIs DEF Pcs
<1>6. lru' \in [Bufs -> Bufs] /\ \A x \in Bufs : \E k \in Bufs : lru'[k] = x
  <2>1. CASE refcnt[i] = 1  BY <1>0, <1>3, <2>1, ToFrontIs
  <2>2. CASE refcnt[i] # 1  BY <1>0, <1>3, <2>2 DEF TypeOK
  <2> QED  BY <2>1, <2>2
<1>7. TypeOK'  BY <1>0, <1>3, <1>4, <1>5, <1>6 DEF TypeOK, Pcs
<1>8. OneBuffer' /\ BlockInv' /\ PanicInv'
  BY <1>0, <1>3, <1>4, <1>5 DEF OneBuffer, BlockInv, PanicInv
<1>9. SleepInv'
  <2>1. \A q \in asleep : q \in Procs /\ q # p  BY <1>0, <1>1 DEF SleepInv, TypeOK
  <2> QED  BY <1>0, <1>3, <1>5, <2>1 DEF SleepInv
<1>10. \A q \in Procs : (pc'[q] \in Locked => pc[q] = pc'[q]) /\ (pc[q] = "pin" => pc'[q] = "pin")
  BY <1>1, <1>5 DEF Locked
<1>11. OwnerInv'  BY <1>0, <1>3, <1>10 DEF OwnerInv
<1>12. CountInv'
  <2>1. Referring(i)' = Referring(i) \ {p}  BY <1>3, <1>5 DEF Referring
  <2>2. \A j \in Bufs \ {i} : Referring(j)' = Referring(j)
    BY <1>1, <1>3, <1>5 DEF Referring
  <2>3. \A j : Pin(j)' = Pin(j)  BY <1>3 DEF Pin
  <2>4. IsFiniteSet(Referring(i)) /\ refcnt[i] = Cardinality(Referring(i)) + Pin(i)
    BY <1>0 DEF CountInv
  <2>5. /\ IsFiniteSet(Referring(i)')
        /\ Cardinality(Referring(i)') = Cardinality(Referring(i)) - 1
    BY <1>2, <2>1, <2>4, FS_RemoveElement
  <2>6. Cardinality(Referring(i)) \in Nat /\ Pin(i) \in Nat
    BY <2>4, FS_CardinalityType DEF Pin
  <2>7. refcnt'[i] = Cardinality(Referring(i)') + Pin(i)
    BY <1>4, <2>4, <2>5, <2>6
  <2>8. ASSUME NEW j \in Bufs
        PROVE  IsFiniteSet(Referring(j)') /\ refcnt'[j] = Cardinality(Referring(j)') + Pin(j)'
    <3>1. CASE j = i  BY <2>3, <2>5, <2>7, <3>1
    <3>2. CASE j # i
      <4>1. IsFiniteSet(Referring(j)) /\ refcnt[j] = Cardinality(Referring(j)) + Pin(j)
        BY <1>0 DEF CountInv
      <4>2. refcnt'[j] = refcnt[j] /\ Referring(j)' = Referring(j)  BY <1>4, <2>2, <3>2
      <4> QED  BY <2>3, <4>1, <4>2
    <3> QED  BY <3>1, <3>2
  <2> QED  BY <2>8 DEF CountInv
<1>13. PinInv' /\ RecordInv'
  <2>1. \A q \in Procs : pc'[q] \in {"pin", "unpin"} =>
           pc'[q] = pc[q] /\ want'[q] = want[q]
    BY <1>3, <1>10 DEF Locked
  <2> QED  BY <1>0, <1>3, <2>1, PinFrame
<1>14. DataInv'  BY <1>0, <1>3, <1>10 DEF DataInv, Locked
<1> QED  BY <1>7, <1>8, <1>9, <1>11, <1>12, <1>13, <1>14 DEF BufInv

-----------------------------------------------------------------------------
(***************************************************************************)
(* The invariant holds.                                                    *)
(***************************************************************************)

(* binit establishes it. *)
LEMMA InitInv == Init => BufInv
<1> SUFFICES ASSUME Init PROVE BufInv
  OBVIOUS
<1>1. NBUF \in Nat /\ NBUF >= 1 /\ 1 \in Bufs /\ MaxPins \in Nat
  <2>1. NBUF \in Nat /\ NBUF # 0 /\ MaxPins \in Nat  BY BufAssumption
  <2> QED  BY <2>1 DEF Bufs
<1>2. TypeOK  BY <1>1 DEF Init, TypeOK
<1>3. OneBuffer /\ SleepInv /\ OwnerInv /\ BlockInv /\ PinInv /\ PanicInv
  BY DEF Init, OneBuffer, SleepInv, OwnerInv, BlockInv, PinInv, PanicInv, Locked
<1>4. RecordInv
  <2>1. IsFiniteSet({}) /\ Cardinality({}) = 0  BY FS_EmptySet
  <2>2. logged = {} /\ \A p \in Procs : pc[p] = "out"  BY DEF Init
  <2> QED  BY <1>1, <2>1, <2>2 DEF RecordInv
<1>5. CountInv
  <2>1. \A i : Referring(i) = {}  BY DEF Init, Referring
  <2>2. \A i : Pin(i) = 0  BY DEF Init, Pin
  <2>3. IsFiniteSet({}) /\ Cardinality({}) = 0  BY FS_EmptySet
  <2>4. \A i \in Bufs : refcnt[i] = 0 + 0  BY DEF Init
  <2> QED  BY <2>1, <2>2, <2>3, <2>4 DEF CountInv
<1>6. DataInv  BY DEF Init, DataInv
<1> QED  BY <1>2, <1>3, <1>4, <1>5, <1>6 DEF BufInv

(* What pin or unpin has overwritten once stays so. *)
LEMMA TornStays == [Next]_vars => (torn => torn')
<1> SUFFICES ASSUME [Next]_vars, torn PROVE torn'
  OBVIOUS
<1>1. CASE UNCHANGED vars  BY <1>1 DEF vars
<1>2. ASSUME NEW p \in Procs, NEW b \in Reach[p], Bget(p, b) PROVE torn'  BY <1>2 DEF Bget
<1>3. ASSUME NEW p \in Procs, NEW d \in Data, Bwrite(p, d) \/ LogWrite(p, d) PROVE torn'
  BY <1>3 DEF Bwrite, LogWrite
<1>4. ASSUME NEW p \in Procs,
             \/ Lock(p) \/ BreadIo(p) \/ PinStore(p) \/ Install(p)
             \/ UnpinStore(p) \/ Unlock(p) \/ Brelse(p)
      PROVE  torn'
  BY <1>4 DEF Lock, BreadIo, PinStore, Install, UnpinStore, Unlock, Brelse
<1> QED  BY <1>1, <1>2, <1>3, <1>4 DEF Next

(* Every step keeps it, but for a pin or unpin that overwrites a count.    *)
LEMMA StepInv == BufInv /\ [Next]_vars /\ ~torn' => BufInv'
<1> SUFFICES ASSUME BufInv, [Next]_vars, ~torn' PROVE BufInv'
  OBVIOUS
<1>1. CASE UNCHANGED vars
  <2>1. UNCHANGED <<lru, blk, refcnt, valid, data, owner, disk, last, logged, pc, asleep, idx,
                    want, rc, torn, panicked>>
    BY <1>1 DEF vars
  <2>2. \A i : Referring(i)' = Referring(i) /\ Pin(i)' = Pin(i)  BY <2>1 DEF Referring, Pin
  <2>3. CountInv'  BY <2>1, <2>2 DEF BufInv, CountInv
  <2>4. TypeOK'  BY <2>1 DEF BufInv, TypeOK
  <2>5. OneBuffer' /\ SleepInv' /\ OwnerInv' /\ BlockInv'
    BY <2>1 DEF BufInv, OneBuffer, SleepInv, OwnerInv, BlockInv
  <2>6. PinInv' /\ RecordInv'  BY <2>1, PinFrame DEF BufInv
  <2>7. DataInv' /\ PanicInv'  BY <2>1 DEF BufInv, DataInv, PanicInv, Unused
  <2> QED  BY <2>3, <2>4, <2>5, <2>6, <2>7 DEF BufInv
<1>2. ASSUME NEW p \in Procs, NEW b \in Reach[p], Bget(p, b) PROVE BufInv'
  <2>1. CASE Cached(b) # {}  BY <1>2, <2>1, BgetHit
  <2>2. CASE Cached(b) = {} /\ Unused # {}  BY <1>2, <2>2, BgetMiss
  <2>3. CASE Cached(b) = {} /\ Unused = {}  BY <1>2, <2>3, BgetPanic
  <2> QED  BY <2>1, <2>2, <2>3
<1>3. ASSUME NEW p \in Procs, Lock(p) PROVE BufInv'  BY <1>3, LockInv
<1>4. ASSUME NEW p \in Procs, BreadIo(p) PROVE BufInv'  BY <1>4, BreadIoInv
<1>5. ASSUME NEW p \in Procs, NEW d \in Data, Bwrite(p, d) PROVE BufInv'  BY <1>5, BwriteInv
<1>6. ASSUME NEW p \in Procs, NEW d \in Data, LogWrite(p, d) PROVE BufInv'  BY <1>6, LogWriteInv
<1>7. ASSUME NEW p \in Procs, PinStore(p) PROVE BufInv'  BY <1>7, PinStoreInv
<1>8. ASSUME NEW p \in Procs, Install(p) PROVE BufInv'  BY <1>8, InstallInv
<1>9. ASSUME NEW p \in Procs, UnpinStore(p) PROVE BufInv'  BY <1>9, UnpinStoreInv
<1>10. ASSUME NEW p \in Procs, Unlock(p) PROVE BufInv'  BY <1>10, UnlockInv
<1>11. ASSUME NEW p \in Procs, Brelse(p) PROVE BufInv'  BY <1>11, BrelseInv
<1> QED  BY <1>1, <1>2, <1>3, <1>4, <1>5, <1>6, <1>7, <1>8, <1>9, <1>10, <1>11 DEF Next

(* The counts are right, and with them the panic of bget. *)
LEMMA PinnedKept == (~torn => BufInv) => PinnedStays
<1> SUFFICES ASSUME BufInv PROVE PinnedStays
  BY DEF PinnedStays
<1>1. ASSUME panicked, NEW i \in Bufs PROVE refcnt[i] > 0
  <2>1. refcnt[i] \in Nat  BY DEF BufInv, TypeOK
  <2>2. refcnt[i] # 0  BY <1>1 DEF BufInv, PanicInv, Unused
  <2> QED  BY <2>1, <2>2
<1>2. ASSUME NEW i \in Bufs PROVE refcnt[i] = Cardinality(Referring(i)) + Cardinality(Pins(i))
  <2>1. Cardinality(Pins(i)) = Pin(i)
    <3>1. CASE blk[i] \in logged
      <4>1. Pins(i) = {blk[i]}  BY <3>1 DEF Pins
      <4>2. Cardinality({blk[i]}) = 1  BY FS_Singleton
      <4> QED  BY <3>1, <4>1, <4>2 DEF Pin
    <3>2. CASE blk[i] \notin logged
      <4>1. Pins(i) = {}  BY <3>2 DEF Pins
      <4>2. Cardinality({}) = 0  BY FS_EmptySet
      <4> QED  BY <3>2, <4>1, <4>2 DEF Pin
    <3> QED  BY <3>1, <3>2
  <2> QED  BY <2>1 DEF BufInv, CountInv
<1>3. \A b \in logged : \E i \in Bufs : blk[i] = b /\ valid[i] /\ data[i] = last[b]
  BY DEF BufInv, DataInv
<1> QED  BY <1>1, <1>2, <1>3 DEF PinnedStays

(* A holder has the block it asked for with its latest contents. *)
LEMMA LatestHeld == (~torn => BufInv) => HolderSeesLatest
<1> SUFFICES ASSUME BufInv PROVE HolderSeesLatest
  BY DEF HolderSeesLatest
<1>1. ASSUME NEW p \in Procs, pc[p] = "hold"
      PROVE  owner[idx[p]] = p /\ blk[idx[p]] = want[p] /\ data[idx[p]] = last[want[p]]
  <2>1. idx[p] \in Bufs /\ blk[idx[p]] = want[p]  BY <1>1, Referred
  <2>2. owner[idx[p]] = p  BY <1>1 DEF BufInv, OwnerInv, Locked
  <2>3. valid[idx[p]]  BY <1>1 DEF BufInv, DataInv
  <2> QED  BY <2>1, <2>2, <2>3 DEF BufInv, DataInv
<1>2. \A i, j \in Bufs : blk[i] = blk[j] /\ blk[i] # None => i = j  BY DEF BufInv, OneBuffer
<1> QED  BY <1>1, <1>2 DEF HolderSeesLatest

-----------------------------------------------------------------------------
(***************************************************************************)
(* What holds whatever happens to a count: the types, and that a sleeper   *)
(* has somebody to wait for.                                               *)
(***************************************************************************)

(* unpin stores no negative count, and a Buf has a block. *)
WakeInv == /\ TypeOK /\ SleepInv
           /\ \A p \in Procs : pc[p] = "unpin" => panicked \/ rc[p] >= 2
           /\ \A p \in Procs : pc[p] # "out" => want[p] \in Blocks

(* A step of one process keeps this when the process moves on awake. *)
LEMMA WakeFrame ==
  ASSUME WakeInv, NEW p \in Procs, p \notin asleep, UNCHANGED <<asleep, owner>>,
         TypeOK', panicked => panicked',
         \A q \in Procs \ {p} : pc'[q] = pc[q] /\ idx'[q] = idx[q] /\ want'[q] = want[q] /\ rc'[q] = rc[q],
         pc'[p] = "unpin" => panicked' \/ rc'[p] >= 2,
         pc'[p] # "out" => want'[p] \in Blocks
  PROVE  WakeInv'
<1>1. \A q \in asleep : q \in Procs /\ q # p  BY DEF WakeInv, TypeOK
<1>2. SleepInv'  BY <1>1 DEF WakeInv, SleepInv
<1> QED  BY <1>2 DEF WakeInv

(* Every step keeps it. *)
LEMMA WakeStep == WakeInv /\ [Next]_vars => WakeInv'
<1> SUFFICES ASSUME WakeInv, [Next]_vars PROVE WakeInv'
  OBVIOUS
<1>0. TypeOK /\ SleepInv  BY DEF WakeInv
<1>1. CASE UNCHANGED vars
  <2>1. UNCHANGED <<lru, blk, refcnt, valid, data, owner, disk, last, logged, pc, asleep, idx,
                    want, rc, torn, panicked>>
    BY <1>1 DEF vars
  <2> QED  BY <2>1 DEF WakeInv, TypeOK, SleepInv
<1>2. ASSUME NEW p \in Procs, pc[p] # "lock" PROVE p \notin asleep
  BY <1>0, <1>2 DEF SleepInv
<1>3. ASSUME NEW p \in Procs, NEW b \in Reach[p], Bget(p, b) PROVE WakeInv'
  <2>1. /\ ~panicked /\ pc[p] = "out" /\ b \in Blocks /\ want' = [want EXCEPT ![p] = b]
        /\ UNCHANGED <<lru, data, disk, last, owner, logged, asleep, rc, torn>>
    BY <1>3, Names DEF Bget
  <2>2. p \notin asleep  BY <1>2, <2>1
  <2>3. want' \in [Procs -> Blocks \cup {None}] /\ want'[p] = b /\ \A q \in Procs \ {p} : want'[q] = want[q]
    BY <1>0, <2>1 DEF TypeOK
  <2>4. CASE \E i \in Bufs : /\ idx' = [idx EXCEPT ![p] = i] /\ Goto(p, "lock")
                             /\ refcnt' = [refcnt EXCEPT ![i] = @ + 1]
                             /\ blk' = blk \/ blk' = [blk EXCEPT ![i] = b]
                             /\ valid' = valid \/ valid' = [valid EXCEPT ![i] = FALSE]
                             /\ panicked' = FALSE
    <3>1. PICK i \in Bufs : /\ idx' = [idx EXCEPT ![p] = i] /\ Goto(p, "lock")
                            /\ refcnt' = [refcnt EXCEPT ![i] = @ + 1]
                            /\ blk' = blk \/ blk' = [blk EXCEPT ![i] = b]
                            /\ valid' = valid \/ valid' = [valid EXCEPT ![i] = FALSE]
                            /\ panicked' = FALSE
      BY <2>4
    <3>2. pc' \in [Procs -> Pcs] /\ pc'[p] = "lock" /\ \A q \in Procs \ {p} : pc'[q] = pc[q]
      BY <1>0, <3>1, GotoIs DEF Pcs
    <3>3. /\ idx' \in [Procs -> Bufs] /\ \A q \in Procs \ {p} : idx'[q] = idx[q]
          /\ refcnt' \in [Bufs -> Nat] /\ blk' \in [Bufs -> Blocks \cup {None}]
          /\ valid' \in [Bufs -> BOOLEAN]
      <4>1. idx' \in [Procs -> Bufs] /\ \A q \in Procs \ {p} : idx'[q] = idx[q]
        BY <1>0, <3>1 DEF TypeOK
      <4>2. refcnt' \in [Bufs -> Nat]  BY <1>0, <3>1 DEF TypeOK
      <4>3. blk' \in [Bufs -> Blocks \cup {None}]  BY <1>0, <2>1, <3>1 DEF TypeOK
      <4>4. valid' \in [Bufs -> BOOLEAN]  BY <1>0, <3>1 DEF TypeOK
      <4> QED  BY <4>1, <4>2, <4>3, <4>4
    <3>4. TypeOK'  BY <1>0, <2>1, <2>3, <3>1, <3>2, <3>3 DEF TypeOK, Pcs
    <3> QED  BY <2>1, <2>2, <2>3, <3>1, <3>2, <3>3, <3>4, WakeFrame
  <2>5. CASE panicked' = TRUE /\ UNCHANGED <<idx, blk, refcnt, valid, pc>>
    <3>1. TypeOK'  BY <1>0, <2>1, <2>3, <2>5 DEF TypeOK
    <3> QED  BY <2>1, <2>2, <2>3, <2>5, <3>1, WakeFrame
  <2>6. CASE Cached(b) # {}
    <3>1. FirstCached(b) \in Bufs  BY <1>0, <2>6, FirstCachedIs
    <3>2. /\ idx' = [idx EXCEPT ![p] = FirstCached(b)] /\ Goto(p, "lock")
          /\ refcnt' = [refcnt EXCEPT ![FirstCached(b)] = @ + 1]
          /\ blk' = blk /\ valid' = valid /\ panicked' = panicked
      BY <1>3, <2>6 DEF Bget, Found
    <3>3. panicked' = FALSE  BY <1>0, <2>1, <3>2 DEF TypeOK
    <3> QED  BY <2>4, <3>1, <3>2, <3>3
  <2>7. CASE Cached(b) = {} /\ Unused # {}
    <3>1. Victim \in Bufs  BY <1>0, <2>7, VictimIs
    <3>2. /\ idx' = [idx EXCEPT ![p] = Victim] /\ Goto(p, "lock")
          /\ refcnt' = [refcnt EXCEPT ![Victim] = @ + 1]
          /\ blk' = [blk EXCEPT ![Victim] = b] /\ valid' = [valid EXCEPT ![Victim] = FALSE]
          /\ panicked' = FALSE
      BY <1>3, <2>7 DEF Bget, Invalidated
    <3> QED  BY <2>4, <3>1, <3>2
  <2>8. CASE Cached(b) = {} /\ Unused = {}  BY <1>3, <2>5, <2>8 DEF Bget
  <2> QED  BY <2>6, <2>7, <2>8
<1>4. ASSUME NEW p \in Procs, Lock(p) PROVE WakeInv'
  <2>1. /\ pc[p] = "lock" /\ p \notin asleep /\ idx[p] \in Bufs
        /\ UNCHANGED <<lru, blk, refcnt, valid, data, disk, last, logged, idx, want, rc, torn, panicked>>
    BY <1>0, <1>4 DEF Lock, TypeOK
  <2>2. CASE owner[idx[p]] # None /\ asleep' = asleep \cup {p} /\ UNCHANGED <<owner, pc>>
    <3>1. TypeOK'  BY <1>0, <2>1, <2>2 DEF TypeOK
    <3> QED  BY <2>1, <2>2, <3>1 DEF WakeInv, SleepInv
  <2>3. CASE /\ owner[idx[p]] = None /\ owner' = [owner EXCEPT ![idx[p]] = p]
             /\ \E to \in {"hold", "io"} : Goto(p, to)
             /\ UNCHANGED asleep
    <3>1. PICK to \in {"hold", "io"} : Goto(p, to)  BY <2>3
    <3>2. pc' \in [Procs -> Pcs] /\ pc'[p] = to /\ \A q \in Procs \ {p} : pc'[q] = pc[q]
      BY <1>0, <3>1, GotoIs DEF Pcs
    <3>3. /\ owner' \in [Bufs -> Procs \cup {None}] /\ owner'[idx[p]] = p
          /\ \A j \in Bufs \ {idx[p]} : owner'[j] = owner[j]
      BY <1>0, <2>1, <2>3 DEF TypeOK
    <3>4. TypeOK'  BY <1>0, <2>1, <2>3, <3>2, <3>3 DEF TypeOK, Pcs
    <3>5. SleepInv'
      <4>1. \A q \in asleep : q \in Procs /\ q # p /\ idx[q] \in Bufs /\ p # None
        BY <1>0, <2>1, Names DEF TypeOK
      <4> QED  BY <1>0, <2>1, <2>3, <3>2, <3>3, <4>1 DEF SleepInv
    <3>6. \A q \in Procs : (pc'[q] = "unpin" => pc[q] = "unpin") /\ (pc'[q] # "out" => pc[q] # "out")
      BY <2>1, <3>2
    <3> QED  BY <2>1, <3>4, <3>5, <3>6 DEF WakeInv
  <2> QED  BY <1>4, <2>2, <2>3 DEF Lock
<1>5. ASSUME NEW p \in Procs, BreadIo(p) PROVE WakeInv'
  <2>1. /\ pc[p] = "io" /\ Goto(p, "hold") /\ want[p] \in Blocks /\ p \notin asleep
        /\ data' = [data EXCEPT ![idx[p]] = disk[want[p]]]
        /\ valid' = [valid EXCEPT ![idx[p]] = TRUE]
        /\ UNCHANGED <<lru, blk, refcnt, disk, last, owner, logged, asleep, idx, want, rc, torn, panicked>>
    BY <1>2, <1>5 DEF BreadIo, WakeInv
  <2>2. pc' \in [Procs -> Pcs] /\ pc'[p] = "hold" /\ \A q \in Procs \ {p} : pc'[q] = pc[q]
    BY <1>0, <2>1, GotoIs DEF Pcs
  <2>3. data' \in [Bufs -> Data] /\ valid' \in [Bufs -> BOOLEAN]  BY <1>0, <2>1 DEF TypeOK
  <2>4. TypeOK'  BY <1>0, <2>1, <2>2, <2>3 DEF TypeOK, Pcs
  <2> QED  BY <2>1, <2>2, <2>4, WakeFrame
<1>6. ASSUME NEW p \in Procs, NEW d \in Data, Bwrite(p, d) PROVE WakeInv'
  <2>1. /\ pc[p] = "hold" /\ p \notin asleep /\ data' = [data EXCEPT ![idx[p]] = d]
        /\ last' = [last EXCEPT ![want[p]] = d] /\ disk' = [disk EXCEPT ![want[p]] = d]
        /\ UNCHANGED <<lru, blk, refcnt, valid, owner, logged, pc, asleep, idx, want, rc, torn, panicked>>
    BY <1>2, <1>6 DEF Bwrite
  <2>2. data' \in [Bufs -> Data] /\ last' \in [Blocks -> Data] /\ disk' \in [Blocks -> Data]
    BY <1>0, <2>1 DEF TypeOK
  <2>3. TypeOK'  BY <1>0, <2>1, <2>2 DEF TypeOK
  <2> QED  BY <2>1, <2>3 DEF WakeInv, SleepInv
<1>7. ASSUME NEW p \in Procs, NEW d \in Data, LogWrite(p, d) PROVE WakeInv'
  <2>1. /\ pc[p] = "hold" /\ p \notin asleep /\ want[p] \in Blocks
        /\ data' = [data EXCEPT ![idx[p]] = d] /\ last' = [last EXCEPT ![want[p]] = d]
        /\ \/ rc' = rc /\ pc' = pc
           \/ rc' = [rc EXCEPT ![p] = refcnt[idx[p]]] /\ Goto(p, "pin")
        /\ UNCHANGED <<lru, blk, refcnt, valid, disk, owner, logged, asleep, idx, want, torn, panicked>>
    BY <1>2, <1>7 DEF LogWrite, WakeInv
  <2>2. data' \in [Bufs -> Data] /\ last' \in [Blocks -> Data] /\ refcnt[idx[p]] \in Nat
    BY <1>0, <2>1 DEF TypeOK
  <2>3. /\ rc' \in [Procs -> Nat] /\ \A q \in Procs \ {p} : rc'[q] = rc[q]
    BY <1>0, <2>1, <2>2 DEF TypeOK
  <2>4. pc' \in [Procs -> Pcs] /\ pc'[p] \in {"hold", "pin"} /\ \A q \in Procs \ {p} : pc'[q] = pc[q]
    <3>1. CASE pc' = pc  BY <1>0, <2>1, <3>1 DEF TypeOK, Pcs
    <3>2. CASE Goto(p, "pin")  BY <1>0, <3>2, GotoIs DEF Pcs
    <3> QED  BY <2>1, <3>1, <3>2
  <2>5. TypeOK'  BY <1>0, <2>1, <2>2, <2>3, <2>4 DEF TypeOK, Pcs
  <2> QED  BY <2>1, <2>3, <2>4, <2>5, WakeFrame
<1>8. ASSUME NEW p \in Procs, PinStore(p) PROVE WakeInv'
  <2>1. /\ pc[p] = "pin" /\ p \notin asleep /\ want[p] \in Blocks /\ Goto(p, "hold")
        /\ refcnt' = [refcnt EXCEPT ![idx[p]] = rc[p] + 1] /\ logged' = logged \cup {want[p]}
        /\ torn' \in BOOLEAN
        /\ UNCHANGED <<lru, blk, valid, data, disk, last, owner, asleep, idx, want, rc, panicked>>
    BY <1>2, <1>8 DEF PinStore, Overwrites, WakeInv, Pinned
  <2>2. refcnt' \in [Bufs -> Nat]  BY <1>0, <2>1 DEF TypeOK
  <2>3. pc' \in [Procs -> Pcs] /\ pc'[p] = "hold" /\ \A q \in Procs \ {p} : pc'[q] = pc[q]
    BY <1>0, <2>1, GotoIs DEF Pcs
  <2>4. TypeOK'  BY <1>0, <2>1, <2>2, <2>3 DEF TypeOK, Pcs
  <2> QED  BY <2>1, <2>3, <2>4, WakeFrame
<1>9. ASSUME NEW p \in Procs, Install(p) PROVE WakeInv'
  <2>1. /\ ~panicked /\ pc[p] = "hold" /\ p \notin asleep /\ want[p] \in Blocks /\ Goto(p, "unpin")
        /\ disk' = [disk EXCEPT ![want[p]] = data[idx[p]]]
        /\ rc' = [rc EXCEPT ![p] = refcnt[idx[p]]]
        /\ UNCHANGED <<lru, blk, refcnt, valid, data, last, owner, logged, asleep, idx, want, torn>>
    BY <1>2, <1>9 DEF Install, WakeInv
  <2>2. panicked' = (refcnt[idx[p]] <= 1) /\ panicked' \in BOOLEAN
    <3>1. panicked' = (refcnt[idx[p]] <= 1)  BY <1>9, Zenon DEF Install
    <3>2. (refcnt[idx[p]] <= 1) \in BOOLEAN  OBVIOUS
    <3> QED  BY <3>1, <3>2, Zenon
  <2>3. refcnt[idx[p]] \in Nat /\ data[idx[p]] \in Data  BY <1>0 DEF TypeOK
  <2>4. /\ rc' \in [Procs -> Nat] /\ rc'[p] = refcnt[idx[p]] /\ \A q \in Procs \ {p} : rc'[q] = rc[q]
        /\ disk' \in [Blocks -> Data]
    BY <1>0, <2>1, <2>3 DEF TypeOK
  <2>5. pc' \in [Procs -> Pcs] /\ pc'[p] = "unpin" /\ \A q \in Procs \ {p} : pc'[q] = pc[q]
    BY <1>0, <2>1, GotoIs DEF Pcs
  <2>6. TypeOK'  BY <1>0, <2>1, <2>2, <2>4, <2>5 DEF TypeOK, Pcs
  <2>7. panicked' \/ rc'[p] >= 2
    <3>1. refcnt[idx[p]] <= 1 \/ refcnt[idx[p]] >= 2  BY <2>3
    <3>2. refcnt[idx[p]] <= 1 => panicked'  BY <2>2, Zenon
    <3> QED  BY <2>4, <3>1, <3>2
  <2> QED  BY <2>1, <2>4, <2>5, <2>6, <2>7, WakeFrame
<1>10. ASSUME NEW p \in Procs, UnpinStore(p) PROVE WakeInv'
  <2>1. /\ ~panicked /\ pc[p] = "unpin" /\ p \notin asleep /\ Goto(p, "hold") /\ want[p] \in Blocks
        /\ refcnt' = [refcnt EXCEPT ![idx[p]] = rc[p] - 1] /\ logged' = logged \ {want[p]}
        /\ torn' \in BOOLEAN
        /\ UNCHANGED <<lru, blk, valid, data, disk, last, owner, asleep, idx, want, rc, panicked>>
    BY <1>2, <1>10 DEF UnpinStore, Overwrites, WakeInv, Unpinned
  <2>2. rc[p] \in Nat /\ rc[p] >= 2 /\ refcnt \in [Bufs -> Nat]
    BY <1>0, <2>1 DEF WakeInv, TypeOK
  <2>3. refcnt' \in [Bufs -> Nat]
    <3>1. rc[p] - 1 \in Nat  BY <2>2
    <3> QED  BY <2>1, <2>2, <3>1
  <2>4. pc' \in [Procs -> Pcs] /\ pc'[p] = "hold" /\ \A q \in Procs \ {p} : pc'[q] = pc[q]
    BY <1>0, <2>1, GotoIs DEF Pcs
  <2>5. TypeOK'  BY <1>0, <2>1, <2>3, <2>4 DEF TypeOK, Pcs
  <2> QED  BY <2>1, <2>4, <2>5, WakeFrame
<1>11. ASSUME NEW p \in Procs, Unlock(p) PROVE WakeInv'
  <2>1. /\ pc[p] = "hold" /\ Goto(p, "rel") /\ p \notin asleep /\ idx[p] \in Bufs
        /\ owner' = [owner EXCEPT ![idx[p]] = None] /\ asleep' = {q \in asleep : idx[q] # idx[p]}
        /\ UNCHANGED <<lru, blk, refcnt, valid, data, disk, last, logged, idx, want, rc, torn, panicked>>
    BY <1>0, <1>2, <1>11 DEF Unlock, Wake, TypeOK
  <2>2. pc' \in [Procs -> Pcs] /\ pc'[p] = "rel" /\ \A q \in Procs \ {p} : pc'[q] = pc[q]
    BY <1>0, <2>1, GotoIs DEF Pcs
  <2>3. /\ owner' \in [Bufs -> Procs \cup {None}] /\ \A j \in Bufs \ {idx[p]} : owner'[j] = owner[j]
    BY <1>0, <2>1 DEF TypeOK
  <2>4. TypeOK'  BY <1>0, <2>1, <2>2, <2>3 DEF TypeOK, Pcs
  <2>5. SleepInv'
    <3>1. \A q \in asleep : q \in Procs /\ q # p /\ idx[q] \in Bufs
      BY <1>0, <2>1 DEF TypeOK
    <3> QED  BY <1>0, <2>1, <2>2, <2>3, <3>1 DEF SleepInv
  <2>6. \A q \in Procs : (pc'[q] = "unpin" => pc[q] = "unpin") /\ (pc'[q] # "out" => pc[q] # "out")
    BY <2>1, <2>2
  <2> QED  BY <2>1, <2>4, <2>5, <2>6 DEF WakeInv
<1>12. ASSUME NEW p \in Procs, Brelse(p) PROVE WakeInv'
  <2>1. /\ ~panicked /\ pc[p] = "rel" /\ Goto(p, "out") /\ p \notin asleep /\ idx[p] \in Bufs
        /\ refcnt' = [refcnt EXCEPT ![idx[p]] = IF @ = 0 THEN 0 ELSE @ - 1]
        /\ lru' = (IF refcnt[idx[p]] = 1 THEN ToFront(idx[p]) ELSE lru)
        /\ UNCHANGED <<blk, valid, data, disk, last, owner, logged, asleep, idx, want, rc, torn>>
    BY <1>0, <1>2, <1>12 DEF Brelse, TypeOK
  <2>2. panicked' \in BOOLEAN  BY <1>12, Zenon DEF Brelse
  <2>3. refcnt \in [Bufs -> Nat] /\ refcnt[idx[p]] \in Nat  BY <1>0, <2>1 DEF TypeOK
  <2>4. (IF refcnt[idx[p]] = 0 THEN 0 ELSE refcnt[idx[p]] - 1) \in Nat  BY <2>3
  <2>5. refcnt' \in [Bufs -> Nat]  BY <2>1, <2>3, <2>4
  <2>6. lru' \in [Bufs -> Bufs] /\ \A x \in Bufs : \E k \in Bufs : lru'[k] = x
    <3>1. CASE refcnt[idx[p]] = 1  BY <1>0, <2>1, <3>1, ToFrontIs
    <3>2. CASE refcnt[idx[p]] # 1  BY <1>0, <2>1, <3>2 DEF TypeOK
    <3> QED  BY <3>1, <3>2
  <2>7. pc' \in [Procs -> Pcs] /\ pc'[p] = "out" /\ \A q \in Procs \ {p} : pc'[q] = pc[q]
    BY <1>0, <2>1, GotoIs DEF Pcs
  <2>8. TypeOK'  BY <1>0, <2>1, <2>2, <2>5, <2>6, <2>7 DEF TypeOK, Pcs
  <2> QED  BY <2>1, <2>7, <2>8, WakeFrame
<1> QED  BY <1>1, <1>3, <1>4, <1>5, <1>6, <1>7, <1>8, <1>9, <1>10, <1>11, <1>12 DEF Next

-----------------------------------------------------------------------------
(***************************************************************************)
(* The theorems.                                                           *)
(***************************************************************************)

(* The small invariant holds in every behaviour. *)
LEMMA WakeAlways == Spec => []WakeInv
<1>1. Init => WakeInv
  <2>1. Init => TypeOK /\ SleepInv  BY InitInv DEF BufInv
  <2> QED  BY <2>1 DEF Init, WakeInv
<1> QED  BY <1>1, WakeStep, PTL DEF Spec

(* Every variable of the cache keeps its type, and the LRU list all its    *)
(* buffers, even when pin and unpin race with other references.            *)
THEOREM BufTypeCorrect == Spec => []TypeOK
<1>1. WakeInv => TypeOK  BY DEF WakeInv
<1> QED  BY <1>1, WakeAlways, PTL

(* SleepLock: a process asleep in lock() waits for a lock somebody holds,  *)
(* so that an unlock is still to come that wakes it.                       *)
THEOREM BufNoLostWakeup == Spec => []NoLostWakeup
<1>1. WakeInv => NoLostWakeup  BY DEF WakeInv, SleepInv, NoLostWakeup
<1> QED  BY <1>1, WakeAlways, PTL

(* Until a pin or unpin overwrites a count that a bget or brelse has       *)
(* changed since it read it, buffers, counts, pins and contents are as     *)
(* BufInv says, whoever uses which blocks.                                 *)
THEOREM BufInvariant == Spec => [](~torn => BufInv)
<1>1. Init => (~torn => BufInv)  BY InitInv
<1>2. (~torn => BufInv) /\ [Next]_vars => (~torn' => BufInv')  BY StepInv, TornStays
<1> QED  BY <1>1, <1>2, PTL DEF Spec

(* A holder has the block it asked for, in its only buffer and with the    *)
(* contents the last holder left: bget, the LRU list, brelse and the       *)
(* install loop lose no update; only an overwritten count can.             *)
THEOREM BufHolderSeesLatest == Spec => []HolderSeesLatest
BY BufInvariant, LatestHeld, PTL

(* The counts are right, recorded blocks stay cached, and the only panic   *)
(* is that of bget with every buffer held or pinned, until a count is      *)
(* overwritten.                                                            *)
THEOREM BufPinnedStays == Spec => []PinnedStays
BY BufInvariant, PinnedKept, PTL
====
