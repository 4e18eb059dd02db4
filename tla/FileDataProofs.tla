--------------------------- MODULE FileDataProofs ---------------------------
(***************************************************************************)
(* Proofs about the contents of files for any processes, files, sizes and  *)
(* block counts.                                                           *)
(***************************************************************************)
EXTENDS FileData, WellFoundedInduction, FiniteSetTheorems, TLAPS

Bytes == Nat \X Nat
Inode == [addrs : [0 .. NDIRECT -> 0 .. NBLOCK], size : Nat]
Ats == {"idle", "write", "wblock", "wfail", "read", "rblock"}
Call == [at : Ats, o : Objs \cup {None}, id : Nat, count : Nat, i : Nat, off : Nat, left : Nat]

(* The types of the variables. *)
TypeOK ==
    /\ used \subseteq Blocknos
    /\ data \in [Blocknos -> [0 .. BSIZE - 1 -> Bytes]]
    /\ ptr \in [Blocknos -> [0 .. NINDIRECT - 1 -> 0 .. NBLOCK]]
    /\ inode \in [Files -> Inode] /\ dinode \in [Files -> Inode]
    /\ owner \in [Files -> Procs \cup {None}]
    /\ file \in [Objs -> OpenFile \cup {None}]
    /\ ofile \in [Procs -> [Fds -> Objs \cup {None}]]
    /\ call \in [Procs -> Call]
    /\ wset \in [Procs -> SUBSET (0 .. NBLOCK + 1)]
    /\ flat \in [Files -> Seq(Bytes)]
    /\ ncall \in [{"write", "read", "open"} -> Nat]
    /\ panicked \in BOOLEAN

(* The process has an inode locked. *)
Busy(p) == call[p].at \in {"wblock", "wfail", "rblock"}

(* A descriptor refers to an open File, and a call works on a File that    *)
(* one of the caller's descriptors keeps open.                             *)
HandleInv ==
    /\ \A p \in Procs, fd \in Fds : ofile[p][fd] # None => file[ofile[p][fd]] # None
    /\ \A p \in Procs : call[p].at # "idle" =>
          call[p].o \in Objs /\ \E fd \in Fds : ofile[p][fd] = call[p].o

(* Who has an inode locked is at its blocks, and conversely. *)
LockInv ==
    /\ \A p \in Procs : Busy(p) => owner[InodeOf(p)] = p
    /\ \A f \in Files : owner[f] # None => Busy(owner[f]) /\ InodeOf(owner[f]) = f

(* An inode differs from the disk only while its writer is in an operation. *)
ImageInv == \A f \in Files : dinode[f] # inode[f] => \E p \in Procs : InOp(p) /\ InodeOf(p) = f

(* How far a call has come: a batch lies inside the largest file. *)
Sound(c) ==
    /\ c.i <= c.count
    /\ c.at \in {"write", "wblock", "wfail"} => c.i < c.count
    /\ c.at \in {"wblock", "wfail"} => c.left <= Batch(c) /\ c.off + Batch(c) <= MAX_FILE_SIZE
    /\ c.at = "wfail" => c.left > 0
    /\ c.at \in {"read", "rblock"} => c.i = 0
    /\ c.at = "rblock" => c.left <= c.count
CountInv == \A p \in Procs : Sound(call[p])

USE DEF disk, calls

-----------------------------------------------------------------------------
(***************************************************************************)
(* Numbers.                                                                *)
(***************************************************************************)

(* A nonempty set of naturals has a least element. *)
LEMMA HasLeast == ASSUME NEW S, S \subseteq Nat, S # {} PROVE \E x \in S : \A y \in S : x <= y
<1>1. \E x \in S : \A y \in S : ~(<<y, x>> \in OpToRel(<, Nat))
  BY NatLessThanWellFounded, WFMin
<1>2. PICK x \in S : \A y \in S : ~(<<y, x>> \in OpToRel(<, Nat))  BY <1>1
<1>3. ASSUME NEW y \in S PROVE x <= y
  <2>1. <<y, x>> \in Nat \X Nat /\ x \in Nat /\ y \in Nat  OBVIOUS
  <2>2. ~(y < x)  BY <1>2, <2>1 DEF OpToRel
  <2> QED  BY <2>1, <2>2
<1> QED  BY <1>3

(* The smaller of two numbers. *)
LEMMA MinPair ==
  ASSUME NEW a \in Nat, NEW b \in Nat
  PROVE  /\ Min({a, b}) \in Nat /\ Min({a, b}) \in {a, b}
         /\ Min({a, b}) <= a /\ Min({a, b}) <= b
<1>1. \E x \in {a, b} : \A y \in {a, b} : x <= y  OBVIOUS
<1>2. Min({a, b}) \in {a, b} /\ \A y \in {a, b} : Min({a, b}) <= y  BY <1>1 DEF Min
<1> QED  BY <1>2

(* The larger of two numbers. *)
LEMMA MaxPair ==
  ASSUME NEW a \in Nat, NEW b \in Nat
  PROVE  /\ Max({a, b}) \in Nat /\ Max({a, b}) \in {a, b}
         /\ Max({a, b}) >= a /\ Max({a, b}) >= b
<1>1. \E x \in {a, b} : \A y \in {a, b} : x >= y  OBVIOUS
<1>2. Max({a, b}) \in {a, b} /\ \A y \in {a, b} : Max({a, b}) >= y  BY <1>1 DEF Max
<1> QED  BY <1>2

(* The sizes are numbers. *)
LEMMA Sizes ==
  /\ BSIZE \in Nat \ {0} /\ NINDIRECT \in Nat \ {0} /\ NFILE \in Nat \ {0}
  /\ NBLOCK \in Nat \ {0} /\ NDIRECT \in Nat
  /\ MAXOPBLOCKS \in Nat /\ MAXOPBLOCKS >= 6
BY FileAssumption

(* bm_alloc returns a block of the disk, and a free one if there is any. *)
LEMMA BmAllocIs ==
  ASSUME used \subseteq Blocknos
  PROVE  BmAlloc \in Blocknos /\ (~Full => BmAlloc \notin used)
<1> DEFINE S == IF Full THEN Blocknos ELSE Blocknos \ used
<1>1. S \subseteq Blocknos /\ S # {} /\ S \subseteq Nat
  <2>1. 1 \in Blocknos /\ Blocknos \subseteq Nat  BY Sizes DEF Blocknos
  <2>2. ~Full => Blocknos \ used # {}  BY DEF Full
  <2> QED  BY <2>1, <2>2
<1>2. \E x \in S : \A y \in S : x <= y  BY <1>1, HasLeast
<1>3. Min(S) \in S  BY <1>2 DEF Min
<1>4. BmAlloc = Min(S)  BY DEF BmAlloc
<1> QED  BY <1>1, <1>3, <1>4

(* A batch is not longer than what is left of the call. *)
LEMMA BatchIs ==
  ASSUME NEW c \in Call, c.i <= c.count
  PROVE  /\ Batch(c) \in Nat /\ Batch(c) <= c.count - c.i
         /\ BATCH \in Nat /\ Batch(c) <= BATCH
<1>1. BATCH \in Nat
  <2>1. MAXOPBLOCKS - 4 \in Nat  BY Sizes
  <2>2. (MAXOPBLOCKS - 4) \div 2 \in Nat  BY <2>1
  <2> QED  BY <2>2, Sizes DEF BATCH
<1>2. c.count - c.i \in Nat  BY DEF Call
<1> QED  BY <1>1, <1>2, MinPair DEF Batch

(* The part of a block that the loops copy lies inside the block. *)
LEMMA ChunkIs ==
  ASSUME NEW x \in Nat, NEW n \in Nat
  PROVE  /\ Bn(x) \in Nat /\ Bo(x) \in 0 .. (BSIZE - 1) /\ x = BSIZE * Bn(x) + Bo(x)
         /\ Chunk(x, n) \in Nat /\ Chunk(x, n) <= n /\ Bo(x) + Chunk(x, n) <= BSIZE
         /\ n > 0 => Chunk(x, n) > 0
<1>0. BSIZE \in Nat \ {0}  BY Sizes
<1>1. Bn(x) \in Nat /\ Bo(x) \in 0 .. (BSIZE - 1) /\ x = BSIZE * Bn(x) + Bo(x)
  BY <1>0 DEF Bn, Bo
<1>2. BSIZE - Bo(x) \in Nat /\ BSIZE - Bo(x) > 0  BY <1>0, <1>1
<1>3. Chunk(x, n) = Min({BSIZE - Bo(x), n})  BY DEF Chunk
<1> QED  BY <1>0, <1>1, <1>2, <1>3, MinPair

-----------------------------------------------------------------------------
(***************************************************************************)
(* What the steps do to the call of their process.                         *)
(***************************************************************************)

(* A call that is somewhere is one of a File. *)
LEMMA CallOf ==
  ASSUME TypeOK, HandleInv, NEW p \in Procs, call[p].at # "idle"
  PROVE  /\ call[p] \in Call /\ call[p].o \in Objs
         /\ file[call[p].o] \in OpenFile /\ InodeOf(p) \in Files
<1>1. call[p] \in Call /\ call[p].o \in Objs  BY DEF TypeOK, HandleInv
<1>2. PICK fd \in Fds : ofile[p][fd] = call[p].o  BY DEF HandleInv
<1>3. call[p].o # None  BY <1>1, FileAssumption
<1>4. file[call[p].o] # None  BY <1>2, <1>3 DEF HandleInv
<1>5. file[call[p].o] \in OpenFile  BY <1>1, <1>4 DEF TypeOK
<1> QED  BY <1>1, <1>5 DEF InodeOf, OpenFile

(* Changing the call of one process. *)
LEMMA CallSet ==
  ASSUME TypeOK, NEW p \in Procs, NEW c \in Call, call' = [call EXCEPT ![p] = c]
  PROVE  /\ call' \in [Procs -> Call] /\ call'[p] = c
         /\ \A q \in Procs \ {p} : call'[q] = call[q]
<1>1. call \in [Procs -> Call]  BY DEF TypeOK
<1> QED  BY <1>1

(* The call that is none. *)
LEMMA IdleIs == Idle \in Call /\ Idle.at = "idle" /\ Idle.i = 0 /\ Idle.count = 0
BY DEF Idle, Call, Ats

(* The fields of a call. *)
LEMMA CallFields ==
  ASSUME NEW c \in Call
  PROVE  /\ c.at \in Ats /\ c.o \in Objs \cup {None} /\ c.id \in Nat /\ c.count \in Nat
         /\ c.i \in Nat /\ c.off \in Nat /\ c.left \in Nat
         /\ c = [at |-> c.at, o |-> c.o, id |-> c.id, count |-> c.count, i |-> c.i,
                 off |-> c.off, left |-> c.left]
BY DEF Call

(* write begins. *)
LEMMA SysWriteIs ==
  ASSUME TypeOK, NEW p \in Procs, NEW fd \in Fds, NEW n \in Counts, SysWrite(p, fd, n)
  PROVE  /\ call[p].at = "idle" /\ ofile[p][fd] \in Objs
         /\ ncall' \in [{"write", "read", "open"} -> Nat]
         /\ \E c \in Call : /\ call' = [call EXCEPT ![p] = c]
                            /\ c.at = "write" /\ c.o = ofile[p][fd] /\ c.count = n /\ c.i = 0
                            /\ c.id = ncall'["write"] /\ n \in Nat \ {0}
<1>1. ofile[p][fd] \in Objs  BY DEF TypeOK, SysWrite, ArgFd
<1>2. ncall' \in [{"write", "read", "open"} -> Nat]  BY DEF TypeOK, SysWrite, Counted
<1>3. n \in Nat \ {0}  BY FileAssumption
<1> DEFINE c == [at |-> "write", o |-> ofile[p][fd], id |-> ncall'["write"], count |-> n,
                 i |-> 0, off |-> 0, left |-> 0]
<1>4. c \in Call  BY <1>1, <1>2, <1>3 DEF Call, Ats
<1>5. call' = [call EXCEPT ![p] = c]
  <2>1. ASSUME NEW o, NEW id, NEW d, d = [Idle EXCEPT !.at = "write", !.o = o, !.id = id, !.count = n]
        PROVE  d = [at |-> "write", o |-> o, id |-> id, count |-> n, i |-> 0, off |-> 0, left |-> 0]
    BY <2>1 DEF Idle
  <2> QED  BY <2>1, Zenon DEF SysWrite
<1> QED  BY <1>1, <1>2, <1>3, <1>4, <1>5 DEF SysWrite, Ready

(* read begins. *)
LEMMA SysReadIs ==
  ASSUME TypeOK, NEW p \in Procs, NEW fd \in Fds, NEW n \in Wanted, SysRead(p, fd, n)
  PROVE  /\ call[p].at = "idle" /\ ofile[p][fd] \in Objs
         /\ ncall' \in [{"write", "read", "open"} -> Nat]
         /\ \E c \in Call : /\ call' = [call EXCEPT ![p] = c]
                            /\ c.at = "read" /\ c.o = ofile[p][fd] /\ c.count = n /\ c.i = 0
<1>1. ofile[p][fd] \in Objs  BY DEF TypeOK, SysRead, ArgFd
<1>2. ncall' \in [{"write", "read", "open"} -> Nat]  BY DEF TypeOK, SysRead, Counted
<1>3. n \in Nat \ {0}  BY FileAssumption
<1> DEFINE c == [at |-> "read", o |-> ofile[p][fd], id |-> 0, count |-> n,
                 i |-> 0, off |-> 0, left |-> 0]
<1>4. c \in Call  BY <1>1, <1>2, <1>3 DEF Call, Ats
<1>5. call' = [call EXCEPT ![p] = c]
  <2>1. ASSUME NEW o, NEW d, d = [Idle EXCEPT !.at = "read", !.o = o, !.count = n]
        PROVE  d = [at |-> "read", o |-> o, id |-> 0, count |-> n, i |-> 0, off |-> 0, left |-> 0]
    BY <2>1 DEF Idle
  <2> QED  BY <2>1, Zenon DEF SysRead
<1> QED  BY <1>1, <1>2, <1>3, <1>4, <1>5 DEF SysRead, Ready

(* A batch begins, or the call ends. *)
LEMMA WriteLockIs ==
  ASSUME TypeOK, HandleInv, CountInv, NEW p \in Procs, WriteLock(p)
  PROVE  /\ call[p].at = "write"
         /\ \E c \in Call :
              /\ call' = [call EXCEPT ![p] = c]
              /\ \/ /\ c = Idle /\ owner' = owner
                 \/ /\ c.at = "wblock" /\ c.o = call[p].o /\ c.id = call[p].id
                    /\ c.count = call[p].count /\ c.i = call[p].i
                    /\ c.off = file[call[p].o].off /\ c.left = Batch(call[p])
                    /\ Admitted(call[p], InodeOf(p))
                    /\ owner[InodeOf(p)] = None
                    /\ owner' = [owner EXCEPT ![InodeOf(p)] = p]
<1>1. call[p].at = "write"  BY DEF WriteLock
<1>2. call[p] \in Call /\ file[call[p].o] \in OpenFile  BY <1>1, CallOf
<1>3. call[p].i <= call[p].count  BY DEF CountInv, Sound
<1>4. Batch(call[p]) \in Nat /\ file[call[p].o].off \in Nat  BY <1>2, <1>3, BatchIs DEF OpenFile
<1>5. CASE call' = [call EXCEPT ![p] = Idle] /\ owner' = owner  BY <1>1, <1>5, IdleIs
<1>6. CASE /\ Admitted(call[p], InodeOf(p)) /\ Lock(p, InodeOf(p))
           /\ call' = [call EXCEPT ![p].at = "wblock", ![p].off = file[call[p].o].off,
                                   ![p].left = Batch(call[p])]
  <2> DEFINE c == [call[p] EXCEPT !.at = "wblock", !.off = file[call[p].o].off,
                                  !.left = Batch(call[p])]
  <2>1. /\ c \in Call /\ c.at = "wblock" /\ c.o = call[p].o /\ c.id = call[p].id
        /\ c.count = call[p].count /\ c.i = call[p].i
        /\ c.off = file[call[p].o].off /\ c.left = Batch(call[p])
    BY <1>2, <1>4 DEF Call, Ats
  <2>2. call' = [call EXCEPT ![p] = c]
    <3>1. call \in [Procs -> Call]  BY DEF TypeOK
    <3> QED  BY <1>6, <3>1
  <2> HIDE DEF c
  <2> QED  BY <1>1, <1>6, <2>1, <2>2 DEF Lock, Unlocked
<1> QED  BY <1>5, <1>6 DEF WriteLock, Return

(* Where a batch is in the file. *)
LEMMA PosIs ==
  ASSUME TypeOK, CountInv, NEW p \in Procs, InOp(p)
  PROVE  /\ call[p] \in Call /\ Batch(call[p]) \in Nat /\ call[p].left <= Batch(call[p])
         /\ Pos(call[p], Batch(call[p])) \in Nat
         /\ Pos(call[p], Batch(call[p])) = call[p].off + (Batch(call[p]) - call[p].left)
         /\ Batch(call[p]) <= call[p].count - call[p].i
         /\ call[p].i < call[p].count
<1>1. call[p] \in Call  BY DEF TypeOK
<1>2. call[p].i < call[p].count /\ call[p].left <= Batch(call[p])  BY DEF CountInv, Sound, InOp
<1>3. call[p].i <= call[p].count  BY DEF CountInv, Sound
<1>4. Batch(call[p]) \in Nat /\ Batch(call[p]) <= call[p].count - call[p].i  BY <1>1, <1>3, BatchIs
<1>5. call[p].off \in Nat /\ call[p].left \in Nat  BY <1>1, CallFields
<1> QED  BY <1>1, <1>2, <1>4, <1>5 DEF Pos

(* A turn of the loop of try_iwrite. *)
LEMMA WriteBlockIs ==
  ASSUME TypeOK, CountInv, NEW p \in Procs, WriteBlock(p)
  PROVE  /\ call[p].at = "wblock"
         /\ \E c \in Call :
              /\ call' = [call EXCEPT ![p] = c]
              /\ c.o = call[p].o /\ c.id = call[p].id /\ c.count = call[p].count
              /\ c.i = call[p].i /\ c.off = call[p].off
              /\ \/ /\ c.at = "wblock"
                    /\ c.left = call[p].left - Chunk(Pos(call[p], Batch(call[p])), call[p].left)
                 \/ c.at = "wfail" /\ c.left = call[p].left /\ c.left > 0
<1> DEFINE x == Pos(call[p], Batch(call[p]))
           n == Chunk(x, call[p].left)
<1>1. call[p].at = "wblock" /\ call[p].left > 0 /\ InOp(p)  BY DEF WriteBlock, InOp
<1>2. call[p] \in Call /\ x \in Nat  BY <1>1, PosIs
<1>3. call[p].left \in Nat  BY <1>2, CallFields
<1>4. n \in Nat /\ n <= call[p].left  BY <1>2, <1>3, ChunkIs
<1>5. \/ call' = [call EXCEPT ![p].left = @ - n]
      \/ call' = [call EXCEPT ![p].at = "wfail"]
  BY DEF WriteBlock
<1>6. call \in [Procs -> Call]  BY DEF TypeOK
<1>7. CASE call' = [call EXCEPT ![p].left = @ - n]
  <2> DEFINE c == [call[p] EXCEPT !.left = call[p].left - n]
  <2> HIDE DEF n
  <2>1. /\ c \in Call /\ c.at = "wblock" /\ c.o = call[p].o /\ c.id = call[p].id
        /\ c.count = call[p].count /\ c.i = call[p].i
        /\ c.off = call[p].off /\ c.left = call[p].left - n
    BY <1>1, <1>2, <1>3, <1>4 DEF Call
  <2>2. call' = [call EXCEPT ![p] = c]  BY <1>6, <1>7
  <2> HIDE DEF c
  <2> QED  BY <1>1, <2>1, <2>2 DEF n
<1>8. CASE call' = [call EXCEPT ![p].at = "wfail"]
  <2> DEFINE c == [call[p] EXCEPT !.at = "wfail"]
  <2>1. /\ c \in Call /\ c.at = "wfail" /\ c.o = call[p].o /\ c.id = call[p].id
        /\ c.count = call[p].count /\ c.i = call[p].i
        /\ c.off = call[p].off /\ c.left = call[p].left /\ c.left > 0
    BY <1>1, <1>2, <1>3 DEF Call, Ats
  <2>2. call' = [call EXCEPT ![p] = c]  BY <1>6, <1>8
  <2> HIDE DEF c
  <2> QED  BY <1>1, <2>1, <2>2
<1> QED  BY <1>5, <1>7, <1>8

(* A batch ends. *)
LEMMA WriteEndIs ==
  ASSUME TypeOK, HandleInv, CountInv, NEW p \in Procs, WriteEnd(p)
  PROVE  /\ InOp(p) /\ (call[p].at = "wblock" => call[p].left = 0)
         /\ file' = [file EXCEPT ![call[p].o].off =
                         @ + (Batch(call[p]) - call[p].left)]
         /\ file' \in [Objs -> OpenFile \cup {None}]
         /\ owner' = [owner EXCEPT ![InodeOf(p)] = None]
         /\ \E c \in Call :
              /\ call' = [call EXCEPT ![p] = c]
              /\ \/ c = Idle
                 \/ /\ c.at = "write" /\ c.o = call[p].o /\ c.id = call[p].id
                    /\ c.count = call[p].count /\ c.i < c.count /\ call[p].left = 0
                    /\ c.i = call[p].i + (Batch(call[p]) - call[p].left)
<1> DEFINE done == Batch(call[p]) - call[p].left
<1>1. InOp(p) /\ (call[p].at = "wblock" => call[p].left = 0)  BY DEF WriteEnd, InOp
<1>2. call[p] \in Call /\ done \in Nat
      /\ Batch(call[p]) <= call[p].count - call[p].i /\ Batch(call[p]) \in Nat
  BY <1>1, PosIs, CallFields
<1>3. call[p].o \in Objs /\ file[call[p].o] \in OpenFile  BY <1>1, CallOf DEF InOp
<1>4. /\ file' = [file EXCEPT ![call[p].o].off = @ + done]
      /\ owner' = [owner EXCEPT ![InodeOf(p)] = None]
  BY DEF WriteEnd
<1>5. file' \in [Objs -> OpenFile \cup {None}]
  <2>1. file \in [Objs -> OpenFile \cup {None}]  BY DEF TypeOK
  <2>2. [file[call[p].o] EXCEPT !.off = @ + done] \in OpenFile  BY <1>2, <1>3 DEF OpenFile
  <2>3. file' = [file EXCEPT ![call[p].o] = [file[call[p].o] EXCEPT !.off = @ + done]]
    BY <1>3, <1>4, <2>1
  <2> QED  BY <1>3, <2>1, <2>2, <2>3
<1>6. \/ call' = [call EXCEPT ![p] = Idle]
      \/ /\ call[p].left = 0 \/ ~(call[p].left > 0)
         /\ call[p].i + done # call[p].count
         /\ call' = [call EXCEPT ![p] = [call[p] EXCEPT !.at = "write", !.i = @ + done,
                                                     !.off = 0, !.left = 0]]
  BY DEF WriteEnd, Return
<1>7. CASE call' = [call EXCEPT ![p] = Idle]  BY <1>1, <1>4, <1>5, <1>7, IdleIs
<1>8. CASE /\ call[p].left = 0 \/ ~(call[p].left > 0)
           /\ call[p].i + done # call[p].count
           /\ call' = [call EXCEPT ![p] = [call[p] EXCEPT !.at = "write", !.i = @ + done,
                                                       !.off = 0, !.left = 0]]
  <2>1. PICK d \in Nat : d = done  BY <1>2
  <2> DEFINE c == [call[p] EXCEPT !.at = "write", !.i = @ + d, !.off = 0, !.left = 0]
  <2>2. /\ call[p].i \in Nat /\ call[p].count \in Nat /\ call[p].left = 0 /\ d = Batch(call[p])
    BY <1>2, <1>8, <2>1, CallFields
  <2>3. call[p].i + d < call[p].count  BY <1>2, <1>8, <2>1, <2>2
  <2>4. ASSUME NEW r \in Call, NEW k \in Nat, NEW e,
               e = [r EXCEPT !.at = "write", !.i = k, !.off = 0, !.left = 0]
        PROVE  e = [at |-> "write", o |-> r.o, id |-> r.id, count |-> r.count, i |-> k,
                    off |-> 0, left |-> 0]
    BY <2>4 DEF Call
  <2>5. c = [at |-> "write", o |-> call[p].o, id |-> call[p].id, count |-> call[p].count,
             i |-> call[p].i + d, off |-> 0, left |-> 0]
    <3>1. call[p].i + d \in Nat  BY <2>2
    <3> QED  BY <1>2, <2>4, <3>1, Zenon
  <2>6. /\ c \in Call /\ c.at = "write" /\ c.o = call[p].o /\ c.id = call[p].id
        /\ c.count = call[p].count /\ c.i = call[p].i + d
    <3>1. /\ call[p].o \in Objs \cup {None} /\ call[p].id \in Nat /\ call[p].count \in Nat
          /\ call[p].i + d \in Nat /\ "write" \in Ats /\ 0 \in Nat
      BY <1>2, <2>2, CallFields DEF Ats
    <3> HIDE DEF c
    <3> QED  BY <2>5, <3>1 DEF Call
  <2>7. call' = [call EXCEPT ![p] = c]  BY <1>8, <2>1
  <2> HIDE DEF c
  <2> QED  BY <1>1, <1>4, <1>5, <2>1, <2>2, <2>3, <2>6, <2>7
<1> QED  BY <1>6, <1>7, <1>8

(* A read has its lock. *)
LEMMA ReadLockIs ==
  ASSUME TypeOK, HandleInv, NEW p \in Procs, ReadLock(p)
  PROVE  /\ call[p].at = "read" /\ owner[InodeOf(p)] = None
         /\ owner' = [owner EXCEPT ![InodeOf(p)] = p]
         /\ \E c \in Call :
              /\ call' = [call EXCEPT ![p] = c]
              /\ c.at = "rblock" /\ c.o = call[p].o /\ c.i = call[p].i
              /\ c.off = file[call[p].o].off /\ c.left = c.count
              /\ c.left > 0 => c.off + c.left <= inode[InodeOf(p)].size
<1> DEFINE f == InodeOf(p)
           off == file[call[p].o].off
           m == IF off > inode[f].size THEN 0 ELSE Min({call[p].count, inode[f].size - off})
<1>1. call[p].at = "read" /\ owner[f] = None /\ owner' = [owner EXCEPT ![f] = p]
  BY DEF ReadLock, Lock, Unlocked
<1>2. call[p] \in Call /\ file[call[p].o] \in OpenFile /\ f \in Files  BY <1>1, CallOf
<1>3. off \in Nat /\ inode[f].size \in Nat /\ call[p].count \in Nat
  BY <1>2, CallFields DEF OpenFile, TypeOK, Inode
<1>4. m \in Nat /\ (m > 0 => off + m <= inode[f].size)
  <2>1. CASE off > inode[f].size  BY <2>1
  <2>2. CASE ~(off > inode[f].size)
    <3>1. inode[f].size - off \in Nat  BY <1>3, <2>2
    <3> QED  BY <1>3, <2>2, <3>1, MinPair
  <2> QED  BY <2>1, <2>2
<1>5. call' = [call EXCEPT ![p] = [call[p] EXCEPT !.at = "rblock", !.off = off,
                                                  !.count = m, !.left = m]]
  BY DEF ReadLock
<1>6. PICK k \in Nat, o \in Nat : k = m /\ o = off  BY <1>3, <1>4
<1> DEFINE c == [call[p] EXCEPT !.at = "rblock", !.off = o, !.count = k, !.left = k]
<1>7. /\ c \in Call /\ c.at = "rblock" /\ c.o = call[p].o /\ c.i = call[p].i
      /\ c.off = o /\ c.left = k /\ c.count = k
  BY <1>2 DEF Call, Ats
<1>8. call' = [call EXCEPT ![p] = c]  BY <1>5, <1>6
<1> HIDE DEF c
<1> QED  BY <1>1, <1>4, <1>6, <1>7, <1>8

(* A turn of the loop of iread. *)
LEMMA ReadBlockIs ==
  ASSUME TypeOK, CountInv, NEW p \in Procs, ReadBlock(p)
  PROVE  /\ call[p].at = "rblock"
         /\ \E c \in Call :
              /\ call' = [call EXCEPT ![p] = c]
              /\ c.at = "rblock" /\ c.o = call[p].o /\ c.count = call[p].count
              /\ c.i = call[p].i /\ c.off = call[p].off
              /\ c.left = call[p].left - Chunk(Pos(call[p], call[p].count), call[p].left)
              /\ c.left <= call[p].left
<1> DEFINE x == Pos(call[p], call[p].count)
           n == Chunk(x, call[p].left)
<1>1. call[p].at = "rblock" /\ call[p].left > 0  BY DEF ReadBlock
<1>2. call[p] \in Call /\ call[p].left <= call[p].count  BY <1>1 DEF TypeOK, CountInv, Sound
<1>3. call[p].left \in Nat /\ call[p].count \in Nat /\ call[p].off \in Nat  BY <1>2, CallFields
<1>4. x \in Nat  BY <1>2, <1>3 DEF Pos
<1>5. n \in Nat /\ n <= call[p].left  BY <1>3, <1>4, ChunkIs
<1>6. call' = [call EXCEPT ![p].left = @ - n]  BY DEF ReadBlock
<1>7. call \in [Procs -> Call]  BY DEF TypeOK
<1> DEFINE c == [call[p] EXCEPT !.left = call[p].left - n]
<1> HIDE DEF n
<1>8. /\ c \in Call /\ c.at = "rblock" /\ c.o = call[p].o
      /\ c.count = call[p].count /\ c.i = call[p].i
      /\ c.off = call[p].off /\ c.left = call[p].left - n /\ c.left <= call[p].left
  BY <1>1, <1>2, <1>3, <1>5 DEF Call
<1>9. call' = [call EXCEPT ![p] = c]  BY <1>6, <1>7
<1> HIDE DEF c
<1> QED  BY <1>1, <1>8, <1>9 DEF n

(* A read ends. *)
LEMMA ReadEndIs ==
  ASSUME TypeOK, HandleInv, NEW p \in Procs, ReadEnd(p)
  PROVE  /\ call[p].at = "rblock"
         /\ \/ file' = [file EXCEPT ![call[p].o].off = @ + call[p].count]
            \/ file' = file
         /\ file' \in [Objs -> OpenFile \cup {None}]
         /\ owner' = [owner EXCEPT ![InodeOf(p)] = None]
         /\ call' = [call EXCEPT ![p] = Idle]
<1>1. /\ call[p].at = "rblock" /\ call' = [call EXCEPT ![p] = Idle]
      /\ owner' = [owner EXCEPT ![InodeOf(p)] = None]
  BY DEF ReadEnd, Return
<1>2. \/ file' = [file EXCEPT ![call[p].o].off = @ + call[p].count]
      \/ file' = file
  BY DEF ReadEnd
<1>3. file \in [Objs -> OpenFile \cup {None}]  BY DEF TypeOK
<1>4. call[p].o \in Objs /\ file[call[p].o] \in OpenFile /\ call[p].count \in Nat
  BY <1>1, CallOf, CallFields
<1>5. CASE file' = [file EXCEPT ![call[p].o].off = @ + call[p].count]
  <2>1. PICK d \in Nat : d = call[p].count  BY <1>4
  <2>2. [file[call[p].o] EXCEPT !.off = @ + d] \in OpenFile  BY <1>4 DEF OpenFile
  <2>3. file' = [file EXCEPT ![call[p].o] = [file[call[p].o] EXCEPT !.off = @ + d]]
    BY <1>3, <1>4, <1>5, <2>1
  <2>4. file' \in [Objs -> OpenFile \cup {None}]  BY <1>3, <1>4, <2>2, <2>3
  <2> QED  BY <1>1, <1>2, <2>4
<1> QED  BY <1>1, <1>2, <1>3, <1>5

-----------------------------------------------------------------------------
(***************************************************************************)
(* Descriptors, locks and offsets.                                         *)
(***************************************************************************)

(* How a step of process p, whose call becomes c, leaves Files and locks:  *)
(* no lock is held before and after it; or the same one; or one is taken,  *)
(* and the offset read; or one is given up, and the offset may move.       *)
Aside(p, c) == /\ ~Busy(p) /\ c.at \notin {"wblock", "wfail", "rblock"}
               /\ owner' = owner /\ file' = file
Within(p, c) == /\ Busy(p) /\ c.at \in {"wblock", "wfail", "rblock"}
                /\ owner' = owner /\ file' = file
                /\ c.o = call[p].o /\ c.off = call[p].off
Takes(p, c) == /\ ~Busy(p) /\ c.at \in {"wblock", "wfail", "rblock"}
               /\ owner[InodeOf(p)] = None /\ owner' = [owner EXCEPT ![InodeOf(p)] = p]
               /\ file' = file
               /\ call[p].at # "idle" /\ c.o = call[p].o /\ c.off = file[call[p].o].off
Gives(p, c) == /\ Busy(p) /\ c.at \notin {"wblock", "wfail", "rblock"}
               /\ owner' = [owner EXCEPT ![InodeOf(p)] = None]
               /\ \/ file' = file
                  \/ \E d \in Nat : file' = [file EXCEPT ![call[p].o].off = @ + d]

(* A step of a call keeps the Files of descriptors and calls. *)
LEMMA FilesKept ==
  ASSUME TypeOK, HandleInv, NEW p \in Procs, NEW c \in Call,
         Aside(p, c) \/ Within(p, c) \/ Takes(p, c) \/ Gives(p, c)
  PROVE  \A o \in Objs : /\ file'[o] = None <=> file[o] = None
                         /\ file[o] # None => file'[o].inode = file[o].inode
                         /\ file'[o] # file[o] => o = call[p].o
<1>1. CASE file' = file  BY <1>1
<1>2. CASE Busy(p) /\ \E d \in Nat : file' = [file EXCEPT ![call[p].o].off = @ + d]
  <2>1. PICK d \in Nat : file' = [file EXCEPT ![call[p].o].off = @ + d]  BY <1>2
  <2>2. call[p].at # "idle"  BY <1>2 DEF Busy
  <2>3. call[p].o \in Objs /\ file[call[p].o] \in OpenFile  BY <2>2, CallOf
  <2>4. file \in [Objs -> OpenFile \cup {None}]  BY DEF TypeOK
  <2>5. ASSUME NEW o \in Objs, o # call[p].o PROVE file'[o] = file[o]
    BY <2>1, <2>3, <2>4, <2>5
  <2>6. /\ file'[call[p].o] \in OpenFile
        /\ file'[call[p].o].inode = file[call[p].o].inode
    <3>1. file'[call[p].o] = [file[call[p].o] EXCEPT !.off = @ + d]  BY <2>1, <2>3, <2>4
    <3> QED  BY <2>3, <3>1 DEF OpenFile
  <2>7. file'[call[p].o] # None /\ file[call[p].o] # None  BY <2>3, <2>6, FileAssumption
  <2> QED  BY <2>5, <2>6, <2>7
<1> QED  BY <1>1, <1>2 DEF Aside, Within, Takes, Gives

(* A step of a call leaves the calls of the others as they are. *)
LEMMA OthersKept ==
  ASSUME TypeOK, HandleInv, NEW p \in Procs, NEW c \in Call, call' = [call EXCEPT ![p] = c],
         Aside(p, c) \/ Within(p, c) \/ Takes(p, c) \/ Gives(p, c)
  PROVE  /\ call'[p] = c
         /\ \A q \in Procs \ {p} : call'[q] = call[q]
         /\ \A q \in Procs \ {p} : call[q].at # "idle" => InodeOf(q)' = InodeOf(q)
         /\ c.at # "idle" /\ c.o = call[p].o /\ call[p].at # "idle" => InodeOf(p)' = InodeOf(p)
<1>1. call'[p] = c /\ \A q \in Procs \ {p} : call'[q] = call[q]  BY CallSet
<1>2. ASSUME NEW q \in Procs, call[q].at # "idle", call'[q].o = call[q].o
      PROVE  InodeOf(q)' = InodeOf(q)
  <2>1. call[q].o \in Objs /\ file[call[q].o] \in OpenFile  BY <1>2, CallOf
  <2>2. file[call[q].o] # None  BY <2>1, FileAssumption
  <2>3. file'[call[q].o].inode = file[call[q].o].inode  BY <2>1, <2>2, FilesKept
  <2> QED  BY <1>2, <2>3 DEF InodeOf
<1> QED  BY <1>1, <1>2

(* A step of a call keeps HandleInv. *)
LEMMA CallHandle ==
  ASSUME TypeOK, HandleInv, NEW p \in Procs, NEW c \in Call, call' = [call EXCEPT ![p] = c],
         Aside(p, c) \/ Within(p, c) \/ Takes(p, c) \/ Gives(p, c), ofile' = ofile,
         c.at # "idle" => c.o \in Objs /\ \E fd \in Fds : ofile[p][fd] = c.o
  PROVE  HandleInv'
<1>1. ASSUME NEW q \in Procs, NEW fd \in Fds, ofile[q][fd] # None
      PROVE  file'[ofile[q][fd]] # None
  <2>1. file[ofile[q][fd]] # None  BY <1>1 DEF HandleInv
  <2>2. ofile[q][fd] \in Objs  BY <1>1 DEF TypeOK
  <2> QED  BY <2>1, <2>2, FilesKept
<1>2. ASSUME NEW q \in Procs, call'[q].at # "idle"
      PROVE  call'[q].o \in Objs /\ \E fd \in Fds : ofile[q][fd] = call'[q].o
  <2>1. CASE q = p
    <3>1. call'[q] = c  BY <2>1, CallSet
    <3>2. c.at # "idle"  BY <1>2, <3>1
    <3> QED  BY <2>1, <3>1, <3>2
  <2>2. CASE q # p
    <3>1. call'[q] = call[q]  BY <2>2, OthersKept
    <3> QED  BY <1>2, <3>1 DEF HandleInv
  <2> QED  BY <2>1, <2>2
<1> QED  BY <1>1, <1>2 DEF HandleInv

(* A step of a call keeps LockInv. *)
LEMMA CallLock ==
  ASSUME TypeOK, HandleInv, LockInv, NEW p \in Procs, NEW c \in Call,
         call' = [call EXCEPT ![p] = c],
         Aside(p, c) \/ Within(p, c) \/ Takes(p, c) \/ Gives(p, c)
  PROVE  LockInv'
<1>0. /\ call'[p] = c
      /\ \A q \in Procs \ {p} : Busy(q)' = Busy(q) /\ (Busy(q) => InodeOf(q)' = InodeOf(q))
  BY OthersKept DEF Busy
<1>1. owner \in [Files -> Procs \cup {None}] /\ None \notin Procs  BY FileAssumption DEF TypeOK
<1>2. /\ \A q \in Procs : Busy(q) => owner[InodeOf(q)] = q
      /\ \A f \in Files : owner[f] # None => Busy(owner[f]) /\ InodeOf(owner[f]) = f
  BY DEF LockInv
<1>3. \A q \in Procs : Busy(q) => InodeOf(q) \in Files
  <2>1. ASSUME NEW q \in Procs, Busy(q) PROVE call[q].at # "idle"  BY <2>1 DEF Busy
  <2> QED  BY <2>1, CallOf
<1>4. CASE Aside(p, c)
  <2>1. ~Busy(p) /\ ~Busy(p)' /\ owner' = owner  BY <1>0, <1>4 DEF Aside, Busy
  <2> QED  BY <1>0, <1>1, <1>2, <2>1 DEF LockInv
<1>5. CASE Within(p, c)
  <2>1. Busy(p) /\ Busy(p)' /\ owner' = owner  BY <1>0, <1>5 DEF Within, Busy
  <2>2. InodeOf(p)' = InodeOf(p)
    <3>1. c.at # "idle" /\ c.o = call[p].o /\ call[p].at # "idle"  BY <1>5 DEF Within, Busy
    <3> QED  BY <1>5, <3>1, OthersKept
  <2> QED  BY <1>0, <1>1, <1>2, <2>1, <2>2 DEF LockInv
<1>6. CASE Takes(p, c)
  <2>1. /\ ~Busy(p) /\ Busy(p)' /\ owner[InodeOf(p)] = None
        /\ owner' = [owner EXCEPT ![InodeOf(p)] = p]
    BY <1>0, <1>6 DEF Takes, Busy
  <2>2. InodeOf(p)' = InodeOf(p)
    <3>1. c.at # "idle" /\ c.o = call[p].o /\ call[p].at # "idle"  BY <1>6 DEF Takes
    <3> QED  BY <1>6, <3>1, OthersKept
  <2>3. InodeOf(p) \in Files  BY <1>6, CallOf DEF Takes
  <2> QED  BY <1>0, <1>1, <1>2, <1>3, <2>1, <2>2, <2>3 DEF LockInv
<1>7. CASE Gives(p, c)
  <2>1. Busy(p) /\ ~Busy(p)' /\ owner' = [owner EXCEPT ![InodeOf(p)] = None]
    BY <1>0, <1>7 DEF Gives, Busy
  <2> QED  BY <1>0, <1>1, <1>2, <1>3, <2>1 DEF LockInv
<1> QED  BY <1>4, <1>5, <1>6, <1>7

(* A step of a call keeps OffsetShared: whoever moves the offset of a File *)
(* holds the lock of its inode, and so is the only one at work on it.      *)
LEMMA CallOffset ==
  ASSUME TypeOK, HandleInv, LockInv, OffsetShared, NEW p \in Procs, NEW c \in Call,
         call' = [call EXCEPT ![p] = c],
         Aside(p, c) \/ Within(p, c) \/ Takes(p, c) \/ Gives(p, c)
  PROVE  OffsetShared'
<1>1. SUFFICES ASSUME NEW q \in Procs, call'[q].at \in {"wblock", "wfail", "rblock"}
               PROVE  call'[q].off = file'[call'[q].o].off
  BY DEF OffsetShared
<1>2. CASE q = p
  <2>1. call'[p] = c  BY CallSet
  <2>2. CASE Within(p, c)  BY <1>2, <2>1, <2>2 DEF Within, OffsetShared, Busy
  <2>3. CASE Takes(p, c)  BY <1>2, <2>1, <2>3 DEF Takes
  <2> QED  BY <1>1, <1>2, <2>1, <2>2, <2>3 DEF Aside, Gives
<1>3. CASE q # p
  <2>1. call'[q] = call[q] /\ Busy(q)  BY <1>1, <1>3, CallSet DEF Busy
  <2>2. call[q].off = file[call[q].o].off  BY <2>1 DEF OffsetShared, Busy
  <2>3. call[q].o \in Objs  BY <2>1, CallOf DEF Busy
  <2>4. file'[call[q].o] = file[call[q].o]
    <3>1. SUFFICES ASSUME file'[call[q].o] # file[call[q].o] PROVE FALSE  OBVIOUS
    <3>2. call[q].o = call[p].o  BY <2>3, <3>1, FilesKept
    <3>3. Gives(p, c)  BY <3>1 DEF Aside, Within, Takes
    <3>4. Busy(p) /\ InodeOf(p) = InodeOf(q)  BY <3>2, <3>3 DEF Gives, InodeOf
    <3> QED  BY <1>3, <2>1, <3>4 DEF LockInv
  <2> QED  BY <2>1, <2>2, <2>4
<1> QED  BY <1>2, <1>3

(* A step of a call keeps CountInv. *)
LEMMA CallCount ==
  ASSUME TypeOK, CountInv, NEW p \in Procs, NEW c \in Call, call' = [call EXCEPT ![p] = c],
         Sound(c)
  PROVE  CountInv'
<1>1. call'[p] = c /\ \A q \in Procs \ {p} : call'[q] = call[q]  BY CallSet
<1>2. \A q \in Procs : Sound(call[q])  BY DEF CountInv
<1>3. \A q \in Procs : Sound(call'[q])  BY <1>1, <1>2
<1> QED  BY <1>3 DEF CountInv, Sound, Batch

(* A step of a call keeps ImageInv: it changes at most the inode that it   *)
(* is writing, and an operation ends with that inode written.              *)
LEMMA CallImage ==
  ASSUME TypeOK, HandleInv, ImageInv, NEW p \in Procs, NEW c \in Call,
         call' = [call EXCEPT ![p] = c],
         Aside(p, c) \/ Within(p, c) \/ Takes(p, c) \/ Gives(p, c),
         \A f \in Files : /\ dinode'[f] # inode'[f] /\ dinode[f] = inode[f] =>
                                InOp(p) /\ f = InodeOf(p)
                          /\ dinode'[f] # inode'[f] /\ InOp(p) /\ f = InodeOf(p) =>
                                c.at \in {"wblock", "wfail"}
  PROVE  ImageInv'
<1>1. SUFFICES ASSUME NEW f \in Files, dinode'[f] # inode'[f]
               PROVE  \E q \in Procs : InOp(q)' /\ InodeOf(q)' = f
  BY DEF ImageInv
<1>2. PICK q \in Procs : InOp(q) /\ InodeOf(q) = f  BY <1>1 DEF ImageInv
<1>3. CASE q = p
  <2>1. c.at \in {"wblock", "wfail"} /\ InOp(p)  BY <1>1, <1>2, <1>3
  <2>2. c.o = call[p].o /\ call[p].at # "idle"
    BY <2>1 DEF Aside, Within, Takes, Gives, InOp, Busy
  <2>3. InodeOf(p)' = InodeOf(p) /\ call'[p] = c  BY <2>1, <2>2, OthersKept
  <2> QED  BY <1>2, <1>3, <2>1, <2>3 DEF InOp
<1>4. CASE q # p
  <2>1. call[q].at # "idle"  BY <1>2 DEF InOp
  <2>2. InodeOf(q)' = InodeOf(q) /\ call'[q] = call[q]  BY <1>4, <2>1, OthersKept
  <2> QED  BY <1>2, <2>2 DEF InOp
<1> QED  BY <1>3, <1>4

(* open, dup and close work on Files that no call is at. *)
LEMMA TableStep ==
  ASSUME TypeOK, HandleInv, LockInv, OffsetShared, call' = call, owner' = owner,
         \A q \in Procs : call[q].at # "idle" => file'[call[q].o] = file[call[q].o]
  PROVE  LockInv' /\ OffsetShared' /\ \A q \in Procs : call[q].at # "idle" => InodeOf(q)' = InodeOf(q)
<1>1. \A q \in Procs : call[q].at # "idle" => InodeOf(q)' = InodeOf(q)  BY DEF InodeOf
<1>2. \A q \in Procs : Busy(q)' = Busy(q) /\ (Busy(q) => call[q].at # "idle")  BY DEF Busy
<1>3. \A f \in Files : owner[f] # None => owner[f] \in Procs  BY DEF TypeOK
<1>4. LockInv'  BY <1>1, <1>2, <1>3 DEF LockInv
<1>5. OffsetShared'  BY DEF OffsetShared
<1> QED  BY <1>1, <1>4, <1>5

(* The File of a call is open. *)
LEMMA OpenCall ==
  ASSUME TypeOK, HandleInv, NEW q \in Procs, call[q].at # "idle"
  PROVE  file[call[q].o] # None /\ call[q].o \in Objs /\ call[q].o # None
<1>1. call[q].o \in Objs /\ file[call[q].o] \in OpenFile  BY CallOf
<1> QED  BY <1>1, FileAssumption

-----------------------------------------------------------------------------
(***************************************************************************)
(* The inductive invariant about calls, one lemma for each action.         *)
(***************************************************************************)

CallInv == TypeOK /\ CountInv /\ HandleInv /\ LockInv /\ OffsetShared /\ ImageInv

(* alloc_fd's slot takes a File. *)
LEMMA StoreIs ==
  ASSUME TypeOK, NEW p \in Procs, NEW o \in Objs, Store(p, o)
  PROVE  /\ ofile' \in [Procs -> [Fds -> Objs \cup {None}]]
         /\ \A q \in Procs, fd \in Fds : ofile'[q][fd] = ofile[q][fd] \/ (q = p /\ ofile'[q][fd] = o)
<1>1. ofile \in [Procs -> [Fds -> Objs \cup {None}]]  BY DEF TypeOK
<1> QED  BY <1>1 DEF Store

(* An empty file. *)
LEMMA EmptyIs == EmptyFile \in Inode
BY Sizes DEF EmptyFile, Inode

(* sys_open. *)
LEMMA SysOpenInv ==
  ASSUME CallInv, NEW p \in Procs, NEW f \in Files, NEW mode \in Modes, NEW trunc \in BOOLEAN,
         SysOpen(p, f, mode, trunc)
  PROVE  CallInv'
<1> USE DEF CallInv
<1>1. PICK o \in Objs : /\ file[o] = None /\ Store(p, o)
                        /\ file' = [file EXCEPT ![o] = [inode |-> f, off |-> 0, mode |-> mode]]
  BY DEF SysOpen
<1>2. /\ call[p].at = "idle" /\ owner[f] = None
      /\ call' = call /\ owner' = owner /\ wset' = wset /\ got' = got /\ data' = data /\ ptr' = ptr
  BY DEF SysOpen, Ready, Unlocked
<1>3. ncall' \in [{"write", "read", "open"} -> Nat]  BY DEF SysOpen, Counted, TypeOK
<1>4. \/ /\ used' = used \ Refers(inode[f]) /\ panicked' \in BOOLEAN
         /\ inode' = [inode EXCEPT ![f] = EmptyFile] /\ dinode' = [dinode EXCEPT ![f] = EmptyFile]
         /\ flat' = [flat EXCEPT ![f] = <<>>]
      \/ used' = used /\ inode' = inode /\ dinode' = dinode /\ flat' = flat /\ panicked' = panicked
  BY DEF SysOpen, Truncate, BmFree
<1>5. file' \in [Objs -> OpenFile \cup {None}] /\ file'[o] \in OpenFile
      /\ \A x \in Objs \ {o} : file'[x] = file[x]
  <2>1. [inode |-> f, off |-> 0, mode |-> mode] \in OpenFile  BY FileAssumption DEF OpenFile
  <2>2. file \in [Objs -> OpenFile \cup {None}]  BY DEF TypeOK
  <2> QED  BY <1>1, <2>1, <2>2
<1>6. TypeOK'
  <2>1. /\ used' \subseteq Blocknos /\ inode' \in [Files -> Inode] /\ dinode' \in [Files -> Inode]
        /\ panicked' \in BOOLEAN
    <3>1. /\ used \subseteq Blocknos /\ inode \in [Files -> Inode] /\ dinode \in [Files -> Inode]
          /\ panicked \in BOOLEAN
      BY DEF TypeOK
    <3> QED  BY <1>4, <3>1, EmptyIs
  <2>2. flat' \in [Files -> Seq(Bytes)]
    <3>1. flat \in [Files -> Seq(Bytes)] /\ <<>> \in Seq(Bytes)  BY DEF TypeOK
    <3> QED  BY <1>4, <3>1
  <2> QED  BY <1>1, <1>2, <1>3, <1>5, <2>1, <2>2, StoreIs DEF TypeOK
<1>7. \A q \in Procs : call[q].at # "idle" => file'[call[q].o] = file[call[q].o]
  BY <1>1, <1>5, OpenCall
<1>8. HandleInv'
  <2>1. ASSUME NEW q \in Procs, NEW fd \in Fds, ofile'[q][fd] # None
        PROVE  file'[ofile'[q][fd]] # None
    <3>1. CASE ofile'[q][fd] = o  BY <1>5, <3>1, FileAssumption
    <3>2. CASE ofile'[q][fd] = ofile[q][fd] /\ ofile[q][fd] # o
      <4>1. ofile[q][fd] \in Objs /\ file[ofile[q][fd]] # None
        BY <2>1, <3>2 DEF TypeOK, HandleInv
      <4> QED  BY <1>5, <3>2, <4>1
    <3> QED  BY <1>1, <3>1, <3>2, StoreIs
  <2>2. ASSUME NEW q \in Procs, call'[q].at # "idle"
        PROVE  call'[q].o \in Objs /\ \E fd \in Fds : ofile'[q][fd] = call'[q].o
    <3>1. q # p /\ call[q].at # "idle" /\ call'[q] = call[q]  BY <1>2, <2>2
    <3>2. PICK fd \in Fds : ofile[q][fd] = call[q].o  BY <3>1 DEF HandleInv
    <3>3. ofile'[q][fd] = ofile[q][fd]  BY <1>1, <3>1, StoreIs
    <3> QED  BY <3>1, <3>2, <3>3, OpenCall
  <2> QED  BY <2>1, <2>2 DEF HandleInv
<1>9. CountInv'  BY <1>2 DEF CountInv, Sound, Batch
<1>10. LockInv' /\ OffsetShared' /\ \A q \in Procs : call[q].at # "idle" => InodeOf(q)' = InodeOf(q)
  BY <1>2, <1>7, TableStep
<1>11. ImageInv'
  <2>1. ASSUME NEW g \in Files, dinode'[g] # inode'[g] PROVE dinode[g] # inode[g]
    <3>1. inode \in [Files -> Inode] /\ dinode \in [Files -> Inode]  BY DEF TypeOK
    <3> QED  BY <1>4, <2>1, <3>1
  <2>2. ASSUME NEW q \in Procs, InOp(q) PROVE InOp(q)' /\ InodeOf(q)' = InodeOf(q)
    BY <1>2, <1>10, <2>2 DEF InOp
  <2> QED  BY <2>1, <2>2 DEF ImageInv
<1> QED  BY <1>6, <1>8, <1>9, <1>10, <1>11

(* What dup and close leave alone, and what that leaves to be shown. *)
LEMMA TableInv ==
  ASSUME CallInv, HandleInv',
         file' \in [Objs -> OpenFile \cup {None}], ofile' \in [Procs -> [Fds -> Objs \cup {None}]],
         UNCHANGED <<disk, inode, owner, calls, flat, ncall, panicked>>,
         \A q \in Procs : call[q].at # "idle" => file'[call[q].o] = file[call[q].o]
  PROVE  CallInv'
<1> USE DEF CallInv
<1>1. TypeOK'  BY DEF TypeOK
<1>2. CountInv'  BY DEF CountInv, Sound, Batch
<1>3. LockInv' /\ OffsetShared' /\ \A q \in Procs : call[q].at # "idle" => InodeOf(q)' = InodeOf(q)
  BY TableStep
<1>4. ImageInv'
  <2>1. ASSUME NEW q \in Procs, InOp(q) PROVE InOp(q)' /\ InodeOf(q)' = InodeOf(q)
    BY <1>3, <2>1 DEF InOp
  <2> QED  BY <2>1 DEF ImageInv
<1> QED  BY <1>1, <1>2, <1>3, <1>4

(* sys_dup. *)
LEMMA SysDupInv ==
  ASSUME CallInv, NEW p \in Procs, NEW fd \in Fds, SysDup(p, fd)
  PROVE  CallInv'
<1> USE DEF CallInv
<1> DEFINE o == ofile[p][fd]
<1>1. /\ call[p].at = "idle" /\ Store(p, o) /\ o # None /\ file' = file
      /\ UNCHANGED <<disk, inode, owner, calls, flat, ncall, panicked>>
  BY DEF SysDup, Ready, ArgFd
<1>2. o \in Objs /\ file[o] # None  BY <1>1 DEF TypeOK, HandleInv
<1>3. HandleInv'
  <2> HIDE DEF o
  <2>1. \A q \in Procs, e \in Fds : ofile'[q][e] = ofile[q][e] \/ (q = p /\ ofile'[q][e] = o)
    BY <1>1, <1>2, StoreIs
  <2>2. call' = call  BY <1>1
  <2> QED  BY <1>1, <1>2, <2>1, <2>2 DEF HandleInv
<1>4. file' \in [Objs -> OpenFile \cup {None}]  BY <1>1 DEF TypeOK
<1>5. ofile' \in [Procs -> [Fds -> Objs \cup {None}]]  BY <1>1, <1>2, StoreIs
<1> HIDE DEF CallInv
<1> QED  BY <1>1, <1>3, <1>4, <1>5, TableInv

(* sys_close: a File is dropped with its last descriptor, which no call    *)
(* can be using, since a process in a call closes nothing.                 *)
LEMMA SysCloseInv ==
  ASSUME CallInv, NEW p \in Procs, NEW fd \in Fds, SysClose(p, fd)
  PROVE  CallInv'
<1> USE DEF CallInv
<1> DEFINE o == ofile[p][fd]
           last == \A q \in Procs, e \in Fds : ofile[q][e] = o => q = p /\ e = fd
<1>1. /\ call[p].at = "idle" /\ o # None
      /\ ofile' = [ofile EXCEPT ![p][fd] = None]
      /\ file' = IF last THEN [file EXCEPT ![o] = None] ELSE file
      /\ UNCHANGED <<disk, inode, owner, calls, flat, ncall, panicked>>
  BY DEF SysClose, Ready, ArgFd
<1>2. ofile \in [Procs -> [Fds -> Objs \cup {None}]] /\ file \in [Objs -> OpenFile \cup {None}]
  BY DEF TypeOK
<1>3. o \in Objs  BY <1>1, <1>2
<1>4. /\ ofile' \in [Procs -> [Fds -> Objs \cup {None}]] /\ ofile'[p][fd] = None
      /\ \A q \in Procs, e \in Fds : ~(q = p /\ e = fd) => ofile'[q][e] = ofile[q][e]
  <2> HIDE DEF o, last
  <2> QED  BY <1>1, <1>2
<1>5. file' \in [Objs -> OpenFile \cup {None}] /\ \A x \in Objs : file'[x] = file[x] \/ (x = o /\ last)
  <2> HIDE DEF o, last
  <2> QED  BY <1>1, <1>2, <1>3
<1>6. ASSUME NEW q \in Procs, NEW e \in Fds, ofile'[q][e] # None
      PROVE  ofile'[q][e] = ofile[q][e] /\ file'[ofile[q][e]] = file[ofile[q][e]]
             /\ file'[ofile[q][e]] # None
  <2>1. ~(q = p /\ e = fd) /\ ofile'[q][e] = ofile[q][e]  BY <1>4, <1>6
  <2>2. ofile[q][e] \in Objs  BY <1>2, <1>6, <2>1
  <2>3. file'[ofile[q][e]] = file[ofile[q][e]]  BY <1>5, <2>1, <2>2
  <2> QED  BY <1>6, <2>1, <2>3 DEF HandleInv
<1>7. ASSUME NEW q \in Procs, call[q].at # "idle"
      PROVE  /\ call[q].o \in Objs /\ \E e \in Fds : ofile'[q][e] = call[q].o
             /\ file'[call[q].o] = file[call[q].o]
  <2>1. q # p  BY <1>1, <1>7
  <2>2. PICK e \in Fds : ofile[q][e] = call[q].o  BY <1>7 DEF HandleInv
  <2>3. ofile'[q][e] = ofile[q][e]  BY <1>4, <2>1
  <2>4. call[q].o \in Objs /\ call[q].o # None  BY <1>7, OpenCall
  <2> QED  BY <1>6, <2>2, <2>3, <2>4
<1>8. call' = call  BY <1>1
<1>9. HandleInv'  BY <1>6, <1>7, <1>8 DEF HandleInv
<1> HIDE DEF CallInv
<1> QED  BY <1>1, <1>4, <1>5, <1>7, <1>9, TableInv

(* What a step of a call has to show. *)
LEMMA CallStep ==
  ASSUME CallInv, TypeOK', NEW p \in Procs, NEW c \in Call, call' = [call EXCEPT ![p] = c],
         Aside(p, c) \/ Within(p, c) \/ Takes(p, c) \/ Gives(p, c),
         ofile' = ofile, Sound(c),
         c.at # "idle" => c.o \in Objs /\ \E fd \in Fds : ofile[p][fd] = c.o,
         \A f \in Files : /\ dinode'[f] # inode'[f] /\ dinode[f] = inode[f] =>
                                InOp(p) /\ f = InodeOf(p)
                          /\ dinode'[f] # inode'[f] /\ InOp(p) /\ f = InodeOf(p) =>
                                c.at \in {"wblock", "wfail"}
  PROVE  CallInv'
<1> USE DEF CallInv
<1>1. CountInv'  BY CallCount
<1>2. HandleInv'  BY CallHandle
<1>3. LockInv'  BY CallLock
<1>4. OffsetShared'  BY CallOffset
<1>5. ImageInv'  BY CallImage
<1> QED  BY <1>1, <1>2, <1>3, <1>4, <1>5

(* sys_write. *)
LEMMA SysWriteInv ==
  ASSUME CallInv, NEW p \in Procs, NEW fd \in Fds, NEW n \in Counts, SysWrite(p, fd, n)
  PROVE  CallInv'
<1> USE DEF CallInv
<1>1. /\ call[p].at = "idle" /\ ofile[p][fd] \in Objs
      /\ ncall' \in [{"write", "read", "open"} -> Nat]
  BY SysWriteIs
<1>2. PICK c \in Call : /\ call' = [call EXCEPT ![p] = c]
                        /\ c.at = "write" /\ c.o = ofile[p][fd] /\ c.count = n /\ c.i = 0
                        /\ n \in Nat \ {0}
  BY SysWriteIs
<1>3. UNCHANGED <<disk, inode, owner, file, ofile, wset, got, flat, panicked>>  BY DEF SysWrite
<1>4. TypeOK'  BY <1>1, <1>2, <1>3, CallSet DEF TypeOK
<1>5. Sound(c)  BY <1>2 DEF Sound
<1>6. Aside(p, c)  BY <1>1, <1>2, <1>3 DEF Aside, Busy
<1>7. ~InOp(p)  BY <1>1 DEF InOp
<1> HIDE DEF CallInv
<1> QED  BY <1>1, <1>2, <1>3, <1>4, <1>5, <1>6, <1>7, CallStep

(* sys_read. *)
LEMMA SysReadInv ==
  ASSUME CallInv, NEW p \in Procs, NEW fd \in Fds, NEW n \in Wanted, SysRead(p, fd, n)
  PROVE  CallInv'
<1> USE DEF CallInv
<1>1. /\ call[p].at = "idle" /\ ofile[p][fd] \in Objs
      /\ ncall' \in [{"write", "read", "open"} -> Nat]
  BY SysReadIs
<1>2. PICK c \in Call : /\ call' = [call EXCEPT ![p] = c]
                        /\ c.at = "read" /\ c.o = ofile[p][fd] /\ c.count = n /\ c.i = 0
  BY SysReadIs
<1>3. UNCHANGED <<disk, inode, owner, file, ofile, wset, got, flat, panicked>>  BY DEF SysRead
<1>4. TypeOK'  BY <1>1, <1>2, <1>3, CallSet DEF TypeOK
<1>5. Sound(c)
  <2>1. n \in Nat \ {0}  BY FileAssumption
  <2> QED  BY <1>2, <2>1 DEF Sound
<1>6. Aside(p, c)  BY <1>1, <1>2, <1>3 DEF Aside, Busy
<1>7. ~InOp(p)  BY <1>1 DEF InOp
<1> HIDE DEF CallInv
<1> QED  BY <1>1, <1>2, <1>3, <1>4, <1>5, <1>6, <1>7, CallStep

(* The File of a call is one of the process's descriptors. *)
LEMMA CallFd ==
  ASSUME HandleInv, NEW p \in Procs, call[p].at # "idle"
  PROVE  call[p].o \in Objs /\ \E fd \in Fds : ofile[p][fd] = call[p].o
BY DEF HandleInv

(* A batch begins. *)
LEMMA WriteLockInv ==
  ASSUME CallInv, NEW p \in Procs, WriteLock(p)
  PROVE  CallInv'
<1> USE DEF CallInv
<1>1. call[p].at = "write"  BY WriteLockIs
<1>2. PICK c \in Call :
              /\ call' = [call EXCEPT ![p] = c]
              /\ \/ /\ c = Idle /\ owner' = owner
                 \/ /\ c.at = "wblock" /\ c.o = call[p].o /\ c.id = call[p].id
                    /\ c.count = call[p].count /\ c.i = call[p].i
                    /\ c.off = file[call[p].o].off /\ c.left = Batch(call[p])
                    /\ Admitted(call[p], InodeOf(p))
                    /\ owner[InodeOf(p)] = None
                    /\ owner' = [owner EXCEPT ![InodeOf(p)] = p]
  BY WriteLockIs
<1>3. UNCHANGED <<disk, inode, file, ofile, wset, got, flat, ncall, panicked>>  BY DEF WriteLock
<1>4. owner' \in [Files -> Procs \cup {None}]
  <2>1. owner \in [Files -> Procs \cup {None}]  BY DEF TypeOK
  <2> QED  BY <1>2, <2>1
<1>5. TypeOK'  BY <1>2, <1>3, <1>4, CallSet DEF TypeOK
<1>6. CASE c = Idle /\ owner' = owner
  <2>1. Sound(c)  BY <1>6, IdleIs DEF Sound
  <2>2. Aside(p, c)  BY <1>1, <1>3, <1>6, IdleIs DEF Aside, Busy
  <2>3. c.at = "idle" /\ ~InOp(p)  BY <1>1, <1>6, IdleIs DEF InOp
  <2> HIDE DEF CallInv
  <2> QED  BY <1>2, <1>3, <1>5, <2>1, <2>2, <2>3, CallStep
<1>7. CASE /\ c.at = "wblock" /\ c.o = call[p].o /\ c.id = call[p].id
           /\ c.count = call[p].count /\ c.i = call[p].i
           /\ c.off = file[call[p].o].off /\ c.left = Batch(call[p])
           /\ Admitted(call[p], InodeOf(p))
           /\ owner[InodeOf(p)] = None
           /\ owner' = [owner EXCEPT ![InodeOf(p)] = p]
  <2>1. Sound(c)
    <3>1. call[p].i <= call[p].count /\ call[p].i < call[p].count  BY <1>1 DEF CountInv, Sound
    <3>2. Batch(c) = Batch(call[p])  BY <1>7 DEF Batch
    <3>3. Batch(c) \in Nat  BY <1>7, <3>1, BatchIs
    <3>4. c.off + Batch(c) <= MAX_FILE_SIZE  BY <1>7, <3>2 DEF Admitted
    <3> QED  BY <1>7, <3>1, <3>2, <3>3, <3>4 DEF Sound
  <2>2. Takes(p, c)  BY <1>1, <1>3, <1>7 DEF Takes, Busy
  <2>3. call[p].o \in Objs /\ \E fd \in Fds : ofile[p][fd] = call[p].o  BY <1>1, CallFd
  <2>4. ~InOp(p)  BY <1>1 DEF InOp
  <2> HIDE DEF CallInv
  <2> QED  BY <1>2, <1>3, <1>5, <1>7, <2>1, <2>2, <2>3, <2>4, CallStep
<1> QED  BY <1>2, <1>6, <1>7

(* A read has its lock. *)
LEMMA ReadLockInv ==
  ASSUME CallInv, NEW p \in Procs, ReadLock(p)
  PROVE  CallInv'
<1> USE DEF CallInv
<1>1. /\ call[p].at = "read" /\ owner[InodeOf(p)] = None
      /\ owner' = [owner EXCEPT ![InodeOf(p)] = p]
  BY ReadLockIs
<1>2. PICK c \in Call :
              /\ call' = [call EXCEPT ![p] = c]
              /\ c.at = "rblock" /\ c.o = call[p].o /\ c.i = call[p].i
              /\ c.off = file[call[p].o].off /\ c.left = c.count
  BY ReadLockIs
<1>3. UNCHANGED <<disk, inode, file, ofile, wset, got, flat, ncall, panicked>>  BY DEF ReadLock
<1>4. owner' \in [Files -> Procs \cup {None}]
  <2>1. owner \in [Files -> Procs \cup {None}]  BY DEF TypeOK
  <2> QED  BY <1>1, <2>1
<1>5. TypeOK'  BY <1>2, <1>3, <1>4, CallSet DEF TypeOK
<1>6. Sound(c)
  <2>1. call[p].i = 0  BY <1>1 DEF CountInv, Sound
  <2> QED  BY <1>2, <2>1, CallFields DEF Sound
<1>7. Takes(p, c)  BY <1>1, <1>2, <1>3 DEF Takes, Busy
<1>8. call[p].o \in Objs /\ \E fd \in Fds : ofile[p][fd] = call[p].o  BY <1>1, CallFd
<1>9. ~InOp(p)  BY <1>1 DEF InOp
<1> HIDE DEF CallInv
<1> QED  BY <1>2, <1>3, <1>5, <1>6, <1>7, <1>8, <1>9, CallStep

(* A read ends. *)
LEMMA ReadEndInv ==
  ASSUME CallInv, NEW p \in Procs, ReadEnd(p)
  PROVE  CallInv'
<1> USE DEF CallInv
<1>1. /\ call[p].at = "rblock"
      /\ \/ file' = [file EXCEPT ![call[p].o].off = @ + call[p].count]
         \/ file' = file
      /\ file' \in [Objs -> OpenFile \cup {None}]
      /\ owner' = [owner EXCEPT ![InodeOf(p)] = None]
      /\ call' = [call EXCEPT ![p] = Idle]
  BY ReadEndIs
<1>2. UNCHANGED <<disk, inode, ofile, wset, flat, ncall, panicked>>  BY DEF ReadEnd
<1>3. owner' \in [Files -> Procs \cup {None}]
  <2>1. owner \in [Files -> Procs \cup {None}]  BY DEF TypeOK
  <2> QED  BY <1>1, <2>1
<1>5. TypeOK'  BY <1>1, <1>2, <1>3, CallSet, IdleIs DEF TypeOK
<1>6. Sound(Idle)  BY IdleIs DEF Sound
<1>7. Gives(p, Idle)
  <2>1. call[p].count \in Nat  BY CallFields DEF TypeOK
  <2>2. Busy(p)  BY <1>1 DEF Busy
  <2> QED  BY <1>1, <2>1, <2>2, IdleIs DEF Gives
<1>8. ~InOp(p)  BY <1>1 DEF InOp
<1> HIDE DEF CallInv
<1> QED  BY <1>1, <1>2, <1>5, <1>6, <1>7, <1>8, IdleIs, CallStep

-----------------------------------------------------------------------------
(***************************************************************************)
(* The loops over blocks.                                                  *)
(***************************************************************************)

(* Products grow with their factors. *)
LEMMA Times == ASSUME NEW k \in Nat, NEW a \in Nat, NEW b \in Nat, a <= b PROVE k * a <= k * b
<1>1. PICK d \in Nat : b = a + d
  <2>1. b - a \in Nat /\ b = a + (b - a)  OBVIOUS
  <2> QED  BY <2>1
<1>2. k * b = k * a + k * d  BY <1>1
<1>3. k * d \in Nat /\ k * a \in Nat  OBVIOUS
<1> QED  BY <1>2, <1>3

(* A position inside the largest file lies in a block that an inode can    *)
(* refer to.                                                               *)
LEMMA BnInside ==
  ASSUME NEW x \in Nat, x < MAX_FILE_SIZE
  PROVE  Bn(x) \in Nat /\ Bn(x) < NDIRECT + NINDIRECT
<1>1. Bn(x) \in Nat /\ Bo(x) \in 0 .. (BSIZE - 1) /\ x = BSIZE * Bn(x) + Bo(x)  BY ChunkIs
<1>2. PICK k \in Nat, m \in Nat, n \in Nat : k = BSIZE /\ m = Bn(x) /\ n = NDIRECT + NINDIRECT
  <2>1. BSIZE \in Nat /\ Bn(x) \in Nat /\ NDIRECT + NINDIRECT \in Nat  BY <1>1, Sizes
  <2> QED  BY <2>1, Zenon
<1>3. PICK z \in Nat : z = Bo(x) /\ x = k * m + z
  <2>1. Bo(x) \in Nat  BY <1>1, Sizes
  <2> QED  BY <1>1, <1>2, <2>1
<1>4. x < n * k  BY <1>2 DEF MAX_FILE_SIZE
<1>5. n <= m => k * n <= k * m  BY Times
<1>6. n * k = k * n  OBVIOUS
<1>7. k * n \in Nat /\ k * m \in Nat  OBVIOUS
<1>8. ~(n <= m)  BY <1>3, <1>4, <1>5, <1>6, <1>7
<1> QED  BY <1>2, <1>8

(* The block that a turn of try_iwrite's loop is at. *)
LEMMA TurnIs ==
  ASSUME TypeOK, CountInv, NEW p \in Procs, call[p].at = "wblock", call[p].left > 0
  PROVE  /\ Pos(call[p], Batch(call[p])) \in Nat
         /\ Bn(Pos(call[p], Batch(call[p]))) \in Nat
         /\ Bn(Pos(call[p], Batch(call[p]))) < NDIRECT + NINDIRECT
<1> DEFINE x == Pos(call[p], Batch(call[p]))
<1>1. InOp(p)  BY DEF InOp
<1>2. /\ call[p] \in Call /\ Batch(call[p]) \in Nat /\ x \in Nat
      /\ x = call[p].off + (Batch(call[p]) - call[p].left)
  BY <1>1, PosIs
<1>3. call[p].off + Batch(call[p]) <= MAX_FILE_SIZE  BY DEF CountInv, Sound
<1>4. MAX_FILE_SIZE \in Nat  BY Sizes DEF MAX_FILE_SIZE
<1>5. x < MAX_FILE_SIZE
  <2>1. call[p].off \in Nat /\ call[p].left \in Nat  BY <1>2, CallFields
  <2> QED  BY <1>2, <1>3, <1>4, <2>1
<1> QED  BY <1>2, <1>5, BnInside

(* The changes of the block map. *)
AddrTo(f, k, b) == inode' = [inode EXCEPT ![f].addrs[k] = b]
ListClear(b) == ptr' = [ptr EXCEPT ![b] = NoPtrs]
ListTo(a, k, b) == ptr' = [ptr EXCEPT ![a][k] = b]

(* One block number of an inode is set. *)
LEMMA AddrSet ==
  ASSUME inode \in [Files -> Inode], NEW f \in Files, NEW k \in 0 .. NDIRECT, NEW b \in Blocknos,
         AddrTo(f, k, b)
  PROVE  /\ inode' \in [Files -> Inode]
         /\ inode'[f].size = inode[f].size /\ inode'[f].addrs[k] = b
         /\ \A j \in 0 .. NDIRECT : j # k => inode'[f].addrs[j] = inode[f].addrs[j]
         /\ \A g \in Files \ {f} : inode'[g] = inode[g]
<1>1. b \in 0 .. NBLOCK  BY Sizes DEF Blocknos
<1>2. inode[f] \in Inode  OBVIOUS
<1>3. inode[f].addrs \in [0 .. NDIRECT -> 0 .. NBLOCK] /\ inode[f].size \in Nat  BY <1>2 DEF Inode
<1>4. inode'[f] = [inode[f] EXCEPT !.addrs[k] = b]  BY DEF AddrTo
<1>5. inode'[f] = [addrs |-> [inode[f].addrs EXCEPT ![k] = b], size |-> inode[f].size]
  BY <1>2, <1>4 DEF Inode
<1>6. inode'[f] \in Inode  BY <1>1, <1>3, <1>5 DEF Inode
<1>7. /\ inode'[f].size = inode[f].size /\ inode'[f].addrs[k] = b
      /\ \A j \in 0 .. NDIRECT : j # k => inode'[f].addrs[j] = inode[f].addrs[j]
  <2>1. inode'[f].addrs = [inode[f].addrs EXCEPT ![k] = b] /\ inode'[f].size = inode[f].size
    BY <1>5
  <2> QED  BY <1>3, <2>1
<1>8. inode' \in [Files -> Inode]
  <2>1. inode' = [inode EXCEPT ![f] = inode'[f]]  BY DEF AddrTo
  <2> QED  BY <1>6, <2>1
<1>9. \A g \in Files \ {f} : inode'[g] = inode[g]  BY DEF AddrTo
<1> QED  BY <1>7, <1>8, <1>9

(* One number of an indirect block is set. *)
LEMMA PtrSet ==
  ASSUME ptr \in [Blocknos -> [0 .. NINDIRECT - 1 -> 0 .. NBLOCK]], NEW a \in Blocknos,
         NEW k \in 0 .. NINDIRECT - 1, NEW b \in Blocknos, ListTo(a, k, b)
  PROVE  /\ ptr' \in [Blocknos -> [0 .. NINDIRECT - 1 -> 0 .. NBLOCK]]
         /\ ptr'[a][k] = b
         /\ \A j \in 0 .. NINDIRECT - 1 : j # k => ptr'[a][j] = ptr[a][j]
         /\ \A e \in Blocknos \ {a} : ptr'[e] = ptr[e]
<1>1. b \in 0 .. NBLOCK  BY Sizes DEF Blocknos
<1> QED  BY <1>1 DEF ListTo

(* map_blockno, for a block inside the largest file: the number was there, *)
(* or it is a new one in the inode, or in the indirect block.              *)
LEMMA MapBlockIs ==
  ASSUME TypeOK, NEW f \in Files, NEW bn \in Nat, NEW b \in Blocknos, MapBlock(f, bn, b),
         bn < NDIRECT + NINDIRECT, bn >= NDIRECT => inode[f].addrs[NDIRECT] # 0
  PROVE  \/ /\ Mapped(f, bn) # 0 /\ b = Mapped(f, bn)
            /\ used' = used /\ ptr' = ptr /\ inode' = inode
         \/ /\ Mapped(f, bn) = 0 /\ b = BmAlloc /\ used' = used \cup {b}
            /\ bn \in 0 .. NDIRECT - 1 /\ inode[f].addrs[bn] = 0
            /\ inode' = [inode EXCEPT ![f].addrs[bn] = b] /\ ptr' = ptr
         \/ /\ Mapped(f, bn) = 0 /\ b = BmAlloc /\ used' = used \cup {b}
            /\ bn - NDIRECT \in 0 .. NINDIRECT - 1 /\ inode[f].addrs[NDIRECT] \in Blocknos
            /\ ptr[inode[f].addrs[NDIRECT]][bn - NDIRECT] = 0
            /\ ptr' = [ptr EXCEPT ![inode[f].addrs[NDIRECT]][bn - NDIRECT] = b] /\ inode' = inode
<1>1. NDIRECT \in Nat /\ NINDIRECT \in Nat  BY Sizes
<1>2. CASE Mapped(f, bn) # 0  BY <1>2 DEF MapBlock
<1>3. CASE Mapped(f, bn) = 0 /\ bn < NDIRECT
  <2>1. bn \in 0 .. NDIRECT - 1  BY <1>1, <1>3
  <2>2. inode[f].addrs[bn] = 0  BY <1>3 DEF Mapped
  <2> QED  BY <1>3, <2>1, <2>2 DEF MapBlock
<1>4. CASE Mapped(f, bn) = 0 /\ ~(bn < NDIRECT)
  <2>1. bn - NDIRECT \in 0 .. NINDIRECT - 1 /\ bn >= NDIRECT  BY <1>1, <1>4
  <2>2. inode[f].addrs[NDIRECT] \in Blocknos
    <3>1. inode[f].addrs[NDIRECT] \in 0 .. NBLOCK
      <4>1. inode[f] \in Inode /\ NDIRECT \in 0 .. NDIRECT  BY <1>1 DEF TypeOK
      <4> QED  BY <4>1 DEF Inode
    <3>2. inode[f].addrs[NDIRECT] # 0  BY <2>1
    <3> QED  BY <3>1, <3>2, Sizes DEF Blocknos
  <2>3. ptr[inode[f].addrs[NDIRECT]][bn - NDIRECT] = 0  BY <1>4, <2>1 DEF Mapped
  <2> QED  BY <1>4, <2>1, <2>2, <2>3 DEF MapBlock
<1> QED  BY <1>2, <1>3, <1>4

(* What map_blockno leaves is well-typed, and other inodes are not touched. *)
LEMMA MapBlockType ==
  ASSUME TypeOK, NEW f \in Files, NEW bn \in Nat, NEW b \in Blocknos, MapBlock(f, bn, b),
         bn < NDIRECT + NINDIRECT, bn >= NDIRECT => inode[f].addrs[NDIRECT] # 0
  PROVE  /\ used' \subseteq Blocknos /\ inode' \in [Files -> Inode]
         /\ ptr' \in [Blocknos -> [0 .. NINDIRECT - 1 -> 0 .. NBLOCK]]
         /\ \A g \in Files \ {f} : inode'[g] = inode[g]
<1>1. /\ used \subseteq Blocknos /\ inode \in [Files -> Inode]
      /\ ptr \in [Blocknos -> [0 .. NINDIRECT - 1 -> 0 .. NBLOCK]]
  BY DEF TypeOK
<1>2. CASE used' = used /\ ptr' = ptr /\ inode' = inode  BY <1>1, <1>2
<1>3. CASE /\ used' = used \cup {b} /\ bn \in 0 .. NDIRECT - 1
           /\ inode' = [inode EXCEPT ![f].addrs[bn] = b] /\ ptr' = ptr
  <2>1. bn \in 0 .. NDIRECT  BY <1>3, Sizes
  <2>2. inode' \in [Files -> Inode] /\ \A g \in Files \ {f} : inode'[g] = inode[g]
    <3>1. AddrTo(f, bn, b)  BY <1>3 DEF AddrTo
    <3> QED  BY <1>1, <2>1, <3>1, AddrSet
  <2> QED  BY <1>1, <1>3, <2>2
<1>4. CASE /\ used' = used \cup {b} /\ inode' = inode
           /\ bn - NDIRECT \in 0 .. NINDIRECT - 1 /\ inode[f].addrs[NDIRECT] \in Blocknos
           /\ ptr' = [ptr EXCEPT ![inode[f].addrs[NDIRECT]][bn - NDIRECT] = b]
  <2>1. ListTo(inode[f].addrs[NDIRECT], bn - NDIRECT, b)  BY <1>4 DEF ListTo
  <2>2. bn - NDIRECT \in 0 .. NINDIRECT - 1 /\ inode[f].addrs[NDIRECT] \in Blocknos  BY <1>4
  <2>3. ptr' \in [Blocknos -> [0 .. NINDIRECT - 1 -> 0 .. NBLOCK]]  BY <1>1, <2>1, <2>2, PtrSet
  <2> QED  BY <1>1, <1>4, <2>3
<1> QED  BY <1>2, <1>3, <1>4, MapBlockIs

(* The call of a process, put back. *)
LEMMA CallSame == ASSUME TypeOK, NEW p \in Procs PROVE [call EXCEPT ![p] = call[p]] = call
<1>1. call \in [Procs -> Call]  BY DEF TypeOK
<1> QED  BY <1>1

(* map_blockno allocates the indirect block. *)
LEMMA MapIndirectInv ==
  ASSUME CallInv, NEW p \in Procs, MapIndirect(p)
  PROVE  CallInv'
<1> USE DEF CallInv
<1> DEFINE f == InodeOf(p)
<1>1. /\ call[p].at = "wblock" /\ call[p].left > 0
      /\ panicked' = Full
      /\ used' = used \cup {BmAlloc} /\ ptr' = [ptr EXCEPT ![BmAlloc] = NoPtrs]
      /\ inode' = [inode EXCEPT ![f].addrs[NDIRECT] = BmAlloc]
      /\ wset' = [wset EXCEPT ![p] = @ \cup {Bitmap, BmAlloc}]
      /\ UNCHANGED <<data, dinode, owner, file, ofile, call, got, flat, ncall>>
  BY DEF MapIndirect, LogWrite
<1>2. f \in Files /\ call[p] \in Call  BY <1>1, CallOf
<1>3. BmAlloc \in Blocknos  BY BmAllocIs DEF TypeOK
<1>4. inode' \in [Files -> Inode] /\ \A g \in Files \ {f} : inode'[g] = inode[g]
  <2>1. NDIRECT \in 0 .. NDIRECT  BY Sizes
  <2>2. inode \in [Files -> Inode]  BY DEF TypeOK
  <2>3. AddrTo(f, NDIRECT, BmAlloc)  BY <1>1 DEF AddrTo
  <2> HIDE DEF f
  <2> QED  BY <1>2, <1>3, <2>1, <2>2, <2>3, AddrSet
<1>5. TypeOK'
  <2>1. used' \subseteq Blocknos  BY <1>1, <1>3 DEF TypeOK
  <2>2. ptr' \in [Blocknos -> [0 .. NINDIRECT - 1 -> 0 .. NBLOCK]]
    <3>1. NoPtrs \in [0 .. NINDIRECT - 1 -> 0 .. NBLOCK]  BY Sizes DEF NoPtrs
    <3> QED  BY <1>1, <1>3, <3>1 DEF TypeOK
  <2>3. wset' \in [Procs -> SUBSET (0 .. NBLOCK + 1)]
    <3>1. {Bitmap, BmAlloc} \subseteq 0 .. NBLOCK + 1  BY <1>3, Sizes DEF Bitmap, Blocknos
    <3>2. wset \in [Procs -> SUBSET (0 .. NBLOCK + 1)]  BY DEF TypeOK
    <3> QED  BY <1>1, <3>1, <3>2
  <2>4. panicked' \in BOOLEAN  BY <1>1 DEF Full
  <2> QED  BY <1>1, <1>4, <2>1, <2>2, <2>3, <2>4 DEF TypeOK
<1>6. call' = [call EXCEPT ![p] = call[p]]  BY <1>1, CallSame
<1>7. Within(p, call[p])  BY <1>1 DEF Within, Busy
<1>8. Sound(call[p])  BY DEF CountInv
<1>9. call[p].o \in Objs /\ \E fd \in Fds : ofile[p][fd] = call[p].o  BY <1>1, CallFd
<1>10. InOp(p)  BY <1>1 DEF InOp
<1> HIDE DEF CallInv
<1> QED  BY <1>1, <1>2, <1>4, <1>5, <1>6, <1>7, <1>8, <1>9, <1>10, CallStep

(* The bytes of a block that is partly filled. *)
LEMMA FilledType ==
  ASSUME NEW old \in [0 .. BSIZE - 1 -> Bytes], NEW bo \in Nat, NEW n \in Nat, NEW id \in Nat,
         NEW j \in Nat
  PROVE  Filled(old, bo, n, id, j) \in [0 .. BSIZE - 1 -> Bytes]
<1>1. ASSUME NEW x \in 0 .. BSIZE - 1, x \in bo .. bo + n - 1 PROVE <<id, j + x - bo>> \in Bytes
  <2>1. j + x - bo \in Nat  BY <1>1, Sizes
  <2> QED  BY <2>1 DEF Bytes
<1> QED  BY <1>1 DEF Filled

(* copy_in copies no more than it is asked to. *)
LEMMA CopyInIs ==
  ASSUME NEW n \in Nat, NEW r \in CopyIn(n)
  PROVE  r[1] \in 0 .. n /\ r[2] \in BOOLEAN /\ (r[2] => r[1] = n)
<1>1. CASE r = <<n, TRUE>>  BY <1>1
<1>2. CASE r \in (0 .. n) \X {FALSE}
  <2>1. r[1] \in 0 .. n /\ r[2] \in {FALSE}
    <3>1. ASSUME NEW A, NEW B, NEW t \in A \X B PROVE t[1] \in A /\ t[2] \in B  OBVIOUS
    <3> QED  BY <1>2, <3>1, Zenon
  <2> QED  BY <2>1, Zenon
<1> QED  BY <1>1, <1>2 DEF CopyIn

(* Nothing but zeroes. *)
LEMMA ClearType == Clear \in [0 .. BSIZE - 1 -> Bytes]
BY Sizes DEF Clear, Bytes, Zero

(* What a turn of try_iwrite's loop logs are block numbers. *)
LEMMA LogsType ==
  ASSUME TypeOK, NEW f \in Files, NEW bn \in Nat, NEW b \in Blocknos
  PROVE  MapLogs(f, bn, b) \subseteq 0 .. NBLOCK + 1 /\ b \in 0 .. NBLOCK + 1
<1>1. Bitmap \in 0 .. NBLOCK + 1 /\ b \in 0 .. NBLOCK + 1  BY Sizes DEF Bitmap, Blocknos
<1>2. inode[f].addrs[NDIRECT] \in 0 .. NBLOCK + 1
  <2>1. inode[f] \in Inode /\ NDIRECT \in 0 .. NDIRECT  BY Sizes DEF TypeOK
  <2>2. inode[f].addrs[NDIRECT] \in 0 .. NBLOCK  BY <2>1 DEF Inode
  <2> QED  BY <2>2, Sizes
<1> QED  BY <1>1, <1>2 DEF MapLogs

(* A turn of the loop of try_iwrite. *)
LEMMA WriteBlockInv ==
  ASSUME CallInv, NEW p \in Procs, WriteBlock(p)
  PROVE  CallInv'
<1> USE DEF CallInv
<1> DEFINE f == InodeOf(p)
           x == Pos(call[p], Batch(call[p]))
           n == Chunk(x, call[p].left)
           j == call[p].i + (Batch(call[p]) - call[p].left)
           fresh == Mapped(f, Bn(x)) = 0
<1>1. /\ call[p].at = "wblock" /\ call[p].left > 0
      /\ Bn(x) >= NDIRECT => inode[f].addrs[NDIRECT] # 0
      /\ panicked' = (fresh /\ Full)
      /\ UNCHANGED <<dinode, owner, file, ofile, got, flat, ncall>>
  BY DEF WriteBlock
<1>2. PICK b \in Blocknos, r \in CopyIn(n) :
         /\ MapBlock(f, Bn(x), b)
         /\ wset' = [wset EXCEPT ![p] = @ \cup (MapLogs(f, Bn(x), b) \cup (IF r[2] THEN {b} ELSE {}))]
         /\ data' = [data EXCEPT ![b] = Filled(IF fresh THEN Clear ELSE @, Bo(x), r[1], call[p].id, j)]
  BY DEF WriteBlock, LogWrite
<1>3. PICK c \in Call :
         /\ call' = [call EXCEPT ![p] = c]
         /\ c.o = call[p].o /\ c.id = call[p].id /\ c.count = call[p].count
         /\ c.i = call[p].i /\ c.off = call[p].off
         /\ \/ c.at = "wblock" /\ c.left = call[p].left - n
            \/ c.at = "wfail" /\ c.left = call[p].left /\ c.left > 0
  BY WriteBlockIs
<1>4. f \in Files /\ call[p] \in Call  BY <1>1, CallOf
<1>5. x \in Nat /\ Bn(x) \in Nat /\ Bn(x) < NDIRECT + NINDIRECT  BY <1>1, TurnIs
<1>6. call[p].left \in Nat /\ call[p].i \in Nat /\ call[p].id \in Nat  BY <1>4, CallFields
<1>7. n \in Nat /\ n <= call[p].left /\ Bo(x) \in 0 .. (BSIZE - 1)  BY <1>5, <1>6, ChunkIs
<1>8. InOp(p) /\ Batch(call[p]) \in Nat /\ call[p].left <= Batch(call[p])
  <2>1. InOp(p)  BY <1>1 DEF InOp
  <2> QED  BY <2>1, PosIs
<1>9. j \in Nat  BY <1>6, <1>8
<1>10. r[1] \in Nat /\ Bo(x) \in Nat
  <2> HIDE DEF n
  <2>1. r[1] \in 0 .. n  BY <1>2, <1>7, CopyInIs
  <2> QED  BY <1>7, <2>1, Sizes
<1>11. /\ used' \subseteq Blocknos /\ inode' \in [Files -> Inode]
       /\ ptr' \in [Blocknos -> [0 .. NINDIRECT - 1 -> 0 .. NBLOCK]]
       /\ \A g \in Files \ {f} : inode'[g] = inode[g]
  <2> HIDE DEF f, x
  <2> QED  BY <1>1, <1>2, <1>4, <1>5, MapBlockType
<1>12. TypeOK'
  <2>1. data' \in [Blocknos -> [0 .. BSIZE - 1 -> Bytes]]
    <3> HIDE DEF f, x, j, n, fresh
    <3>1. data \in [Blocknos -> [0 .. BSIZE - 1 -> Bytes]]  BY DEF TypeOK
    <3> DEFINE old == IF fresh THEN Clear ELSE data[b]
    <3>2. old \in [0 .. BSIZE - 1 -> Bytes]  BY <3>1, ClearType
    <3> HIDE DEF old
    <3>3. Filled(old, Bo(x), r[1], call[p].id, j) \in [0 .. BSIZE - 1 -> Bytes]
      BY <1>6, <1>9, <1>10, <3>2, FilledType
    <3>4. data' = [data EXCEPT ![b] = Filled(old, Bo(x), r[1], call[p].id, j)]  BY <1>2, <3>1 DEF old
    <3> QED  BY <3>1, <3>3, <3>4
  <2>2. wset' \in [Procs -> SUBSET (0 .. NBLOCK + 1)]
    <3> HIDE DEF f, x
    <3>1. MapLogs(f, Bn(x), b) \cup (IF r[2] THEN {b} ELSE {}) \subseteq 0 .. NBLOCK + 1
      BY <1>4, <1>5, LogsType
    <3>2. wset \in [Procs -> SUBSET (0 .. NBLOCK + 1)]  BY DEF TypeOK
    <3> QED  BY <1>2, <3>1, <3>2
  <2>3. panicked' \in BOOLEAN  BY <1>1
  <2> QED  BY <1>1, <1>3, <1>11, <2>1, <2>2, <2>3, CallSet DEF TypeOK
<1>13. Within(p, c)  BY <1>1, <1>3 DEF Within, Busy
<1>14. Sound(c)
  <2>1. Batch(c) = Batch(call[p])  BY <1>3 DEF Batch
  <2>2. /\ call[p].i <= call[p].count /\ call[p].i < call[p].count
        /\ call[p].off + Batch(call[p]) <= MAX_FILE_SIZE
    BY <1>1 DEF CountInv, Sound
  <2>3. c.left <= Batch(call[p])
    <3> HIDE DEF n
    <3> QED  BY <1>3, <1>6, <1>7, <1>8
  <2> QED  BY <1>3, <2>1, <2>2, <2>3 DEF Sound
<1>15. c.o \in Objs /\ \E fd \in Fds : ofile[p][fd] = c.o  BY <1>1, <1>3, CallFd
<1>16. c.at \in {"wblock", "wfail"}  BY <1>3
<1> HIDE DEF CallInv
<1> QED  BY <1>1, <1>3, <1>4, <1>8, <1>11, <1>12, <1>13, <1>14, <1>15, <1>16, CallStep

(* A file of bytes, overwritten in part. *)
LEMMA OverwrittenType ==
  ASSUME NEW s \in Seq(Bytes), NEW off \in Nat, NEW n \in Nat, NEW id \in Nat, NEW j \in Nat,
         NEW torn \in Nat
  PROVE  Overwritten(s, off, n, id, j, torn) \in Seq(Bytes)
<1>1. Max({Len(s), off + n}) \in Nat  BY MaxPair
<1>2. Torn \in Bytes /\ Zero \in Bytes  BY DEF Torn, Zero, Bytes
<1>3. ASSUME NEW x \in 1 .. Max({Len(s), off + n})
      PROVE  (IF x - 1 \in off .. off + n - 1 THEN <<id, j + (x - 1 - off)>>
              ELSE IF x - 1 \in off + n .. off + n + torn - 1 THEN Torn
              ELSE IF x <= Len(s) THEN s[x] ELSE Zero) \in Bytes
  <2>0. x \in Nat /\ x >= 1  BY <1>1
  <2>1. CASE x - 1 \in off .. off + n - 1
    <3>1. j + (x - 1 - off) \in Nat  BY <2>0, <2>1
    <3> QED  BY <2>1, <3>1 DEF Bytes
  <2>2. CASE x <= Len(s) /\ ~(x - 1 \in off .. off + n - 1)
    <3>1. s[x] \in Bytes  BY <2>0, <2>2
    <3> QED  BY <1>2, <2>2, <3>1
  <2> QED  BY <1>2, <2>1, <2>2
<1> DEFINE m == Max({Len(s), off + n})
           F(x) == IF x - 1 \in off .. off + n - 1 THEN <<id, j + (x - 1 - off)>>
                   ELSE IF x - 1 \in off + n .. off + n + torn - 1 THEN Torn
                   ELSE IF x <= Len(s) THEN s[x] ELSE Zero
<1>4. Overwritten(s, off, n, id, j, torn) = [x \in 1 .. m |-> F(x)]  BY DEF Overwritten
<1>5. \A x \in 1 .. m : F(x) \in Bytes  BY <1>3
<1>6. m \in Nat  BY <1>1
<1> HIDE DEF m, F
<1> QED  BY <1>4, <1>5, <1>6

(* A batch ends: the inode is written as it is in memory. *)
LEMMA WriteEndInv ==
  ASSUME CallInv, NEW p \in Procs, WriteEnd(p)
  PROVE  CallInv'
<1> USE DEF CallInv
<1> DEFINE f == InodeOf(p)
           done == Batch(call[p]) - call[p].left
           torn == IF call[p].at = "wfail" THEN Chunk(Pos(call[p], Batch(call[p])), call[p].left)
                   ELSE 0
           size == Max({inode[f].size, call[p].off + done})
<1>1. /\ InOp(p) /\ file' \in [Objs -> OpenFile \cup {None}]
      /\ file' = [file EXCEPT ![call[p].o].off = @ + done]
      /\ owner' = [owner EXCEPT ![f] = None]
  BY WriteEndIs
<1>2. PICK c \in Call :
         /\ call' = [call EXCEPT ![p] = c]
         /\ \/ c = Idle
            \/ /\ c.at = "write" /\ c.o = call[p].o /\ c.i < c.count
  BY WriteEndIs
<1>3. /\ inode' = [inode EXCEPT ![f].size = size]
      /\ dinode' = [dinode EXCEPT ![f] = inode'[f]]
      /\ wset' = [wset EXCEPT ![p] = {}]
      /\ flat' = [flat EXCEPT ![f] = Overwritten(@, call[p].off, done, call[p].id, call[p].i, torn)]
      /\ UNCHANGED <<used, data, ptr, ofile, got, ncall, panicked>>
  BY DEF WriteEnd, Update
<1>4. call[p] \in Call /\ call[p].at # "idle" /\ Busy(p)  BY <1>1 DEF TypeOK, InOp, Busy
<1>5. f \in Files  BY <1>4, CallOf
<1>6. /\ call[p].off \in Nat /\ call[p].left \in Nat /\ call[p].id \in Nat /\ call[p].i \in Nat
  BY <1>4, CallFields
<1>7. done \in Nat /\ Pos(call[p], Batch(call[p])) \in Nat  BY <1>1, <1>6, PosIs
<1>8. torn \in Nat  BY <1>6, <1>7, ChunkIs
<1>9. inode \in [Files -> Inode] /\ dinode \in [Files -> Inode]  BY DEF TypeOK
<1>10. size \in Nat
  <2>1. inode[f].size \in Nat  BY <1>5, <1>9 DEF Inode
  <2>2. call[p].off + done \in Nat  BY <1>6, <1>7
  <2> HIDE DEF f, done
  <2> QED  BY <2>1, <2>2, MaxPair
<1> HIDE DEF f, done, torn, size
<1>11. inode' \in [Files -> Inode]
  <2>1. [inode[f] EXCEPT !.size = size] \in Inode  BY <1>5, <1>9, <1>10 DEF Inode
  <2>2. inode' = [inode EXCEPT ![f] = [inode[f] EXCEPT !.size = size]]  BY <1>3, <1>5, <1>9
  <2> QED  BY <1>5, <1>9, <2>1, <2>2
<1>12. dinode' \in [Files -> Inode] /\ dinode'[f] = inode'[f]
       /\ \A g \in Files \ {f} : dinode'[g] = dinode[g] /\ inode'[g] = inode[g]
  BY <1>3, <1>5, <1>9, <1>11
<1>13. flat' \in [Files -> Seq(Bytes)]
  <2>1. flat \in [Files -> Seq(Bytes)]  BY DEF TypeOK
  <2>2. Overwritten(flat[f], call[p].off, done, call[p].id, call[p].i, torn) \in Seq(Bytes)
    BY <1>5, <1>6, <1>7, <1>8, <2>1, OverwrittenType
  <2> QED  BY <1>3, <1>5, <2>1, <2>2
<1>14. owner' \in [Files -> Procs \cup {None}]
  <2>1. owner \in [Files -> Procs \cup {None}]  BY DEF TypeOK
  <2> QED  BY <1>1, <2>1
<1>15. wset' \in [Procs -> SUBSET (0 .. NBLOCK + 1)]  BY <1>3 DEF TypeOK
<1>16. TypeOK'  BY <1>1, <1>2, <1>3, <1>11, <1>12, <1>13, <1>14, <1>15, CallSet DEF TypeOK
<1>17. Gives(p, c)
  <2>1. c.at \notin {"wblock", "wfail", "rblock"}  BY <1>2, IdleIs
  <2> QED  BY <1>1, <1>4, <1>7, <2>1 DEF Gives, f
<1>18. Sound(c)  BY <1>2, IdleIs, CallFields DEF Sound
<1>19. c.at # "idle" => c.o \in Objs /\ \E fd \in Fds : ofile[p][fd] = c.o
  BY <1>2, <1>4, IdleIs, CallFd
<1>20. \A g \in Files : /\ dinode'[g] # inode'[g] /\ dinode[g] = inode[g] =>
                              InOp(p) /\ g = InodeOf(p)
                        /\ dinode'[g] # inode'[g] /\ InOp(p) /\ g = InodeOf(p) =>
                              c.at \in {"wblock", "wfail"}
  BY <1>1, <1>12 DEF f
<1> HIDE DEF CallInv
<1> QED  BY <1>2, <1>3, <1>16, <1>17, <1>18, <1>19, <1>20, CallStep

(* A turn of the loop of iread. *)
LEMMA ReadBlockInv ==
  ASSUME CallInv, NEW p \in Procs, ReadBlock(p)
  PROVE  CallInv'
<1> USE DEF CallInv
<1>1. /\ call[p].at = "rblock" /\ panicked' \in BOOLEAN
      /\ UNCHANGED <<disk, inode, owner, file, ofile, wset, flat, ncall>>
  BY DEF ReadBlock
<1>2. PICK c \in Call :
         /\ call' = [call EXCEPT ![p] = c]
         /\ c.at = "rblock" /\ c.o = call[p].o /\ c.count = call[p].count
         /\ c.i = call[p].i /\ c.off = call[p].off /\ c.left <= call[p].left
  BY ReadBlockIs
<1>3. call[p] \in Call  BY DEF TypeOK
<1>4. TypeOK'  BY <1>1, <1>2, CallSet DEF TypeOK
<1>5. Sound(c)
  <2>1. call[p].left <= call[p].count /\ call[p].i = 0  BY <1>1 DEF CountInv, Sound
  <2>2. call[p].left \in Nat /\ call[p].count \in Nat /\ c.left \in Nat  BY <1>3, CallFields
  <2> QED  BY <1>2, <2>1, <2>2 DEF Sound
<1>6. Within(p, c)  BY <1>1, <1>2 DEF Within, Busy
<1>7. c.o \in Objs /\ \E fd \in Fds : ofile[p][fd] = c.o  BY <1>1, <1>2, CallFd
<1>8. ~InOp(p)  BY <1>1 DEF InOp
<1> HIDE DEF CallInv
<1> QED  BY <1>1, <1>2, <1>4, <1>5, <1>6, <1>7, <1>8, CallStep

(* The initial states. *)
LEMMA CallInit == ASSUME Init PROVE CallInv
<1>1. PICK g \in Files, o \in Objs :
         /\ file = [x \in Objs |-> IF x = o THEN [inode |-> g, off |-> 0, mode |-> "rw"] ELSE None]
         /\ ofile = [p \in Procs |-> [fd \in Fds |-> IF fd = 0 THEN o ELSE None]]
  BY DEF Init
<1>2. /\ inode = [f \in Files |-> EmptyFile] /\ dinode = inode /\ owner = [f \in Files |-> None]
      /\ call = [p \in Procs |-> Idle]
  BY DEF Init
<1>3. [inode |-> g, off |-> 0, mode |-> "rw"] \in OpenFile  BY DEF OpenFile
<1>4. TypeOK
  <2>1. /\ inode \in [Files -> Inode] /\ dinode \in [Files -> Inode]
        /\ owner \in [Files -> Procs \cup {None}] /\ call \in [Procs -> Call]
    BY <1>2, EmptyIs, IdleIs
  <2>2. file \in [Objs -> OpenFile \cup {None}]  BY <1>1, <1>3
  <2>3. ofile \in [Procs -> [Fds -> Objs \cup {None}]]  BY <1>1
  <2>4. used \subseteq Blocknos /\ data \in [Blocknos -> [0 .. BSIZE - 1 -> Bytes]]
    BY ClearType DEF Init
  <2>5. ptr \in [Blocknos -> [0 .. NINDIRECT - 1 -> 0 .. NBLOCK]]
    <3>1. NoPtrs \in [0 .. NINDIRECT - 1 -> 0 .. NBLOCK]  BY Sizes DEF NoPtrs
    <3> QED  BY <3>1 DEF Init
  <2>6. wset \in [Procs -> SUBSET (0 .. NBLOCK + 1)] /\ panicked \in BOOLEAN  BY DEF Init
  <2>7. flat \in [Files -> Seq(Bytes)]
    <3>1. <<>> \in Seq(Bytes)  OBVIOUS
    <3> QED  BY <3>1 DEF Init
  <2>8. ncall \in [{"write", "read", "open"} -> Nat]  BY DEF Init
  <2> QED  BY <2>1, <2>2, <2>3, <2>4, <2>5, <2>6, <2>7, <2>8 DEF TypeOK
<1>5. \A p \in Procs : call[p] = Idle /\ call[p].at = "idle"  BY <1>2, IdleIs
<1>6. CountInv
  <2>1. Sound(Idle)  BY IdleIs DEF Sound
  <2> QED  BY <1>5, <2>1 DEF CountInv
<1>7. HandleInv
  <2>1. file[o] # None
    <3>1. file[o] \in OpenFile  BY <1>1, <1>3
    <3> QED  BY <3>1, FileAssumption
  <2>2. \A p \in Procs, fd \in Fds : ofile[p][fd] = o \/ ofile[p][fd] = None  BY <1>1
  <2> QED  BY <1>5, <2>1, <2>2 DEF HandleInv
<1>8. LockInv  BY <1>2, <1>5 DEF LockInv, Busy
<1>9. OffsetShared  BY <1>5 DEF OffsetShared
<1>10. ImageInv  BY <1>2 DEF ImageInv
<1> QED  BY <1>4, <1>6, <1>7, <1>8, <1>9, <1>10 DEF CallInv

(* The inductive step. *)
LEMMA CallNext == ASSUME CallInv, [Next]_vars PROVE CallInv'
<1>1. CASE UNCHANGED vars
  BY <1>1 DEF vars, CallInv, TypeOK, CountInv, Sound, Batch, HandleInv, LockInv, Busy, InodeOf,
     OffsetShared, ImageInv, InOp
<1>2. CASE Next
  <2>1. PICK p \in Procs :
          \/ \E f \in Files, mode \in Modes, trunc \in BOOLEAN : SysOpen(p, f, mode, trunc)
          \/ \E fd \in Fds : SysDup(p, fd) \/ SysClose(p, fd)
          \/ \E fd \in Fds, n \in Counts : SysWrite(p, fd, n)
          \/ \E fd \in Fds, n \in Wanted : SysRead(p, fd, n)
          \/ WriteLock(p) \/ MapIndirect(p) \/ WriteBlock(p) \/ WriteEnd(p)
          \/ ReadLock(p) \/ ReadBlock(p) \/ ReadEnd(p)
    BY <1>2 DEF Next
  <2> QED
    BY <2>1, SysOpenInv, SysDupInv, SysCloseInv, SysWriteInv, SysReadInv, WriteLockInv,
       MapIndirectInv, WriteBlockInv, WriteEndInv, ReadLockInv, ReadBlockInv, ReadEndInv
<1> QED  BY <1>1, <1>2

(* The invariant about calls holds. *)
LEMMA CallCorrect == Spec => []CallInv
<1>1. Init => CallInv  BY CallInit
<1>2. CallInv /\ [Next]_vars => CallInv'  BY CallNext
<1> QED  BY <1>1, <1>2, PTL DEF Spec

(* The descriptors that fork and dup leave on one File share its offset:   *)
(* the offset at which fread or fwrite transfers is the File's own until   *)
(* the call itself moves it (file/mod.rs keeps it under the inode's lock). *)
THEOREM FileOffsetShared == Spec => []OffsetShared
<1>1. CallInv => OffsetShared  BY DEF CallInv
<1> QED  BY <1>1, CallCorrect, PTL

(* Whenever no operation is open, and so the log may commit, every inode   *)
(* is on disk as it is in memory, also after a write that allocated a      *)
(* block and then failed in copy_in.                                       *)
THEOREM FileCrashImage == Spec => []CrashImage
<1>1. ASSUME CallInv PROVE CrashImage
  <2>1. ASSUME \A p \in Procs : ~InOp(p) PROVE dinode = inode
    <3>1. \A f \in Files : dinode[f] = inode[f]  BY <1>1, <2>1 DEF CallInv, ImageInv
    <3>2. dinode \in [Files -> Inode] /\ inode \in [Files -> Inode]  BY <1>1 DEF CallInv, TypeOK
    <3> QED  BY <3>1, <3>2
  <2> QED  BY <2>1 DEF CrashImage
<1> QED  BY <1>1, CallCorrect, PTL

-----------------------------------------------------------------------------
(***************************************************************************)
(* Blocks: who owns them, and that files have no holes.                    *)
(***************************************************************************)

(* A file is no longer than an inode can describe, and a read stays inside *)
(* the file.                                                               *)
ReachInv ==
    /\ \A f \in Files : inode[f].size <= MAX_FILE_SIZE
    /\ \A p \in Procs : call[p].at = "rblock" /\ call[p].left > 0 =>
          call[p].off + call[p].count <= inode[InodeOf(p)].size

(* Every byte of a file, and every byte that a write in progress has       *)
(* stored, has a block.                                                    *)
HoleInv ==
    /\ \A f \in Files : \A x \in 0 .. inode[f].size - 1 : Mapped(f, Bn(x)) # 0
    /\ \A p \in Procs : InOp(p) =>
          /\ call[p].off <= inode[InodeOf(p)].size
          /\ \A x \in 0 .. Pos(call[p], Batch(call[p])) - 1 : Mapped(InodeOf(p), Bn(x)) # 0

(* A block in use belongs to one place of one file, and a block that       *)
(* belongs to a file is in use.                                            *)
OwnInv ==
    /\ \A f \in Files : \A s \in Places(f) : At(f, s) # 0 => At(f, s) \in used
    /\ \A b \in used : \E f \in Files : \E s \in Places(f) : At(f, s) = b
    /\ \A f, g \in Files : \A s \in Places(f), t \in Places(g) :
          At(f, s) # 0 /\ At(f, s) = At(g, t) => f = g /\ s = t

(* The kernel has panicked only because bm_alloc found no free block; until *)
(* then the rest holds.                                                    *)
SpaceInv == IF panicked THEN Full ELSE ReachInv /\ HoleInv /\ OwnInv

(* The places of an inode. *)
LEMMA PlaceForms ==
  ASSUME NEW f, NEW s \in Places(f)
  PROVE  \/ \E k \in 0 .. NDIRECT : s = <<"direct", k>>
         \/ \E k \in 0 .. NINDIRECT - 1 : s = <<"indirect", k>>
BY DEF Places

(* What a direct place holds. *)
LEMMA AtDirect ==
  ASSUME NEW f, NEW k, NEW s, s = <<"direct", k>>
  PROVE  At(f, s) = inode[f].addrs[k] /\ At(f, s)' = inode'[f].addrs[k]
<1>1. s[1] = "direct" /\ s[2] = k  OBVIOUS
<1> QED  BY <1>1 DEF At

(* What a place of the indirect block holds. *)
LEMMA AtIndirect ==
  ASSUME NEW f, NEW k, NEW s, s = <<"indirect", k>>
  PROVE  /\ inode[f].addrs[NDIRECT] = 0 => At(f, s) = 0
         /\ inode[f].addrs[NDIRECT] # 0 => At(f, s) = ptr[inode[f].addrs[NDIRECT]][k]
         /\ inode'[f].addrs[NDIRECT] = 0 => At(f, s)' = 0
         /\ inode'[f].addrs[NDIRECT] # 0 => At(f, s)' = ptr'[inode'[f].addrs[NDIRECT]][k]
<1>1. s[1] # "direct" /\ s[2] = k  OBVIOUS
<1> QED  BY <1>1 DEF At

(* The places there are. *)
LEMMA InPlaces ==
  ASSUME NEW f, NEW k
  PROVE  /\ k \in 0 .. NDIRECT => \E s \in Places(f) : s = <<"direct", k>>
         /\ k \in 0 .. NINDIRECT - 1 => \E s \in Places(f) : s = <<"indirect", k>>
BY DEF Places

(* map_blockno returns what the place of the block holds. *)
LEMMA MappedAt ==
  ASSUME NEW f, NEW bn \in Nat, bn < NDIRECT + NINDIRECT
  PROVE  \E s \in Places(f) : Mapped(f, bn) = At(f, s) /\ Mapped(f, bn)' = At(f, s)'
<1>0. NDIRECT \in Nat /\ NINDIRECT \in Nat  BY Sizes
<1>1. CASE bn < NDIRECT
  <2>1. bn \in 0 .. NDIRECT  BY <1>0, <1>1
  <2>2. Mapped(f, bn) = inode[f].addrs[bn] /\ Mapped(f, bn)' = inode'[f].addrs[bn]
    BY <1>1 DEF Mapped
  <2>3. PICK s \in Places(f) : s = <<"direct", bn>>  BY <2>1, InPlaces
  <2>4. At(f, s) = inode[f].addrs[bn] /\ At(f, s)' = inode'[f].addrs[bn]  BY <2>3, AtDirect
  <2> QED  BY <2>2, <2>4
<1>2. CASE ~(bn < NDIRECT)
  <2>1. bn - NDIRECT \in 0 .. NINDIRECT - 1  BY <1>0, <1>2
  <2>2. /\ inode[f].addrs[NDIRECT] = 0 => Mapped(f, bn) = 0
        /\ inode[f].addrs[NDIRECT] # 0 =>
              Mapped(f, bn) = ptr[inode[f].addrs[NDIRECT]][bn - NDIRECT]
        /\ inode'[f].addrs[NDIRECT] = 0 => Mapped(f, bn)' = 0
        /\ inode'[f].addrs[NDIRECT] # 0 =>
              Mapped(f, bn)' = ptr'[inode'[f].addrs[NDIRECT]][bn - NDIRECT]
    BY <1>2 DEF Mapped
  <2>3. PICK s \in Places(f) : s = <<"indirect", bn - NDIRECT>>  BY <2>1, InPlaces
  <2>4. Mapped(f, bn) = At(f, s)  BY <2>2, <2>3, AtIndirect
  <2>5. Mapped(f, bn)' = At(f, s)'  BY <2>2, <2>3, AtIndirect
  <2> QED  BY <2>4, <2>5
<1> QED  BY <1>1, <1>2

(* What the places of files hold are block numbers or 0. *)
LEMMA AtType ==
  ASSUME TypeOK, NEW f \in Files, NEW s \in Places(f)
  PROVE  At(f, s) \in 0 .. NBLOCK /\ (At(f, s) # 0 => At(f, s) \in Blocknos)
<1>0. NDIRECT \in Nat /\ NINDIRECT \in Nat /\ NBLOCK \in Nat  BY Sizes
<1>1. inode[f].addrs \in [0 .. NDIRECT -> 0 .. NBLOCK]
  <2>1. inode[f] \in Inode  BY DEF TypeOK
  <2> QED  BY <2>1 DEF Inode
<1>2. At(f, s) \in 0 .. NBLOCK
  <2>1. CASE \E k \in 0 .. NDIRECT : s = <<"direct", k>>
    <3>1. PICK k \in 0 .. NDIRECT : s = <<"direct", k>>  BY <2>1
    <3>2. At(f, s) = inode[f].addrs[k]  BY <3>1, AtDirect
    <3> QED  BY <1>1, <3>2
  <2>2. CASE \E k \in 0 .. NINDIRECT - 1 : s = <<"indirect", k>>
    <3>1. PICK k \in 0 .. NINDIRECT - 1 : s = <<"indirect", k>>  BY <2>2
    <3> DEFINE a == inode[f].addrs[NDIRECT]
    <3>2. (a = 0 => At(f, s) = 0) /\ (a # 0 => At(f, s) = ptr[a][k])  BY <3>1, AtIndirect
    <3>3. a \in 0 .. NBLOCK  BY <1>0, <1>1
    <3>4. CASE a = 0  BY <1>0, <3>2, <3>4
    <3>5. CASE a # 0
      <4>1. a \in Blocknos  BY <1>0, <3>3, <3>5 DEF Blocknos
      <4>2. ptr[a] \in [0 .. NINDIRECT - 1 -> 0 .. NBLOCK]  BY <4>1 DEF TypeOK
      <4> QED  BY <3>2, <3>5, <4>2
    <3> QED  BY <3>4, <3>5
  <2> QED  BY <2>1, <2>2, PlaceForms
<1> QED  BY <1>0, <1>2 DEF Blocknos

(* One place takes a block; all the others stay. *)
Assigned(f, s, b) ==
    /\ At(f, s) = 0 /\ At(f, s)' = b
    /\ \A g \in Files : \A t \in Places(g) : ~(g = f /\ t = s) => At(g, t)' = At(g, t)

(* A place takes a free block: ownership stays unique. *)
LEMMA AssignedOwn ==
  ASSUME OwnInv, used \subseteq Blocknos,
         NEW f \in Files, NEW s \in Places(f), NEW b \in Blocknos, b \notin used,
         Assigned(f, s, b), used' = used \cup {b}
  PROVE  OwnInv'
<1>0. b # 0  BY Sizes DEF Blocknos
<1>1. /\ At(f, s) = 0 /\ At(f, s)' = b
      /\ \A g \in Files : \A t \in Places(g) : ~(g = f /\ t = s) => At(g, t)' = At(g, t)
  BY DEF Assigned
<1>2. /\ \A g \in Files : \A t \in Places(g) : At(g, t) # 0 => At(g, t) \in used
      /\ \A e \in used : \E g \in Files : \E t \in Places(g) : At(g, t) = e
  BY DEF OwnInv
<1>3. \A g, h \in Files : \A t \in Places(g), u \in Places(h) :
            At(g, t) # 0 /\ At(g, t) = At(h, u) => g = h /\ t = u
  BY DEF OwnInv
<1>4. \A g \in Files : Places(g)' = Places(g)  BY DEF Places
<1>5. ASSUME NEW g \in Files, NEW t \in Places(g), At(g, t)' # 0 PROVE At(g, t)' \in used'
  BY <1>1, <1>2, <1>5
<1>6. ASSUME NEW e \in used' PROVE \E g \in Files : \E t \in Places(g) : At(g, t)' = e
  <2>1. CASE e = b  BY <1>1, <2>1
  <2>2. CASE e \in used
    <3>1. PICK g \in Files : \E t \in Places(g) : At(g, t) = e  BY <1>2, <2>2
    <3>2. PICK t \in Places(g) : At(g, t) = e  BY <3>1
    <3>3. e # 0  BY <2>2, Sizes DEF Blocknos
    <3>4. ~(g = f /\ t = s)  BY <1>1, <3>2, <3>3
    <3> QED  BY <1>1, <3>2, <3>4
  <2> QED  BY <2>1, <2>2
<1>7. ASSUME NEW g \in Files, NEW h \in Files, NEW t \in Places(g), NEW u \in Places(h),
             At(g, t)' # 0, At(g, t)' = At(h, u)'
      PROVE  g = h /\ t = u
  <2>1. CASE g = f /\ t = s
    <3>1. At(h, u)' = b  BY <1>1, <1>7, <2>1
    <3>2. CASE h = f /\ u = s  BY <2>1, <3>2
    <3>3. CASE ~(h = f /\ u = s)
      <4>1. At(h, u) = b  BY <1>1, <3>1, <3>3
      <4> QED  BY <1>0, <1>2, <4>1
    <3> QED  BY <3>2, <3>3
  <2>2. CASE ~(g = f /\ t = s)
    <3>1. At(g, t)' = At(g, t) /\ At(g, t) \in used  BY <1>1, <1>2, <1>7, <2>2
    <3>2. CASE h = f /\ u = s  BY <1>1, <1>7, <3>1, <3>2
    <3>3. CASE ~(h = f /\ u = s)
      <4>1. At(h, u)' = At(h, u)  BY <1>1, <3>3
      <4>2. At(g, t) # 0 /\ At(g, t) = At(h, u)  BY <1>7, <3>1, <4>1
      <4> QED  BY <1>3, <4>2
    <3> QED  BY <3>2, <3>3
  <2> QED  BY <2>1, <2>2
<1> QED  BY <1>4, <1>5, <1>6, <1>7 DEF OwnInv

(* Where the block map stays, the places stay. *)
LEMMA PlacesKept ==
  ASSUME \A f \in Files : inode'[f].addrs = inode[f].addrs, ptr' = ptr
  PROVE  \A f \in Files : /\ \A s \in Places(f) : At(f, s)' = At(f, s)
                          /\ \A bn : Mapped(f, bn)' = Mapped(f, bn)
<1>1. ASSUME NEW f \in Files, NEW s \in Places(f) PROVE At(f, s)' = At(f, s)  BY DEF At
<1>2. ASSUME NEW f \in Files, NEW bn PROVE Mapped(f, bn)' = Mapped(f, bn)  BY DEF Mapped
<1> QED  BY <1>1, <1>2

(* Where the places and the bitmap stay, ownership stays. *)
LEMMA KeptOwn ==
  ASSUME OwnInv, \A f \in Files : inode'[f].addrs = inode[f].addrs, ptr' = ptr, used' = used
  PROVE  OwnInv'
<1>1. \A f \in Files : \A s \in Places(f) : At(f, s)' = At(f, s)  BY PlacesKept
<1>2. \A f \in Files : Places(f)' = Places(f)  BY DEF Places
<1> QED  BY <1>1, <1>2 DEF OwnInv

(* The indirect block of a file is one of its blocks. *)
LEMMA IndirectUsed ==
  ASSUME OwnInv, NEW g \in Files, inode[g].addrs[NDIRECT] # 0
  PROVE  /\ inode[g].addrs[NDIRECT] \in used
         /\ \A h \in Files : inode[h].addrs[NDIRECT] = inode[g].addrs[NDIRECT] => h = g
         /\ \A h \in Files, k \in 0 .. NDIRECT :
               inode[h].addrs[k] = inode[g].addrs[NDIRECT] => k = NDIRECT
<1>0. NDIRECT \in 0 .. NDIRECT  BY Sizes
<1>1. \A h \in Files, k \in 0 .. NDIRECT : \E s \in Places(h) :
         s = <<"direct", k>> /\ At(h, s) = inode[h].addrs[k]
  BY InPlaces, AtDirect
<1>2. PICK s \in Places(g) : s = <<"direct", NDIRECT>> /\ At(g, s) = inode[g].addrs[NDIRECT]
  BY <1>0, <1>1
<1>3. At(g, s) \in used  BY <1>2 DEF OwnInv
<1>4. ASSUME NEW h \in Files, NEW k \in 0 .. NDIRECT, inode[h].addrs[k] = inode[g].addrs[NDIRECT]
      PROVE  h = g /\ k = NDIRECT
  <2>1. PICK t \in Places(h) : t = <<"direct", k>> /\ At(h, t) = inode[h].addrs[k]  BY <1>1
  <2>2. At(g, s) # 0 /\ At(g, s) = At(h, t)  BY <1>2, <1>4, <2>1
  <2>3. g = h /\ s = t  BY <2>2 DEF OwnInv
  <2> QED  BY <1>2, <2>1, <2>3
<1> QED  BY <1>0, <1>2, <1>3, <1>4

(* A block number goes into the inode itself. *)
LEMMA DirectAssigned ==
  ASSUME TypeOK, NEW f \in Files, NEW k \in 0 .. NDIRECT, k # NDIRECT, NEW b \in Blocknos,
         inode[f].addrs[k] = 0, AddrTo(f, k, b), ptr' = ptr
  PROVE  \E s \in Places(f) : Assigned(f, s, b)
<1>0. NDIRECT \in 0 .. NDIRECT  BY Sizes
<1>1. /\ inode'[f].addrs[k] = b
      /\ \A j \in 0 .. NDIRECT : j # k => inode'[f].addrs[j] = inode[f].addrs[j]
      /\ \A g \in Files \ {f} : inode'[g] = inode[g]
  <2>1. inode \in [Files -> Inode]  BY DEF TypeOK
  <2> QED  BY <2>1, AddrSet
<1>2. PICK s \in Places(f) : s = <<"direct", k>>  BY InPlaces
<1>3. At(f, s) = 0 /\ At(f, s)' = b  BY <1>1, <1>2, AtDirect
<1>4. \A g \in Files : inode'[g].addrs[NDIRECT] = inode[g].addrs[NDIRECT]  BY <1>0, <1>1
<1>5. ASSUME NEW g \in Files, NEW t \in Places(g), ~(g = f /\ t = s) PROVE At(g, t)' = At(g, t)
  <2>1. CASE \E j \in 0 .. NDIRECT : t = <<"direct", j>>
    <3>1. PICK j \in 0 .. NDIRECT : t = <<"direct", j>>  BY <2>1
    <3>2. At(g, t) = inode[g].addrs[j] /\ At(g, t)' = inode'[g].addrs[j]  BY <3>1, AtDirect
    <3>3. ~(g = f /\ j = k)  BY <1>2, <1>5, <3>1
    <3> QED  BY <1>1, <3>2, <3>3
  <2>2. CASE \E j \in 0 .. NINDIRECT - 1 : t = <<"indirect", j>>
    <3>1. PICK j \in 0 .. NINDIRECT - 1 : t = <<"indirect", j>>  BY <2>2
    <3>2. /\ inode[g].addrs[NDIRECT] = 0 => At(g, t) = 0
          /\ inode[g].addrs[NDIRECT] # 0 => At(g, t) = ptr[inode[g].addrs[NDIRECT]][j]
          /\ inode'[g].addrs[NDIRECT] = 0 => At(g, t)' = 0
          /\ inode'[g].addrs[NDIRECT] # 0 => At(g, t)' = ptr'[inode'[g].addrs[NDIRECT]][j]
      BY <3>1, AtIndirect
    <3> QED  BY <1>4, <3>2
  <2> QED  BY <2>1, <2>2, PlaceForms
<1> QED  BY <1>3, <1>5 DEF Assigned

(* A file gets an indirect block, which lists nothing yet. *)
LEMMA IndirectAssigned ==
  ASSUME TypeOK, OwnInv, NEW f \in Files, NEW b \in Blocknos, b \notin used,
         inode[f].addrs[NDIRECT] = 0, AddrTo(f, NDIRECT, b), ListClear(b)
  PROVE  \E s \in Places(f) : Assigned(f, s, b)
<1>0. NDIRECT \in 0 .. NDIRECT /\ b # 0  BY Sizes DEF Blocknos
<1>1. /\ inode'[f].addrs[NDIRECT] = b
      /\ \A j \in 0 .. NDIRECT : j # NDIRECT => inode'[f].addrs[j] = inode[f].addrs[j]
      /\ \A g \in Files \ {f} : inode'[g] = inode[g]
  <2>1. inode \in [Files -> Inode]  BY DEF TypeOK
  <2> QED  BY <1>0, <2>1, AddrSet
<1>2. PICK s \in Places(f) : s = <<"direct", NDIRECT>>  BY <1>0, InPlaces
<1>3. At(f, s) = 0 /\ At(f, s)' = b  BY <1>1, <1>2, AtDirect
<1>4. ptr'[b] = NoPtrs /\ \A a \in Blocknos \ {b} : ptr'[a] = ptr[a]
  BY DEF TypeOK, ListClear
<1>5. ASSUME NEW g \in Files, NEW t \in Places(g), ~(g = f /\ t = s) PROVE At(g, t)' = At(g, t)
  <2>1. CASE \E j \in 0 .. NDIRECT : t = <<"direct", j>>
    <3>1. PICK j \in 0 .. NDIRECT : t = <<"direct", j>>  BY <2>1
    <3>2. At(g, t) = inode[g].addrs[j] /\ At(g, t)' = inode'[g].addrs[j]  BY <3>1, AtDirect
    <3>3. ~(g = f /\ j = NDIRECT)  BY <1>2, <1>5, <3>1
    <3> QED  BY <1>1, <3>2, <3>3
  <2>2. CASE \E j \in 0 .. NINDIRECT - 1 : t = <<"indirect", j>>
    <3>1. PICK j \in 0 .. NINDIRECT - 1 : t = <<"indirect", j>>  BY <2>2
    <3>2. /\ inode[g].addrs[NDIRECT] = 0 => At(g, t) = 0
          /\ inode[g].addrs[NDIRECT] # 0 => At(g, t) = ptr[inode[g].addrs[NDIRECT]][j]
          /\ inode'[g].addrs[NDIRECT] = 0 => At(g, t)' = 0
          /\ inode'[g].addrs[NDIRECT] # 0 => At(g, t)' = ptr'[inode'[g].addrs[NDIRECT]][j]
      BY <3>1, AtIndirect
    <3>3. CASE g = f
      <4>1. NoPtrs[j] = 0  BY DEF NoPtrs
      <4>2. At(g, t) = 0  BY <3>2, <3>3
      <4>3. At(g, t)' = 0  BY <1>0, <1>1, <1>4, <3>2, <3>3, <4>1
      <4> QED  BY <4>2, <4>3
    <3>4. CASE g # f
      <4>1. inode'[g] = inode[g]  BY <1>1, <3>4
      <4>2. CASE inode[g].addrs[NDIRECT] = 0  BY <3>2, <4>1, <4>2
      <4>3. CASE inode[g].addrs[NDIRECT] # 0
        <5>1. inode[g].addrs[NDIRECT] \in used  BY <4>3, IndirectUsed
        <5>2. inode[g].addrs[NDIRECT] \in Blocknos \ {b}  BY <5>1 DEF TypeOK
        <5>3. ptr'[inode[g].addrs[NDIRECT]] = ptr[inode[g].addrs[NDIRECT]]  BY <1>4, <5>2
        <5> QED  BY <3>2, <4>1, <5>3
      <4> QED  BY <4>2, <4>3
    <3> QED  BY <3>3, <3>4
  <2> QED  BY <2>1, <2>2, PlaceForms
<1> QED  BY <1>3, <1>5 DEF Assigned

(* A block number goes into the indirect block of a file, which is the     *)
(* indirect block of no other file.                                        *)
LEMMA ListAssigned ==
  ASSUME TypeOK, OwnInv, NEW f \in Files, NEW k \in 0 .. NINDIRECT - 1, NEW b \in Blocknos,
         NEW a, a = inode[f].addrs[NDIRECT], a \in Blocknos,
         ptr[a][k] = 0, inode' = inode, ListTo(a, k, b)
  PROVE  \E s \in Places(f) : Assigned(f, s, b)
<1>0. a # 0  BY Sizes DEF Blocknos
<1>1. /\ ptr'[a][k] = b
      /\ \A j \in 0 .. NINDIRECT - 1 : j # k => ptr'[a][j] = ptr[a][j]
      /\ \A e \in Blocknos \ {a} : ptr'[e] = ptr[e]
  <2>1. ptr \in [Blocknos -> [0 .. NINDIRECT - 1 -> 0 .. NBLOCK]]  BY DEF TypeOK
  <2> QED  BY <2>1, PtrSet
<1>2. PICK s \in Places(f) : s = <<"indirect", k>>  BY InPlaces
<1>3. At(f, s) = 0 /\ At(f, s)' = b
  <2>1. inode[f].addrs[NDIRECT] # 0 /\ inode'[f].addrs[NDIRECT] # 0  BY <1>0
  <2>2. At(f, s) = ptr[inode[f].addrs[NDIRECT]][k] /\ At(f, s)' = ptr'[inode'[f].addrs[NDIRECT]][k]
    BY <1>2, <2>1, AtIndirect
  <2> QED  BY <1>1, <2>2
<1>4. ASSUME NEW g \in Files, NEW t \in Places(g), ~(g = f /\ t = s) PROVE At(g, t)' = At(g, t)
  <2>1. CASE \E j \in 0 .. NDIRECT : t = <<"direct", j>>
    <3>1. PICK j \in 0 .. NDIRECT : t = <<"direct", j>>  BY <2>1
    <3>2. At(g, t) = inode[g].addrs[j] /\ At(g, t)' = inode'[g].addrs[j]  BY <3>1, AtDirect
    <3> QED  BY <3>2
  <2>2. CASE \E j \in 0 .. NINDIRECT - 1 : t = <<"indirect", j>>
    <3>1. PICK j \in 0 .. NINDIRECT - 1 : t = <<"indirect", j>>  BY <2>2
    <3> DEFINE e == inode[g].addrs[NDIRECT]
    <3>2. /\ e = 0 => At(g, t) = 0 /\ At(g, t)' = 0
          /\ e # 0 => At(g, t) = ptr[e][j] /\ At(g, t)' = ptr'[e][j]
      BY <3>1, AtIndirect
    <3>3. CASE g = f
      <4>1. j # k /\ e = a  BY <1>2, <1>4, <3>1, <3>3
      <4> QED  BY <1>1, <3>2, <4>1
    <3>4. CASE g # f /\ e # 0
      <4>1. e # a  BY <1>0, <3>4, IndirectUsed
      <4>2. e \in Blocknos  BY <3>4, IndirectUsed DEF TypeOK
      <4>3. ptr'[e] = ptr[e]  BY <1>1, <4>1, <4>2
      <4> QED  BY <3>2, <4>3
    <3>5. CASE e = 0  BY <3>2, <3>5
    <3> QED  BY <3>3, <3>4, <3>5
  <2> QED  BY <2>1, <2>2, PlaceForms
<1> QED  BY <1>3, <1>4 DEF Assigned

(* The blocks that truncate frees are those that the places hold. *)
LEMMA RefersIs ==
  ASSUME NEW f \in Files, NEW b
  PROVE  b \in Refers(inode[f]) <=> b # 0 /\ \E s \in Places(f) : At(f, s) = b
<1> DEFINE a == inode[f].addrs[NDIRECT]
<1>1. b \in Direct(inode[f]) <=> b # 0 /\ \E k \in 0 .. NDIRECT : inode[f].addrs[k] = b
  BY DEF Direct
<1>2. b \in Indirect(inode[f]) <=> b # 0 /\ a # 0 /\ \E k \in 0 .. NINDIRECT - 1 : ptr[a][k] = b
  BY DEF Indirect
<1>3. ASSUME b # 0, NEW s \in Places(f), At(f, s) = b
      PROVE  \/ \E k \in 0 .. NDIRECT : inode[f].addrs[k] = b
             \/ a # 0 /\ \E k \in 0 .. NINDIRECT - 1 : ptr[a][k] = b
  <2>1. CASE \E k \in 0 .. NDIRECT : s = <<"direct", k>>
    <3>1. PICK k \in 0 .. NDIRECT : s = <<"direct", k>>  BY <2>1
    <3>2. At(f, s) = inode[f].addrs[k]  BY <3>1, AtDirect
    <3> QED  BY <1>3, <3>2
  <2>2. CASE \E k \in 0 .. NINDIRECT - 1 : s = <<"indirect", k>>
    <3>1. PICK k \in 0 .. NINDIRECT - 1 : s = <<"indirect", k>>  BY <2>2
    <3>2. (a = 0 => At(f, s) = 0) /\ (a # 0 => At(f, s) = ptr[a][k])  BY <3>1, AtIndirect
    <3> QED  BY <1>3, <3>2
  <2> QED  BY <2>1, <2>2, PlaceForms
<1>4. ASSUME NEW k \in 0 .. NDIRECT, inode[f].addrs[k] = b PROVE \E s \in Places(f) : At(f, s) = b
  <2>1. PICK s \in Places(f) : s = <<"direct", k>>  BY InPlaces
  <2>2. At(f, s) = inode[f].addrs[k]  BY <2>1, AtDirect
  <2> QED  BY <1>4, <2>2
<1>5. ASSUME a # 0, NEW k \in 0 .. NINDIRECT - 1, ptr[a][k] = b
      PROVE  \E s \in Places(f) : At(f, s) = b
  <2>1. PICK s \in Places(f) : s = <<"indirect", k>>  BY InPlaces
  <2>2. At(f, s) = ptr[a][k]  BY <1>5, <2>1, AtIndirect
  <2> QED  BY <1>5, <2>2
<1> HIDE DEF a
<1>6. b \in Refers(inode[f]) <=> b \in Direct(inode[f]) \/ b \in Indirect(inode[f])  BY DEF Refers
<1> QED  BY <1>1, <1>2, <1>3, <1>4, <1>5, <1>6

(* Truncating a file frees its blocks and no others, each of them once. *)
LEMMA TruncateOwn ==
  ASSUME TypeOK, OwnInv, NEW f \in Files, inode' = [inode EXCEPT ![f] = EmptyFile], ptr' = ptr,
         used' = used \ Refers(inode[f])
  PROVE  OwnInv' /\ Refers(inode[f]) \subseteq used
<1>0. NDIRECT \in 0 .. NDIRECT  BY Sizes
<1>1. inode'[f] = EmptyFile /\ \A g \in Files \ {f} : inode'[g] = inode[g]  BY DEF TypeOK
<1>2. \A k \in 0 .. NDIRECT : inode'[f].addrs[k] = 0
  <2>1. \A k \in 0 .. NDIRECT : EmptyFile.addrs[k] = 0  BY DEF EmptyFile
  <2> QED  BY <1>1, <2>1
<1>3. \A s \in Places(f) : At(f, s)' = 0
  <2>1. SUFFICES ASSUME NEW s \in Places(f) PROVE At(f, s)' = 0  OBVIOUS
  <2>2. CASE \E k \in 0 .. NDIRECT : s = <<"direct", k>>
    <3>1. PICK k \in 0 .. NDIRECT : s = <<"direct", k>>  BY <2>2
    <3>2. At(f, s)' = inode'[f].addrs[k]  BY <3>1, AtDirect
    <3> QED  BY <1>2, <3>2
  <2>3. CASE \E k \in 0 .. NINDIRECT - 1 : s = <<"indirect", k>>
    <3>1. PICK k \in 0 .. NINDIRECT - 1 : s = <<"indirect", k>>  BY <2>3
    <3>2. inode'[f].addrs[NDIRECT] = 0  BY <1>0, <1>2
    <3> QED  BY <3>1, <3>2, AtIndirect
  <2> QED  BY <2>2, <2>3, PlaceForms
<1>4. \A g \in Files \ {f} : \A s \in Places(g) : At(g, s)' = At(g, s)  BY <1>1 DEF At
<1>5. \A g \in Files : Places(g)' = Places(g)  BY DEF Places
<1>6. /\ \A g \in Files : \A t \in Places(g) : At(g, t) # 0 => At(g, t) \in used
      /\ \A e \in used : \E g \in Files : \E t \in Places(g) : At(g, t) = e
  BY DEF OwnInv
<1>7. \A g, h \in Files : \A t \in Places(g), u \in Places(h) :
         At(g, t) # 0 /\ At(g, t) = At(h, u) => g = h /\ t = u
  BY DEF OwnInv
<1>8. \A b : b \in Refers(inode[f]) <=> b # 0 /\ \E s \in Places(f) : At(f, s) = b  BY RefersIs
<1>9. Refers(inode[f]) \subseteq used  BY <1>6, <1>8
<1>10. ASSUME NEW g \in Files, NEW t \in Places(g), At(g, t)' # 0 PROVE At(g, t)' \in used'
  <2>1. g # f /\ At(g, t)' = At(g, t)  BY <1>3, <1>4, <1>10
  <2>2. At(g, t) \in used  BY <1>6, <1>10, <2>1
  <2>3. At(g, t) \notin Refers(inode[f])
    <3>1. SUFFICES ASSUME At(g, t) \in Refers(inode[f]) PROVE FALSE  OBVIOUS
    <3>2. PICK s \in Places(f) : At(f, s) = At(g, t)  BY <1>8, <3>1
    <3>3. At(g, t) # 0 /\ At(g, t) = At(f, s)  BY <1>10, <2>1, <3>2
    <3> QED  BY <1>7, <2>1, <3>3
  <2> QED  BY <2>1, <2>2, <2>3
<1>11. ASSUME NEW e \in used' PROVE \E g \in Files : \E t \in Places(g) : At(g, t)' = e
  <2>1. e \in used /\ e \notin Refers(inode[f]) /\ e # 0  BY Sizes DEF TypeOK, Blocknos
  <2>2. PICK g \in Files : \E t \in Places(g) : At(g, t) = e  BY <1>6, <2>1
  <2>3. PICK t \in Places(g) : At(g, t) = e  BY <2>2
  <2>4. g # f  BY <1>8, <2>1, <2>3
  <2> QED  BY <1>4, <2>3, <2>4
<1>12. ASSUME NEW g \in Files, NEW h \in Files, NEW t \in Places(g), NEW u \in Places(h),
              At(g, t)' # 0, At(g, t)' = At(h, u)'
       PROVE  g = h /\ t = u
  <2>1. g # f /\ h # f  BY <1>3, <1>12
  <2>2. At(g, t)' = At(g, t) /\ At(h, u)' = At(h, u)  BY <1>4, <2>1
  <2>3. At(g, t) # 0 /\ At(g, t) = At(h, u)  BY <1>12, <2>2
  <2> QED  BY <1>7, <2>3
<1>13. OwnInv'  BY <1>5, <1>10, <1>11, <1>12 DEF OwnInv
<1> QED  BY <1>9, <1>13

(* No block of a file goes away. *)
Kept == \A g \in Files : \A t \in Places(g) : At(g, t) # 0 => At(g, t)' = At(g, t)

(* What that means for map_blockno. *)
LEMMA KeptMaps ==
  ASSUME Kept, NEW g \in Files
  PROVE  /\ inode[g].addrs[NDIRECT] # 0 => inode'[g].addrs[NDIRECT] = inode[g].addrs[NDIRECT]
         /\ \A bn \in Nat : bn < NDIRECT + NINDIRECT /\ Mapped(g, bn) # 0 =>
                            Mapped(g, bn)' = Mapped(g, bn)
<1>1. inode[g].addrs[NDIRECT] # 0 => inode'[g].addrs[NDIRECT] = inode[g].addrs[NDIRECT]
  <2>1. NDIRECT \in 0 .. NDIRECT  BY Sizes
  <2>2. PICK s \in Places(g) : s = <<"direct", NDIRECT>>  BY <2>1, InPlaces
  <2>3. At(g, s) = inode[g].addrs[NDIRECT] /\ At(g, s)' = inode'[g].addrs[NDIRECT]
    BY <2>2, AtDirect
  <2> QED  BY <2>3 DEF Kept
<1>2. ASSUME NEW bn \in Nat, bn < NDIRECT + NINDIRECT, Mapped(g, bn) # 0
      PROVE  Mapped(g, bn)' = Mapped(g, bn)
  <2>1. PICK t \in Places(g) : Mapped(g, bn) = At(g, t) /\ Mapped(g, bn)' = At(g, t)'
    BY <1>2, MappedAt
  <2>2. At(g, t) # 0  BY <1>2, <2>1
  <2> QED  BY <2>1, <2>2 DEF Kept
<1> QED  BY <1>1, <1>2

(* Where the block map stays, blocks are kept. *)
LEMMA SameKept ==
  ASSUME \A f \in Files : inode'[f].addrs = inode[f].addrs, ptr' = ptr
  PROVE  Kept
<1>1. \A f \in Files : \A s \in Places(f) : At(f, s)' = At(f, s)  BY PlacesKept
<1> QED  BY <1>1 DEF Kept

(* Where a place takes a block, no block of a file goes away. *)
LEMMA AssignedKept ==
  ASSUME NEW f \in Files, NEW s \in Places(f), NEW b, Assigned(f, s, b)
  PROVE  Kept
<1>1. SUFFICES ASSUME NEW g \in Files, NEW t \in Places(g), At(g, t) # 0
               PROVE  At(g, t)' = At(g, t)
  BY DEF Kept
<1>2. ~(g = f /\ t = s)  BY <1>1 DEF Assigned
<1> QED  BY <1>2 DEF Assigned

(* Where a place takes a block, what is mapped stays mapped. *)
LEMMA AssignedMaps ==
  ASSUME NEW f \in Files, NEW s \in Places(f), NEW b \in Blocknos, Assigned(f, s, b)
  PROVE  \A g \in Files : \A bn \in Nat :
            bn < NDIRECT + NINDIRECT /\ Mapped(g, bn) # 0 => Mapped(g, bn)' # 0
<1>0. b # 0  BY Sizes DEF Blocknos
<1>1. SUFFICES ASSUME NEW g \in Files, NEW bn \in Nat, bn < NDIRECT + NINDIRECT, Mapped(g, bn) # 0
               PROVE  Mapped(g, bn)' # 0
  OBVIOUS
<1>2. PICK t \in Places(g) : Mapped(g, bn) = At(g, t) /\ Mapped(g, bn)' = At(g, t)'
  BY <1>1, MappedAt
<1>3. CASE g = f /\ t = s  BY <1>0, <1>2, <1>3 DEF Assigned
<1>4. CASE ~(g = f /\ t = s)
  <2>1. At(g, t)' = At(g, t)  BY <1>4 DEF Assigned
  <2> QED  BY <1>1, <1>2, <2>1
<1> QED  BY <1>3, <1>4

(* What is to be shown of the blocks of process p's own file, when its     *)
(* call becomes c.                                                         *)
LEMMA CallSpace ==
  ASSUME CallInv, ReachInv, HoleInv, NEW p \in Procs, NEW c \in Call,
         call' = [call EXCEPT ![p] = c],
         Aside(p, c) \/ Within(p, c) \/ Takes(p, c) \/ Gives(p, c),
         \A f \in Files : \A bn \in Nat :
            bn < NDIRECT + NINDIRECT /\ Mapped(f, bn) # 0 => Mapped(f, bn)' # 0,
         \A f \in Files : inode'[f].size = inode[f].size \/ (Busy(p) /\ f = InodeOf(p)),
         \A f \in Files : inode'[f].size <= MAX_FILE_SIZE
                          /\ \A x \in 0 .. inode'[f].size - 1 : Mapped(f, Bn(x))' # 0,
         NEW g, g = InodeOf(p),
         c.at = "rblock" /\ c.left > 0 => c.off + c.count <= inode'[g].size,
         c.at \in {"wblock", "wfail"} =>
            /\ c.off <= inode'[g].size
            /\ \A x \in 0 .. Pos(c, Batch(c)) - 1 : Mapped(g, Bn(x))' # 0
  PROVE  ReachInv' /\ HoleInv'
<1>0. TypeOK /\ CountInv /\ HandleInv /\ LockInv  BY DEF CallInv
<1>1. call'[p] = c /\ \A q \in Procs \ {p} : call'[q] = call[q]  BY <1>0, CallSet
<1>2. c.at \in {"wblock", "wfail", "rblock"} => InodeOf(p)' = g
  <2>1. ASSUME c.at \in {"wblock", "wfail", "rblock"}
        PROVE  c.at # "idle" /\ c.o = call[p].o /\ call[p].at # "idle"
    BY <2>1 DEF Aside, Within, Takes, Gives, Busy
  <2> QED  BY <1>0, <2>1, OthersKept
<1>3. ASSUME NEW q \in Procs \ {p}, Busy(q)
      PROVE  /\ InodeOf(q) \in Files /\ InodeOf(q)' = InodeOf(q)
             /\ inode'[InodeOf(q)].size = inode[InodeOf(q)].size
  <2>1. call[q].at # "idle"  BY <1>3 DEF Busy
  <2>2. InodeOf(q) \in Files /\ InodeOf(q)' = InodeOf(q)  BY <1>0, <2>1, CallOf, OthersKept
  <2>3. ~(Busy(p) /\ InodeOf(q) = InodeOf(p))  BY <1>0, <1>3 DEF LockInv
  <2> QED  BY <2>2, <2>3
<1>4. ReachInv'
  <2>1. ASSUME NEW q \in Procs, call'[q].at = "rblock", call'[q].left > 0
        PROVE  call'[q].off + call'[q].count <= inode'[InodeOf(q)'].size
    <3>1. CASE q = p  BY <1>1, <1>2, <2>1, <3>1
    <3>2. CASE q # p
      <4>1. call'[q] = call[q] /\ Busy(q)  BY <1>1, <2>1, <3>2 DEF Busy
      <4>2. call[q].off + call[q].count <= inode[InodeOf(q)].size  BY <2>1, <4>1 DEF ReachInv
      <4> QED  BY <1>3, <3>2, <4>1, <4>2
    <3> QED  BY <3>1, <3>2
  <2> QED  BY <2>1 DEF ReachInv
<1>5. HoleInv'
  <2>1. ASSUME NEW q \in Procs, InOp(q)'
        PROVE  /\ call'[q].off <= inode'[InodeOf(q)'].size
               /\ \A x \in 0 .. Pos(call'[q], Batch(call'[q])) - 1 : Mapped(InodeOf(q), Bn(x))' # 0
    <3>1. CASE q = p
      <4>1. c.at \in {"wblock", "wfail"}  BY <1>1, <2>1, <3>1 DEF InOp
      <4>2. InodeOf(q)' = g /\ call'[q] = c  BY <1>1, <1>2, <3>1, <4>1
      <4>3. \A x : Mapped(InodeOf(q), Bn(x))' = Mapped(g, Bn(x))'  BY <4>2 DEF Mapped
      <4> QED  BY <4>1, <4>2, <4>3
    <3>2. CASE q # p
      <4>1. call'[q] = call[q] /\ Busy(q) /\ InOp(q)  BY <1>1, <2>1, <3>2 DEF Busy, InOp
      <4>2. PICK f \in Files : f = InodeOf(q) /\ InodeOf(q)' = f /\ inode'[f].size = inode[f].size
        BY <1>3, <3>2, <4>1
      <4>3. /\ call[q].off <= inode[f].size
            /\ \A x \in 0 .. Pos(call[q], Batch(call[q])) - 1 : Mapped(f, Bn(x)) # 0
        BY <4>1, <4>2 DEF HoleInv
      <4>4. ASSUME NEW x \in 0 .. Pos(call[q], Batch(call[q])) - 1 PROVE Mapped(f, Bn(x))' # 0
        <5>1. /\ Pos(call[q], Batch(call[q])) \in Nat /\ Batch(call[q]) \in Nat
              /\ Pos(call[q], Batch(call[q])) = call[q].off + (Batch(call[q]) - call[q].left)
              /\ call[q] \in Call
          BY <1>0, <4>1, PosIs
        <5>2. call[q].off + Batch(call[q]) <= MAX_FILE_SIZE
          BY <1>0, <4>1 DEF CountInv, Sound, InOp
        <5>3. call[q].off \in Nat /\ call[q].left \in Nat /\ MAX_FILE_SIZE \in Nat
          BY <5>1, CallFields, Sizes DEF MAX_FILE_SIZE
        <5>4. x \in Nat /\ x < MAX_FILE_SIZE  BY <5>1, <5>2, <5>3
        <5>5. Bn(x) \in Nat /\ Bn(x) < NDIRECT + NINDIRECT  BY <5>4, BnInside
        <5> QED  BY <4>3, <5>5
      <4>5. \A x : Mapped(InodeOf(q), Bn(x))' = Mapped(f, Bn(x))'  BY <4>2 DEF Mapped
      <4> QED  BY <4>1, <4>2, <4>3, <4>4, <4>5
    <3> QED  BY <3>1, <3>2
  <2> QED  BY <2>1 DEF HoleInv
<1> QED  BY <1>4, <1>5

(* Positions in one block. *)
LEMMA SameBlock ==
  ASSUME NEW x \in Nat, NEW n \in Nat, Bo(x) + n <= BSIZE, NEW y \in x .. x + n - 1
  PROVE  Bn(y) = Bn(x)
<1>0. PICK k \in Nat \ {0} : k = BSIZE  BY Sizes
<1>1. Bn(x) \in Nat /\ Bo(x) \in 0 .. (BSIZE - 1) /\ x = BSIZE * Bn(x) + Bo(x)  BY ChunkIs
<1>2. PICK q \in Nat, r \in Nat : q = Bn(x) /\ r = Bo(x) /\ x = k * q + r /\ r + n <= k
  <2>1. Bo(x) \in Nat  BY <1>1, Sizes
  <2> QED  BY <1>0, <1>1, <2>1
<1>3. PICK s \in Nat : y = k * q + s /\ s < k
  <2>1. k * q \in Nat  OBVIOUS
  <2>2. y - k * q \in Nat /\ y - k * q < k /\ y = k * q + (y - k * q)  BY <1>2, <2>1
  <2> QED  BY <2>2
<1>4. y \div k = q  BY <1>3
<1> QED  BY <1>0, <1>2, <1>4 DEF Bn

(* A call step that leaves the block map and the bitmap alone. *)
LEMMA QuietSpace ==
  ASSUME CallInv, ReachInv, HoleInv, OwnInv, NEW p \in Procs, NEW c \in Call,
         call' = [call EXCEPT ![p] = c],
         Aside(p, c) \/ Within(p, c) \/ Takes(p, c) \/ Gives(p, c),
         inode' = inode, ptr' = ptr, used' = used,
         NEW g, g = InodeOf(p),
         c.at = "rblock" /\ c.left > 0 => c.off + c.count <= inode[g].size,
         c.at \in {"wblock", "wfail"} =>
            /\ c.off <= inode[g].size
            /\ \A x \in 0 .. Pos(c, Batch(c)) - 1 : Mapped(g, Bn(x)) # 0
  PROVE  ReachInv' /\ HoleInv' /\ OwnInv'
<1>1. OwnInv'  BY KeptOwn
<1>2. \A f, bn : Mapped(f, bn)' = Mapped(f, bn)  BY DEF Mapped
<1>3. \A f \in Files : \A bn \in Nat :
         bn < NDIRECT + NINDIRECT /\ Mapped(f, bn) # 0 => Mapped(f, bn)' # 0
  BY <1>2
<1>4. \A f \in Files : inode'[f].size <= MAX_FILE_SIZE
                       /\ \A x \in 0 .. inode'[f].size - 1 : Mapped(f, Bn(x))' # 0
  BY <1>2 DEF ReachInv, HoleInv
<1>5. c.at \in {"wblock", "wfail"} =>
         /\ c.off <= inode'[g].size
         /\ \A x \in 0 .. Pos(c, Batch(c)) - 1 : Mapped(g, Bn(x))' # 0
  BY <1>2
<1> QED  BY <1>1, <1>3, <1>4, <1>5, CallSpace

(* sys_write and sys_read. *)
LEMMA SysCallSpace ==
  ASSUME CallInv, SpaceInv, NEW p \in Procs, NEW fd \in Fds,
         (\E n \in Counts : SysWrite(p, fd, n)) \/ (\E n \in Wanted : SysRead(p, fd, n))
  PROVE  SpaceInv'
<1>0. TypeOK  BY DEF CallInv
<1>1. /\ ~panicked /\ panicked' = panicked /\ call[p].at = "idle"
      /\ inode' = inode /\ ptr' = ptr /\ used' = used /\ owner' = owner /\ file' = file
  BY DEF SysWrite, SysRead, Ready
<1>2. PICK c \in Call : call' = [call EXCEPT ![p] = c] /\ c.at \in {"write", "read"}
  BY <1>0, SysWriteIs, SysReadIs
<1>3. Aside(p, c)  BY <1>1, <1>2 DEF Aside, Busy
<1>4. ReachInv /\ HoleInv /\ OwnInv  BY <1>1 DEF SpaceInv
<1>5. ReachInv' /\ HoleInv' /\ OwnInv'
  <2>1. PICK g : g = InodeOf(p)  OBVIOUS
  <2> QED  BY <1>1, <1>2, <1>3, <1>4, <2>1, QuietSpace
<1> QED  BY <1>1, <1>5 DEF SpaceInv

(* A batch begins: all of the file before its offset has blocks. *)
LEMMA WriteLockSpace ==
  ASSUME CallInv, SpaceInv, NEW p \in Procs, WriteLock(p)
  PROVE  SpaceInv'
<1>0. TypeOK /\ HandleInv /\ CountInv  BY DEF CallInv
<1>1. /\ ~panicked /\ panicked' = panicked /\ call[p].at = "write"
      /\ inode' = inode /\ ptr' = ptr /\ used' = used /\ file' = file
  BY DEF WriteLock
<1>2. ReachInv /\ HoleInv /\ OwnInv  BY <1>1 DEF SpaceInv
<1>3. PICK c \in Call :
              /\ call' = [call EXCEPT ![p] = c]
              /\ \/ /\ c = Idle /\ owner' = owner
                 \/ /\ c.at = "wblock" /\ c.o = call[p].o /\ c.id = call[p].id
                    /\ c.count = call[p].count /\ c.i = call[p].i
                    /\ c.off = file[call[p].o].off /\ c.left = Batch(call[p])
                    /\ Admitted(call[p], InodeOf(p))
                    /\ owner[InodeOf(p)] = None
                    /\ owner' = [owner EXCEPT ![InodeOf(p)] = p]
  BY <1>0, WriteLockIs
<1>4. PICK g \in Files : g = InodeOf(p)  BY <1>0, <1>1, CallOf
<1>5. Aside(p, c) \/ Takes(p, c)  BY <1>1, <1>3, IdleIs DEF Aside, Takes, Busy
<1>6. c.at \in {"wblock", "wfail"} =>
         /\ c.off <= inode[g].size
         /\ \A x \in 0 .. Pos(c, Batch(c)) - 1 : Mapped(g, Bn(x)) # 0
  <2>1. SUFFICES ASSUME c.at \in {"wblock", "wfail"}
                 PROVE  /\ c.off <= inode[g].size
                        /\ \A x \in 0 .. Pos(c, Batch(c)) - 1 : Mapped(g, Bn(x)) # 0
    OBVIOUS
  <2>2. /\ c.count = call[p].count /\ c.i = call[p].i /\ c.left = Batch(call[p])
        /\ c.off <= inode[g].size
    BY <1>3, <1>4, <2>1, IdleIs DEF Admitted
  <2>3. Batch(c) = c.left  BY <2>2 DEF Batch
  <2>4. Pos(c, Batch(c)) = c.off
    <3>1. c.left \in Nat /\ c.off \in Nat  BY CallFields
    <3> QED  BY <2>3, <3>1 DEF Pos
  <2>5. c.off \in Nat /\ inode[g].size \in Nat
    <3>1. inode[g] \in Inode  BY <1>0 DEF TypeOK
    <3> QED  BY <3>1, CallFields DEF Inode
  <2>6. ASSUME NEW x \in 0 .. c.off - 1 PROVE Mapped(g, Bn(x)) # 0
    <3>1. x \in 0 .. inode[g].size - 1  BY <2>2, <2>5
    <3> QED  BY <1>2, <3>1 DEF HoleInv
  <2> QED  BY <2>2, <2>4, <2>6
<1>7. c.at # "rblock" /\ call' = [call EXCEPT ![p] = c]  BY <1>3, IdleIs
<1>8. inode' = inode /\ ptr' = ptr /\ used' = used  BY <1>1
<1>9. ReachInv' /\ HoleInv' /\ OwnInv'
  BY <1>2, <1>4, <1>5, <1>6, <1>7, <1>8, QuietSpace
<1> QED  BY <1>1, <1>9 DEF SpaceInv

(* A read has its lock, and its count ends with the file. *)
LEMMA ReadLockSpace ==
  ASSUME CallInv, SpaceInv, NEW p \in Procs, ReadLock(p)
  PROVE  SpaceInv'
<1>0. TypeOK /\ HandleInv /\ CountInv  BY DEF CallInv
<1>1. /\ ~panicked /\ panicked' = panicked /\ call[p].at = "read"
      /\ inode' = inode /\ ptr' = ptr /\ used' = used /\ file' = file
  BY DEF ReadLock
<1>2. ReachInv /\ HoleInv /\ OwnInv  BY <1>1 DEF SpaceInv
<1>3. PICK c \in Call :
              /\ call' = [call EXCEPT ![p] = c]
              /\ c.at = "rblock" /\ c.o = call[p].o /\ c.off = file[call[p].o].off
              /\ c.left = c.count /\ (c.left > 0 => c.off + c.left <= inode[InodeOf(p)].size)
  BY <1>0, ReadLockIs
<1>4. PICK g \in Files : g = InodeOf(p)  BY <1>0, <1>1, CallOf
<1>5. owner[InodeOf(p)] = None /\ owner' = [owner EXCEPT ![InodeOf(p)] = p]  BY <1>0, ReadLockIs
<1>6. Takes(p, c)  BY <1>1, <1>3, <1>5 DEF Takes, Busy
<1>7. c.left > 0 => c.off + c.count <= inode[g].size  BY <1>3, <1>4
<1>8. ReachInv' /\ HoleInv' /\ OwnInv'
  BY <1>1, <1>2, <1>3, <1>4, <1>6, <1>7, QuietSpace
<1> QED  BY <1>1, <1>8 DEF SpaceInv

(* A read never meets a hole. *)
LEMMA ReadBlockSpace ==
  ASSUME CallInv, SpaceInv, NEW p \in Procs, ReadBlock(p)
  PROVE  SpaceInv' /\ ~panicked'
<1>0. TypeOK /\ HandleInv /\ CountInv  BY DEF CallInv
<1> DEFINE x == Pos(call[p], call[p].count)
<1>1. /\ ~panicked /\ call[p].at = "rblock" /\ call[p].left > 0
      /\ panicked' = (Mapped(InodeOf(p), Bn(x)) = 0)
      /\ inode' = inode /\ ptr' = ptr /\ used' = used /\ file' = file /\ owner' = owner
  BY DEF ReadBlock
<1>2. ReachInv /\ HoleInv /\ OwnInv  BY <1>1 DEF SpaceInv
<1>3. PICK c \in Call :
         /\ call' = [call EXCEPT ![p] = c]
         /\ c.at = "rblock" /\ c.o = call[p].o /\ c.count = call[p].count /\ c.off = call[p].off
  BY <1>0, ReadBlockIs
<1>4. PICK g \in Files : g = InodeOf(p)  BY <1>0, <1>1, CallOf
<1>5. call[p].off + call[p].count <= inode[g].size  BY <1>1, <1>2, <1>4 DEF ReachInv
<1>6. Within(p, c)  BY <1>1, <1>3 DEF Within, Busy
<1>7. ~panicked'
  <2>1. call[p].left <= call[p].count  BY <1>0, <1>1 DEF CountInv, Sound
  <2>2. call[p].left \in Nat /\ call[p].count \in Nat /\ call[p].off \in Nat
    BY <1>0, CallFields DEF TypeOK
  <2>3. inode[g].size \in Nat
    <3>1. inode[g] \in Inode  BY <1>0 DEF TypeOK
    <3> QED  BY <3>1 DEF Inode
  <2>4. x \in 0 .. inode[g].size - 1  BY <1>1, <1>5, <2>1, <2>2, <2>3 DEF Pos
  <2>5. Mapped(g, Bn(x)) # 0
    <3> HIDE DEF x
    <3> QED  BY <1>2, <2>4 DEF HoleInv
  <2> QED  BY <1>1, <1>4, <2>5
<1>8. ReachInv' /\ HoleInv' /\ OwnInv'
  BY <1>1, <1>2, <1>3, <1>4, <1>5, <1>6, QuietSpace
<1> QED  BY <1>7, <1>8 DEF SpaceInv

(* A read ends. *)
LEMMA ReadEndSpace ==
  ASSUME CallInv, SpaceInv, NEW p \in Procs, ReadEnd(p)
  PROVE  SpaceInv'
<1>0. TypeOK /\ HandleInv  BY DEF CallInv
<1>1. /\ ~panicked /\ panicked' = panicked /\ inode' = inode /\ ptr' = ptr /\ used' = used
  BY DEF ReadEnd
<1>2. ReachInv /\ HoleInv /\ OwnInv  BY <1>1 DEF SpaceInv
<1>3. /\ call[p].at = "rblock" /\ owner' = [owner EXCEPT ![InodeOf(p)] = None]
      /\ call' = [call EXCEPT ![p] = Idle]
      /\ file' = [file EXCEPT ![call[p].o].off = @ + call[p].count] \/ file' = file
  BY <1>0, ReadEndIs
<1>4. Gives(p, Idle)
  <2>1. call[p].count \in Nat  BY <1>0, CallFields DEF TypeOK
  <2>2. Busy(p)  BY <1>3 DEF Busy
  <2> QED  BY <1>3, <2>1, <2>2, IdleIs DEF Gives
<1>5. ReachInv' /\ HoleInv' /\ OwnInv'
  <2>1. PICK g : g = InodeOf(p)  OBVIOUS
  <2> QED  BY <1>1, <1>2, <1>3, <1>4, <2>1, IdleIs, QuietSpace
<1> QED  BY <1>1, <1>5 DEF SpaceInv

(* What a batch has stored lies in blocks that an inode can refer to. *)
LEMMA DoneInside ==
  ASSUME TypeOK, CountInv, NEW q \in Procs, InOp(q),
         NEW x \in 0 .. Pos(call[q], Batch(call[q])) - 1
  PROVE  Bn(x) \in Nat /\ Bn(x) < NDIRECT + NINDIRECT
<1>1. /\ Pos(call[q], Batch(call[q])) \in Nat /\ Batch(call[q]) \in Nat
      /\ Pos(call[q], Batch(call[q])) = call[q].off + (Batch(call[q]) - call[q].left)
      /\ call[q] \in Call
  BY PosIs
<1>2. call[q].off + Batch(call[q]) <= MAX_FILE_SIZE  BY DEF CountInv, Sound, InOp
<1>3. call[q].off \in Nat /\ call[q].left \in Nat /\ MAX_FILE_SIZE \in Nat
  BY <1>1, CallFields, Sizes DEF MAX_FILE_SIZE
<1>4. x \in Nat /\ x < MAX_FILE_SIZE  BY <1>1, <1>2, <1>3
<1> QED  BY <1>4, BnInside

(* Files whose size stays and whose blocks stay have no holes. *)
LEMMA GrownFiles ==
  ASSUME TypeOK, ReachInv, HoleInv,
         \A f \in Files : \A bn \in Nat :
            bn < NDIRECT + NINDIRECT /\ Mapped(f, bn) # 0 => Mapped(f, bn)' # 0,
         \A f \in Files : inode'[f].size = inode[f].size
  PROVE  \A f \in Files : inode'[f].size <= MAX_FILE_SIZE
                          /\ \A x \in 0 .. inode'[f].size - 1 : Mapped(f, Bn(x))' # 0
<1>1. SUFFICES ASSUME NEW f \in Files
               PROVE  /\ inode'[f].size <= MAX_FILE_SIZE
                      /\ \A x \in 0 .. inode[f].size - 1 : Mapped(f, Bn(x))' # 0
  OBVIOUS
<1>2. inode[f].size <= MAX_FILE_SIZE /\ inode[f].size \in Nat /\ MAX_FILE_SIZE \in Nat
  <2>1. inode[f] \in Inode  BY DEF TypeOK
  <2> QED  BY <2>1, Sizes DEF ReachInv, Inode, MAX_FILE_SIZE
<1>3. ASSUME NEW x \in 0 .. inode[f].size - 1 PROVE Mapped(f, Bn(x))' # 0
  <2>1. x \in Nat /\ x < MAX_FILE_SIZE  BY <1>2
  <2>2. Bn(x) \in Nat /\ Bn(x) < NDIRECT + NINDIRECT  BY <2>1, BnInside
  <2> QED  BY <2>2 DEF HoleInv
<1> QED  BY <1>2, <1>3

(* A step inside a call that only adds to the block map. *)
LEMMA SameCallSpace ==
  ASSUME CallInv, ReachInv, HoleInv, NEW p \in Procs, call[p].at = "wblock",
         NEW c \in Call, c = call[p], call' = [call EXCEPT ![p] = c],
         owner' = owner, file' = file,
         \A f \in Files : \A bn \in Nat :
            bn < NDIRECT + NINDIRECT /\ Mapped(f, bn) # 0 => Mapped(f, bn)' # 0,
         \A f \in Files : inode'[f].size = inode[f].size
  PROVE  ReachInv' /\ HoleInv'
<1>0. TypeOK /\ HandleInv /\ CountInv  BY DEF CallInv
<1>1. call[p] \in Call  BY <1>0 DEF TypeOK
<1>2. Within(p, call[p])  BY DEF Within, Busy
<1>3. PICK g \in Files : g = InodeOf(p)  BY <1>0, CallOf
<1>4. \A f \in Files : inode'[f].size <= MAX_FILE_SIZE
                       /\ \A x \in 0 .. inode'[f].size - 1 : Mapped(f, Bn(x))' # 0
  BY <1>0, GrownFiles
<1>5. /\ call[p].off <= inode'[g].size
      /\ \A x \in 0 .. Pos(call[p], Batch(call[p])) - 1 : Mapped(g, Bn(x))' # 0
  <2>1. InOp(p)  BY DEF InOp
  <2>2. /\ call[p].off <= inode[g].size
        /\ \A x \in 0 .. Pos(call[p], Batch(call[p])) - 1 : Mapped(g, Bn(x)) # 0
    BY <1>3, <2>1 DEF HoleInv
  <2>3. ASSUME NEW x \in 0 .. Pos(call[p], Batch(call[p])) - 1
        PROVE  Bn(x) \in Nat /\ Bn(x) < NDIRECT + NINDIRECT
    BY <1>0, <2>1, DoneInside
  <2> QED  BY <1>3, <2>2, <2>3
<1>6. Within(p, c) \/ Aside(p, c) \/ Takes(p, c) \/ Gives(p, c)  BY <1>2
<1>7. c.at = "rblock" /\ c.left > 0 => c.off + c.count <= inode'[g].size  OBVIOUS
<1>8. c.at \in {"wblock", "wfail"} =>
         /\ c.off <= inode'[g].size
         /\ \A x \in 0 .. Pos(c, Batch(c)) - 1 : Mapped(g, Bn(x))' # 0
  BY <1>5
<1>9. \A f \in Files : inode'[f].size = inode[f].size \/ (Busy(p) /\ f = InodeOf(p))  OBVIOUS
<1> QED  BY <1>3, <1>4, <1>6, <1>7, <1>8, <1>9, CallSpace

(* bm_alloc of a full disk panics; then all blocks are in use. *)
LEMMA FullStays ==
  ASSUME TypeOK, Full, used' = used \cup {BmAlloc}
  PROVE  Full'
<1>1. BmAlloc \in Blocknos  BY BmAllocIs DEF TypeOK
<1> QED  BY <1>1 DEF Full, Blocknos

(* The indirect block of a file is allocated. *)
LEMMA MapIndirectSpace ==
  ASSUME CallInv, SpaceInv, NEW p \in Procs, MapIndirect(p)
  PROVE  SpaceInv'
<1>0. TypeOK /\ HandleInv /\ CountInv  BY DEF CallInv
<1>1. /\ ~panicked /\ call[p].at = "wblock" /\ panicked' = Full
      /\ inode[InodeOf(p)].addrs[NDIRECT] = 0
      /\ used' = used \cup {BmAlloc} /\ ListClear(BmAlloc) /\ AddrTo(InodeOf(p), NDIRECT, BmAlloc)
      /\ owner' = owner /\ file' = file /\ call' = call
  BY DEF MapIndirect, ListClear, AddrTo
<1>2. ReachInv /\ HoleInv /\ OwnInv  BY <1>1 DEF SpaceInv
<1>3. PICK g \in Files : g = InodeOf(p)  BY <1>0, <1>1, CallOf
<1>4. CASE Full
  <2>1. Full'  BY <1>0, <1>1, <1>4, FullStays
  <2> QED  BY <1>1, <1>4, <2>1 DEF SpaceInv
<1>5. CASE ~Full
  <2>1. BmAlloc \in Blocknos /\ BmAlloc \notin used  BY <1>0, <1>5, BmAllocIs DEF TypeOK
  <2>2. PICK b \in Blocknos : b = BmAlloc  BY <2>1
  <2>3. AddrTo(g, NDIRECT, b) /\ ListClear(b) /\ b \notin used /\ used' = used \cup {b}
    BY <1>1, <1>3, <2>1, <2>2
  <2>4. PICK s \in Places(g) : Assigned(g, s, b)
    BY <1>0, <1>1, <1>2, <1>3, <2>3, IndirectAssigned
  <2>5. OwnInv'  BY <1>0, <1>2, <2>3, <2>4, AssignedOwn DEF TypeOK
  <2>6. \A f \in Files : \A bn \in Nat :
           bn < NDIRECT + NINDIRECT /\ Mapped(f, bn) # 0 => Mapped(f, bn)' # 0
    BY <2>4, AssignedMaps
  <2>7. \A f \in Files : inode'[f].size = inode[f].size
    <3>1. inode \in [Files -> Inode] /\ NDIRECT \in 0 .. NDIRECT  BY <1>0, Sizes DEF TypeOK
    <3> QED  BY <2>3, <3>1, AddrSet
  <2>8. PICK c \in Call : c = call[p] /\ call' = [call EXCEPT ![p] = c]
    BY <1>0, <1>1, CallSame DEF TypeOK
  <2>9. ReachInv' /\ HoleInv'  BY <1>1, <1>2, <2>6, <2>7, <2>8, SameCallSpace
  <2> QED  BY <1>1, <1>5, <2>5, <2>9 DEF SpaceInv
<1> QED  BY <1>4, <1>5

(* map_blockno leaves the block mapped, and ownership unique. *)
LEMMA MapBlockSpace ==
  ASSUME TypeOK, OwnInv, NEW f \in Files, NEW bn \in Nat, NEW b \in Blocknos, MapBlock(f, bn, b),
         bn < NDIRECT + NINDIRECT, bn >= NDIRECT => inode[f].addrs[NDIRECT] # 0,
         Mapped(f, bn) = 0 => ~Full
  PROVE  /\ OwnInv' /\ Kept /\ Mapped(f, bn)' = b /\ b # 0
         /\ \A g \in Files : inode'[g].size = inode[g].size
         /\ \A g \in Files : \A k \in Nat :
               k < NDIRECT + NINDIRECT /\ Mapped(g, k) # 0 => Mapped(g, k)' # 0
<1>0. b # 0  BY Sizes DEF Blocknos
<1>1. CASE b = Mapped(f, bn) /\ used' = used /\ ptr' = ptr /\ inode' = inode
  <2>1. OwnInv' /\ Kept  BY <1>1, KeptOwn, SameKept
  <2>2. \A g, k : Mapped(g, k)' = Mapped(g, k)  BY <1>1 DEF Mapped
  <2> QED  BY <1>0, <1>1, <2>1, <2>2
<1>2. CASE /\ Mapped(f, bn) = 0 /\ b = BmAlloc /\ used' = used \cup {b}
           /\ \E s \in Places(f) : Assigned(f, s, b)
           /\ \A g \in Files : inode'[g].size = inode[g].size
           /\ Mapped(f, bn)' = b
  <2>1. b \notin used  BY <1>2, BmAllocIs DEF TypeOK
  <2>2. PICK s \in Places(f) : Assigned(f, s, b)  BY <1>2
  <2>3. OwnInv' /\ Kept  BY <1>2, <2>1, <2>2, AssignedOwn, AssignedKept DEF TypeOK
  <2>4. \A g \in Files : \A k \in Nat :
           k < NDIRECT + NINDIRECT /\ Mapped(g, k) # 0 => Mapped(g, k)' # 0
    BY <2>2, AssignedMaps
  <2> QED  BY <1>0, <1>2, <2>3, <2>4
<1>3. CASE /\ Mapped(f, bn) = 0 /\ b = BmAlloc /\ used' = used \cup {b}
           /\ bn \in 0 .. NDIRECT - 1 /\ inode[f].addrs[bn] = 0
           /\ inode' = [inode EXCEPT ![f].addrs[bn] = b] /\ ptr' = ptr
  <2>1. AddrTo(f, bn, b) /\ ptr' = ptr /\ inode[f].addrs[bn] = 0  BY <1>3 DEF AddrTo
  <2>2. bn \in 0 .. NDIRECT /\ bn # NDIRECT /\ bn < NDIRECT  BY <1>3, Sizes
  <2>3. \E s \in Places(f) : Assigned(f, s, b)  BY <2>1, <2>2, DirectAssigned
  <2>4. inode'[f].addrs[bn] = b /\ \A g \in Files : inode'[g].size = inode[g].size
    <3>1. inode \in [Files -> Inode]  BY DEF TypeOK
    <3> QED  BY <2>1, <2>2, <3>1, AddrSet
  <2>5. Mapped(f, bn)' = b  BY <2>2, <2>4 DEF Mapped
  <2>6. Mapped(f, bn) = 0 /\ b = BmAlloc /\ used' = used \cup {b}  BY <1>3
  <2> QED  BY <1>2, <2>3, <2>4, <2>5, <2>6
<1>4. CASE /\ Mapped(f, bn) = 0 /\ b = BmAlloc /\ used' = used \cup {b}
           /\ bn - NDIRECT \in 0 .. NINDIRECT - 1 /\ inode[f].addrs[NDIRECT] \in Blocknos
           /\ ptr[inode[f].addrs[NDIRECT]][bn - NDIRECT] = 0
           /\ ptr' = [ptr EXCEPT ![inode[f].addrs[NDIRECT]][bn - NDIRECT] = b] /\ inode' = inode
  <2>1. PICK a \in Blocknos : a = inode[f].addrs[NDIRECT]  BY <1>4
  <2>2. PICK k \in 0 .. NINDIRECT - 1 : k = bn - NDIRECT  BY <1>4
  <2>3. ListTo(a, k, b) /\ inode' = inode /\ ptr[a][k] = 0  BY <1>4, <2>1, <2>2 DEF ListTo
  <2>4. \E s \in Places(f) : Assigned(f, s, b)  BY <2>1, <2>3, ListAssigned
  <2>5. ptr'[a][k] = b
    <3>1. ptr \in [Blocknos -> [0 .. NINDIRECT - 1 -> 0 .. NBLOCK]]  BY DEF TypeOK
    <3> QED  BY <2>3, <3>1, PtrSet
  <2>6. Mapped(f, bn)' = b
    <3>1. ~(bn < NDIRECT)  BY <2>2, Sizes
    <3>2. a # 0 /\ inode'[f].addrs[NDIRECT] = a  BY <2>1, <2>3, Sizes DEF Blocknos
    <3> QED  BY <2>2, <2>5, <3>1, <3>2 DEF Mapped
  <2>7. Mapped(f, bn) = 0 /\ b = BmAlloc /\ used' = used \cup {b} /\ inode' = inode  BY <1>4
  <2> QED  BY <1>2, <2>4, <2>6, <2>7
<1> QED  BY <1>1, <1>3, <1>4, MapBlockIs

(* A turn of try_iwrite's loop: the block it fills belongs to the file. *)
LEMMA WriteBlockSpace ==
  ASSUME CallInv, SpaceInv, NEW p \in Procs, WriteBlock(p)
  PROVE  SpaceInv'
<1>0. TypeOK /\ HandleInv /\ CountInv  BY DEF CallInv
<1> DEFINE x0 == Pos(call[p], Batch(call[p]))
           n0 == Chunk(x0, call[p].left)
<1>1. /\ ~panicked /\ call[p].at = "wblock" /\ call[p].left > 0
      /\ Bn(x0) >= NDIRECT => inode[InodeOf(p)].addrs[NDIRECT] # 0
      /\ panicked' = (Mapped(InodeOf(p), Bn(x0)) = 0 /\ Full)
      /\ owner' = owner /\ file' = file
  BY DEF WriteBlock
<1>2. PICK b \in Blocknos : MapBlock(InodeOf(p), Bn(x0), b)  BY DEF WriteBlock
<1>3. ReachInv /\ HoleInv /\ OwnInv  BY <1>1 DEF SpaceInv
<1>4. PICK g \in Files : g = InodeOf(p)  BY <1>0, <1>1, CallOf
<1>5. PICK x \in Nat : x = x0  BY <1>0, <1>1, TurnIs
<1>6. Bn(x) \in Nat /\ Bn(x) < NDIRECT + NINDIRECT  BY <1>0, <1>1, <1>5, TurnIs
<1>7. InOp(p) /\ call[p] \in Call /\ Batch(call[p]) \in Nat /\ call[p].left <= Batch(call[p])
      /\ x = call[p].off + (Batch(call[p]) - call[p].left)
  <2>1. InOp(p)  BY <1>1 DEF InOp
  <2> QED  BY <1>0, <1>5, <2>1, PosIs
<1>8. call[p].left \in Nat /\ call[p].off \in Nat  BY <1>7, CallFields
<1>9. PICK n \in Nat : n = n0 /\ n <= call[p].left /\ Bo(x) + n <= BSIZE
  BY <1>5, <1>8, ChunkIs
<1>10. PICK c \in Call :
         /\ call' = [call EXCEPT ![p] = c]
         /\ c.o = call[p].o /\ c.count = call[p].count /\ c.i = call[p].i /\ c.off = call[p].off
         /\ \/ c.at = "wblock" /\ c.left = call[p].left - n
            \/ c.at = "wfail" /\ c.left = call[p].left
  BY <1>0, <1>9, WriteBlockIs
<1> HIDE DEF x0, n0
<1>11. /\ MapBlock(g, Bn(x), b) /\ (Bn(x) >= NDIRECT => inode[g].addrs[NDIRECT] # 0)
       /\ panicked' = (Mapped(g, Bn(x)) = 0 /\ Full)
  BY <1>1, <1>2, <1>4, <1>5
<1>12. CASE Mapped(g, Bn(x)) = 0 /\ Full
  <2>1. used' = used \cup {BmAlloc}  BY <1>11, <1>12 DEF MapBlock
  <2>2. Full'  BY <1>0, <1>12, <2>1, FullStays
  <2> QED  BY <1>11, <1>12, <2>2 DEF SpaceInv
<1>13. CASE Mapped(g, Bn(x)) = 0 => ~Full
  <2>1. /\ OwnInv' /\ Mapped(g, Bn(x))' # 0
        /\ \A h \in Files : inode'[h].size = inode[h].size
        /\ \A h \in Files : \A k \in Nat :
              k < NDIRECT + NINDIRECT /\ Mapped(h, k) # 0 => Mapped(h, k)' # 0
    BY <1>0, <1>3, <1>6, <1>11, <1>13, MapBlockSpace
  <2>2. Within(p, c)  BY <1>1, <1>10 DEF Within, Busy
  <2>3. \A f \in Files : inode'[f].size <= MAX_FILE_SIZE
                         /\ \A y \in 0 .. inode'[f].size - 1 : Mapped(f, Bn(y))' # 0
    BY <1>0, <1>3, <2>1, GrownFiles
  <2>4. Pos(c, Batch(c)) \in {x, x + n}
    <3>1. Batch(c) = Batch(call[p])  BY <1>10 DEF Batch
    <3>2. PICK k \in Nat, l \in Nat, o \in Nat : k = Batch(call[p]) /\ l = call[p].left /\ o = call[p].off
      BY <1>7, <1>8
    <3>3. x = o + (k - l) /\ l <= k /\ n <= l  BY <1>7, <1>9, <3>2
    <3>4. CASE c.left = call[p].left - n
      <4>1. Pos(c, Batch(c)) = o + (k - (l - n))  BY <1>10, <3>1, <3>2, <3>4 DEF Pos
      <4>2. o + (k - (l - n)) = x + n  BY <3>3
      <4> QED  BY <4>1, <4>2
    <3>5. CASE c.left = call[p].left
      <4>1. Pos(c, Batch(c)) = o + (k - l)  BY <1>10, <3>1, <3>2, <3>5 DEF Pos
      <4> QED  BY <3>3, <4>1
    <3> QED  BY <1>10, <3>4, <3>5
  <2>5. /\ call[p].off <= inode[g].size
        /\ \A y \in 0 .. x - 1 : Mapped(g, Bn(y)) # 0
    BY <1>3, <1>4, <1>5, <1>7 DEF HoleInv, x0
  <2>6. ASSUME NEW y \in 0 .. x + n - 1 PROVE Mapped(g, Bn(y))' # 0
    <3>1. CASE y \in 0 .. x - 1
      <4>1. Bn(y) \in Nat /\ Bn(y) < NDIRECT + NINDIRECT
        BY <1>0, <1>5, <1>7, <3>1, DoneInside DEF x0
      <4> QED  BY <2>1, <2>5, <3>1, <4>1
    <3>2. CASE y \in x .. x + n - 1
      <4>1. Bn(y) = Bn(x)  BY <1>9, <3>2, SameBlock
      <4> QED  BY <2>1, <4>1
    <3> QED  BY <3>1, <3>2
  <2>7. \A y \in 0 .. Pos(c, Batch(c)) - 1 : Mapped(g, Bn(y))' # 0
    <3>1. SUFFICES ASSUME NEW y \in 0 .. Pos(c, Batch(c)) - 1 PROVE Mapped(g, Bn(y))' # 0
      OBVIOUS
    <3>2. y \in 0 .. x + n - 1  BY <2>4
    <3> QED  BY <2>6, <3>2
  <2>8. c.off <= inode'[g].size /\ c.at # "rblock"  BY <1>10, <2>1, <2>5
  <2>9. ReachInv' /\ HoleInv'
    BY <1>3, <1>4, <1>10, <2>1, <2>2, <2>3, <2>7, <2>8, CallSpace
  <2> QED  BY <1>11, <1>13, <2>1, <2>9 DEF SpaceInv
<1> QED  BY <1>12, <1>13

(* The end of a batch: the file covers what was stored, and no more. *)
LEMMA WriteEndSpace ==
  ASSUME CallInv, SpaceInv, NEW p \in Procs, WriteEnd(p)
  PROVE  SpaceInv'
<1>0. TypeOK /\ HandleInv /\ CountInv  BY DEF CallInv
<1> DEFINE done0 == Batch(call[p]) - call[p].left
<1>1. /\ ~panicked /\ panicked' = panicked /\ used' = used /\ ptr' = ptr
      /\ inode' = [inode EXCEPT ![InodeOf(p)].size =
                      Max({inode[InodeOf(p)].size, call[p].off + done0})]
  BY DEF WriteEnd, Update
<1>2. /\ InOp(p) /\ file' = [file EXCEPT ![call[p].o].off = @ + done0]
      /\ owner' = [owner EXCEPT ![InodeOf(p)] = None]
  BY <1>0, WriteEndIs
<1>3. PICK c \in Call : call' = [call EXCEPT ![p] = c] /\ (c = Idle \/ c.at = "write")
  BY <1>0, WriteEndIs
<1>4. ReachInv /\ HoleInv /\ OwnInv  BY <1>1 DEF SpaceInv
<1>5. Busy(p) /\ call[p].at # "idle"  BY <1>2 DEF InOp, Busy
<1>6. PICK g \in Files : g = InodeOf(p)  BY <1>0, <1>5, CallOf
<1>7. /\ call[p] \in Call /\ Batch(call[p]) \in Nat /\ call[p].left <= Batch(call[p])
      /\ Pos(call[p], Batch(call[p])) \in Nat
      /\ Pos(call[p], Batch(call[p])) = call[p].off + done0
  BY <1>0, <1>2, PosIs
<1>8. call[p].left \in Nat /\ call[p].off \in Nat /\ MAX_FILE_SIZE \in Nat
  BY <1>7, CallFields, Sizes DEF MAX_FILE_SIZE
<1>9. done0 \in Nat  BY <1>7, <1>8
<1>10. PICK z \in Nat : z = Pos(call[p], Batch(call[p])) /\ z = call[p].off + done0  BY <1>7
<1>11. z <= MAX_FILE_SIZE
  <2>1. call[p].off + Batch(call[p]) <= MAX_FILE_SIZE  BY <1>0, <1>2 DEF CountInv, Sound, InOp
  <2> QED  BY <1>7, <1>8, <1>10, <2>1
<1> HIDE DEF done0
<1>12. Gives(p, c)
  <2>1. c.at \notin {"wblock", "wfail", "rblock"}  BY <1>3, IdleIs
  <2> QED  BY <1>2, <1>5, <1>9, <2>1 DEF Gives
<1>13. inode \in [Files -> Inode]  BY <1>0 DEF TypeOK
<1>14. PICK m \in Nat : m = inode[g].size  BY <1>13 DEF Inode
<1>15. PICK k \in Nat : k = Max({m, z}) /\ (k = m \/ k = z)  BY MaxPair
<1>16. /\ inode'[g].size = k /\ inode'[g].addrs = inode[g].addrs
       /\ \A h \in Files \ {g} : inode'[h] = inode[h]
  <2>1. inode' = [inode EXCEPT ![g].size = k]  BY <1>1, <1>6, <1>10, <1>14, <1>15
  <2>2. inode'[g] = [inode[g] EXCEPT !.size = k] /\ \A h \in Files \ {g} : inode'[h] = inode[h]
    BY <1>13, <2>1
  <2>3. inode[g] \in Inode  BY <1>13
  <2> QED  BY <2>2, <2>3 DEF Inode
<1>17. \A f \in Files : inode'[f].addrs = inode[f].addrs  BY <1>16
<1>18. OwnInv'  BY <1>1, <1>4, <1>17, KeptOwn
<1>19. \A f \in Files : \A bn : Mapped(f, bn)' = Mapped(f, bn)  BY <1>1, <1>17, PlacesKept
<1>20. \A f \in Files : inode'[f].size <= MAX_FILE_SIZE
                        /\ \A y \in 0 .. inode'[f].size - 1 : Mapped(f, Bn(y))' # 0
  <2>1. SUFFICES ASSUME NEW f \in Files
                 PROVE  /\ inode'[f].size <= MAX_FILE_SIZE
                        /\ \A y \in 0 .. inode'[f].size - 1 : Mapped(f, Bn(y))' # 0
    OBVIOUS
  <2>2. inode[f].size <= MAX_FILE_SIZE /\ \A y \in 0 .. inode[f].size - 1 : Mapped(f, Bn(y)) # 0
    BY <1>4 DEF ReachInv, HoleInv
  <2>3. CASE f # g  BY <1>16, <1>19, <2>2, <2>3
  <2>4. CASE f = g /\ k = m  BY <1>14, <1>16, <1>19, <2>2, <2>4
  <2>5. CASE f = g /\ k = z
    <3>1. \A y \in 0 .. z - 1 : Mapped(g, Bn(y)) # 0  BY <1>2, <1>4, <1>6, <1>10 DEF HoleInv
    <3> QED  BY <1>11, <1>16, <1>19, <2>5, <3>1
  <2> QED  BY <1>15, <2>3, <2>4, <2>5
<1>21. \A f \in Files : inode'[f].size = inode[f].size \/ (Busy(p) /\ f = InodeOf(p))
  BY <1>5, <1>6, <1>16
<1>22. \A f \in Files : \A bn \in Nat :
          bn < NDIRECT + NINDIRECT /\ Mapped(f, bn) # 0 => Mapped(f, bn)' # 0
  BY <1>19
<1>23. c.at \notin {"wblock", "wfail", "rblock"}  BY <1>3, IdleIs
<1>24. ReachInv' /\ HoleInv'
  BY <1>3, <1>4, <1>6, <1>12, <1>20, <1>21, <1>22, <1>23, CallSpace
<1> QED  BY <1>1, <1>18, <1>24 DEF SpaceInv

(* A step of the file table: calls go on as they were, and a file that     *)
(* changes is one that no call works on, and ends up empty.                *)
Bystander ==
    /\ call' = call /\ ptr' = ptr
    /\ \A q \in Procs : call[q].at # "idle" => file'[call[q].o] = file[call[q].o]
    /\ \A f \in Files : \/ inode'[f] = inode[f]
                        \/ /\ inode'[f].size = 0
                           /\ \A q \in Procs : ~(Busy(q) /\ InodeOf(q) = f)

(* open: the file that is truncated is not locked, and so in no call. *)
LEMMA SysOpenIs ==
  ASSUME CallInv, NEW p \in Procs, NEW f \in Files, NEW mode \in Modes, NEW trunc \in BOOLEAN,
         SysOpen(p, f, mode, trunc)
  PROVE  Bystander
<1>0. TypeOK /\ HandleInv /\ LockInv  BY DEF CallInv
<1>1. PICK o \in Objs : /\ file[o] = None
                        /\ file' = [file EXCEPT ![o] = [inode |-> f, off |-> 0, mode |-> mode]]
  BY DEF SysOpen
<1>2. owner[f] = None /\ call' = call /\ ptr' = ptr  BY DEF SysOpen, Unlocked
<1>3. inode' = [inode EXCEPT ![f] = EmptyFile] \/ inode' = inode  BY DEF SysOpen, Truncate
<1>4. \A q \in Procs : call[q].at # "idle" => file'[call[q].o] = file[call[q].o]
  <2>1. \A x \in Objs \ {o} : file'[x] = file[x]  BY <1>0, <1>1 DEF TypeOK
  <2> QED  BY <1>0, <1>1, <2>1, OpenCall
<1>5. \A q \in Procs : ~(Busy(q) /\ InodeOf(q) = f)
  <2>1. None \notin Procs  BY FileAssumption
  <2> QED  BY <1>0, <1>2, <2>1 DEF LockInv
<1>6. \A g \in Files : inode'[g] = inode[g] \/ (g = f /\ inode'[g].size = 0)
  <2>1. inode \in [Files -> Inode]  BY <1>0 DEF TypeOK
  <2>2. EmptyFile.size = 0  BY DEF EmptyFile
  <2> QED  BY <1>3, <2>1, <2>2
<1> QED  BY <1>2, <1>4, <1>5, <1>6 DEF Bystander

(* dup, and close: the File that is dropped is not the File of a call. *)
LEMMA SysDupCloseIs ==
  ASSUME CallInv, NEW p \in Procs, NEW fd \in Fds, SysDup(p, fd) \/ SysClose(p, fd)
  PROVE  Bystander
<1>0. TypeOK /\ HandleInv  BY DEF CallInv
<1>1. /\ call' = call /\ ptr' = ptr /\ inode' = inode
      /\ file' = file \/ (SysClose(p, fd) /\ file' = [file EXCEPT ![ofile[p][fd]] = None])
  BY DEF SysDup, SysClose
<1>2. ASSUME NEW q \in Procs, call[q].at # "idle"
      PROVE  file'[call[q].o] = file[call[q].o]
  <2>1. CASE SysClose(p, fd) /\ file' = [file EXCEPT ![ofile[p][fd]] = None]
    <3>1. HandleInv'
      <4>1. CallInv'  BY <2>1, SysCloseInv
      <4> QED  BY <4>1 DEF CallInv
    <3>2. call[q].o \in Objs /\ call[q].o # None  BY <1>0, <1>2, OpenCall
    <3>3. \A x \in Objs : file'[x] = file[x] \/ file'[x] = None  BY <1>0, <2>1 DEF TypeOK
    <3>4. PICK e \in Fds : ofile'[q][e] = call[q].o  BY <1>1, <1>2, <3>1 DEF HandleInv
    <3>5. file'[call[q].o] # None  BY <3>1, <3>2, <3>4 DEF HandleInv
    <3> QED  BY <3>2, <3>3, <3>5
  <2> QED  BY <1>1, <2>1
<1> QED  BY <1>1, <1>2 DEF Bystander

(* The files that calls work on are the same. *)
LEMMA BystanderKeeps ==
  ASSUME CallInv, Bystander, NEW q \in Procs, Busy(q)
  PROVE  /\ InodeOf(q)' = InodeOf(q) /\ InodeOf(q) \in Files
         /\ inode'[InodeOf(q)] = inode[InodeOf(q)]
<1>0. TypeOK /\ HandleInv  BY DEF CallInv
<1>1. call[q].at # "idle"  BY DEF Busy
<1>2. InodeOf(q) \in Files  BY <1>0, <1>1, CallOf
<1>3. InodeOf(q)' = InodeOf(q)  BY <1>1 DEF InodeOf, Bystander
<1> QED  BY <1>2, <1>3 DEF Bystander

(* A step of the file table keeps what is known of the files' blocks. *)
LEMMA TableSpace ==
  ASSUME CallInv, ReachInv, HoleInv, Bystander
  PROVE  ReachInv' /\ HoleInv'
<1>1. \A f \in Files : inode'[f] = inode[f] => \A bn : Mapped(f, bn)' = Mapped(f, bn)
  BY DEF Mapped, Bystander
<1>2. call' = call /\ ptr' = ptr /\ \A f \in Files : inode'[f] = inode[f] \/ inode'[f].size = 0
  BY DEF Bystander
<1>3. MAX_FILE_SIZE \in Nat  BY Sizes DEF MAX_FILE_SIZE
<1>4. ASSUME NEW f \in Files
      PROVE  /\ inode'[f].size <= MAX_FILE_SIZE
             /\ \A x \in 0 .. inode'[f].size - 1 : Mapped(f, Bn(x))' # 0
  <2>1. CASE inode'[f] = inode[f]  BY <1>1, <2>1 DEF ReachInv, HoleInv
  <2>2. CASE inode'[f].size = 0  BY <1>3, <2>2
  <2> QED  BY <1>2, <2>1, <2>2
<1>5. ASSUME NEW q \in Procs, call'[q].at = "rblock", call'[q].left > 0
      PROVE  call'[q].off + call'[q].count <= inode'[InodeOf(q)'].size
  <2>1. Busy(q)  BY <1>2, <1>5 DEF Busy
  <2>2. InodeOf(q)' = InodeOf(q) /\ inode'[InodeOf(q)] = inode[InodeOf(q)]  BY <2>1, BystanderKeeps
  <2> QED  BY <1>2, <1>5, <2>2 DEF ReachInv
<1>6. ASSUME NEW q \in Procs, InOp(q)'
      PROVE  /\ call'[q].off <= inode'[InodeOf(q)'].size
             /\ \A x \in 0 .. Pos(call'[q], Batch(call'[q])) - 1 : Mapped(InodeOf(q), Bn(x))' # 0
  <2>1. Busy(q) /\ InOp(q)  BY <1>2, <1>6 DEF Busy, InOp
  <2>2. PICK f \in Files : f = InodeOf(q) /\ InodeOf(q)' = f /\ inode'[f] = inode[f]
    BY <2>1, BystanderKeeps
  <2>3. /\ call[q].off <= inode[f].size
        /\ \A x \in 0 .. Pos(call[q], Batch(call[q])) - 1 : Mapped(f, Bn(x)) # 0
    BY <2>1, <2>2 DEF HoleInv
  <2>4. \A x : Mapped(InodeOf(q), Bn(x))' = Mapped(f, Bn(x))  BY <1>2, <2>2 DEF Mapped
  <2> QED  BY <1>2, <2>2, <2>3, <2>4
<1> QED  BY <1>4, <1>5, <1>6 DEF ReachInv, HoleInv

(* open. *)
LEMMA SysOpenSpace ==
  ASSUME CallInv, SpaceInv, NEW p \in Procs, NEW f \in Files, NEW mode \in Modes,
         NEW trunc \in BOOLEAN, SysOpen(p, f, mode, trunc)
  PROVE  SpaceInv' /\ ~panicked'
<1>0. TypeOK  BY DEF CallInv
<1>1. ~panicked /\ ptr' = ptr  BY DEF SysOpen, Ready
<1>2. ReachInv /\ HoleInv /\ OwnInv  BY <1>1 DEF SpaceInv
<1>3. ReachInv' /\ HoleInv'  BY <1>2, SysOpenIs, TableSpace
<1>4. CASE /\ used' = used \ Refers(inode[f])
           /\ panicked' = (panicked \/ ~(Refers(inode[f]) \subseteq used))
           /\ inode' = [inode EXCEPT ![f] = EmptyFile]
  <2>1. OwnInv' /\ Refers(inode[f]) \subseteq used  BY <1>0, <1>1, <1>2, <1>4, TruncateOwn
  <2>2. ~panicked'  BY <1>1, <1>4, <2>1
  <2> QED  BY <1>3, <2>1, <2>2 DEF SpaceInv
<1>5. CASE used' = used /\ inode' = inode /\ panicked' = panicked
  <2>1. OwnInv'  BY <1>1, <1>2, <1>5, KeptOwn
  <2> QED  BY <1>1, <1>3, <1>5, <2>1 DEF SpaceInv
<1> QED  BY <1>4, <1>5 DEF SysOpen, Truncate, BmFree

(* dup and close leave the blocks alone. *)
LEMMA SysDupCloseSpace ==
  ASSUME CallInv, SpaceInv, NEW p \in Procs, NEW fd \in Fds, SysDup(p, fd) \/ SysClose(p, fd)
  PROVE  SpaceInv'
<1>1. ~panicked /\ panicked' = panicked /\ ptr' = ptr /\ used' = used /\ inode' = inode
  BY DEF SysDup, SysClose, Ready
<1>2. ReachInv /\ HoleInv /\ OwnInv  BY <1>1 DEF SpaceInv
<1>3. OwnInv'  BY <1>1, <1>2, KeptOwn
<1>4. ReachInv' /\ HoleInv'  BY <1>2, SysDupCloseIs, TableSpace
<1> QED  BY <1>1, <1>3, <1>4 DEF SpaceInv

(* An empty disk and empty files. *)
LEMMA SpaceInit == ASSUME Init PROVE SpaceInv
<1>0. NDIRECT \in 0 .. NDIRECT /\ MAX_FILE_SIZE \in Nat  BY Sizes DEF MAX_FILE_SIZE
<1>1. used = {} /\ ~panicked /\ inode = [f \in Files |-> EmptyFile] /\ call = [p \in Procs |-> Idle]
  BY DEF Init
<1>2. \A f \in Files : inode[f].size = 0 /\ \A k \in 0 .. NDIRECT : inode[f].addrs[k] = 0
  BY <1>1 DEF EmptyFile
<1>3. \A q \in Procs : call[q].at = "idle"  BY <1>1, IdleIs
<1>4. ReachInv  BY <1>0, <1>2, <1>3 DEF ReachInv
<1>5. HoleInv  BY <1>2, <1>3 DEF HoleInv, InOp
<1>6. ASSUME NEW f \in Files, NEW s \in Places(f) PROVE At(f, s) = 0
  <2>1. CASE \E k \in 0 .. NDIRECT : s = <<"direct", k>>  BY <1>2, <2>1, AtDirect
  <2>2. CASE \E k \in 0 .. NINDIRECT - 1 : s = <<"indirect", k>>
    BY <1>0, <1>2, <2>2, AtIndirect
  <2> QED  BY <2>1, <2>2, PlaceForms
<1>7. OwnInv  BY <1>1, <1>6 DEF OwnInv
<1> QED  BY <1>1, <1>4, <1>5, <1>7 DEF SpaceInv

(* The inductive step. *)
LEMMA SpaceNext == ASSUME CallInv, SpaceInv, [Next]_vars PROVE SpaceInv'
<1>1. CASE UNCHANGED vars
  <2>1. /\ panicked' = panicked /\ call' = call /\ ptr' = ptr /\ used' = used /\ inode' = inode
        /\ file' = file
    BY <1>1 DEF vars
  <2>2. CASE panicked  BY <2>1, <2>2 DEF SpaceInv, Full
  <2>3. CASE ~panicked
    <3>1. ReachInv /\ HoleInv /\ OwnInv  BY <2>3 DEF SpaceInv
    <3>2. Bystander  BY <2>1 DEF Bystander
    <3>3. OwnInv'  BY <2>1, <3>1, KeptOwn
    <3> QED  BY <2>1, <2>3, <3>1, <3>2, <3>3, TableSpace DEF SpaceInv
  <2> QED  BY <2>2, <2>3
<1>2. CASE Next
  <2>1. PICK p \in Procs :
          \/ \E f \in Files, mode \in Modes, trunc \in BOOLEAN : SysOpen(p, f, mode, trunc)
          \/ \E fd \in Fds : SysDup(p, fd) \/ SysClose(p, fd)
          \/ \E fd \in Fds, n \in Counts : SysWrite(p, fd, n)
          \/ \E fd \in Fds, n \in Wanted : SysRead(p, fd, n)
          \/ WriteLock(p) \/ MapIndirect(p) \/ WriteBlock(p) \/ WriteEnd(p)
          \/ ReadLock(p) \/ ReadBlock(p) \/ ReadEnd(p)
    BY <1>2 DEF Next
  <2> QED
    BY <2>1, SysOpenSpace, SysDupCloseSpace, SysCallSpace, WriteLockSpace,
       MapIndirectSpace, WriteBlockSpace, WriteEndSpace, ReadLockSpace, ReadBlockSpace,
       ReadEndSpace
<1> QED  BY <1>1, <1>2

(* The invariant about blocks holds. *)
LEMMA SpaceCorrect == Spec => [](CallInv /\ SpaceInv)
<1>1. Init => CallInv /\ SpaceInv  BY CallInit, SpaceInit
<1>2. CallInv /\ SpaceInv /\ [Next]_vars => (CallInv /\ SpaceInv)'  BY CallNext, SpaceNext
<1> QED  BY <1>1, <1>2, PTL DEF Spec

(* Ownership as the run states it. *)
LEMMA OwnedOnce == ASSUME OwnInv, 0 \notin used PROVE BlocksOwnedOnce
<1>1. ASSUME NEW b PROVE b \in used <=> \E f \in Files : b \in Refers(inode[f])
  <2>1. \A f \in Files : b \in Refers(inode[f]) <=> b # 0 /\ \E s \in Places(f) : At(f, s) = b
    BY RefersIs
  <2> QED  BY <2>1 DEF OwnInv
<1>2. used = UNION {Refers(inode[f]) : f \in Files}  BY <1>1
<1> QED  BY <1>2 DEF OwnInv, BlocksOwnedOnce

(* As long as bm_alloc has found a block whenever one was needed, a block  *)
(* belongs to one place of one file, and the bitmap marks exactly the      *)
(* blocks that belong to some file: map_blockno, truncate, bm_alloc and    *)
(* bm_free share no block and lose none, whatever calls run side by side.  *)
THEOREM FileBlocksOwned == Spec => []BlocksOwnedOnce
<1>1. ASSUME CallInv, SpaceInv, ~panicked PROVE BlocksOwnedOnce
  <2>1. OwnInv  BY <1>1 DEF SpaceInv
  <2>2. 0 \notin used
    <3>1. used \subseteq Blocknos  BY <1>1 DEF CallInv, TypeOK
    <3> QED  BY <3>1 DEF Blocknos
  <2> QED  BY <2>1, <2>2, OwnedOnce
<1>2. CallInv /\ SpaceInv => BlocksOwnedOnce  BY <1>1 DEF BlocksOwnedOnce
<1> QED  BY <1>2, SpaceCorrect, PTL

(* The one panic that these calls can reach is bm_alloc's, with every      *)
(* block in use: bm_free never frees a free block, and iread never makes   *)
(* map_blockno allocate, since a file has no hole below its size.          *)
THEOREM FilePanicsOnlyFull == Spec => [](panicked => Full)
<1>1. SpaceInv => (panicked => Full)  BY DEF SpaceInv
<1> QED  BY <1>1, SpaceCorrect, PTL

(* No file has a hole, and none is larger than its inode can describe:     *)
(* every byte below the size lies in an allocated block.                   *)
NoHole == \A f \in Files :
             /\ inode[f].size <= MAX_FILE_SIZE
             /\ \A x \in 0 .. inode[f].size - 1 : Mapped(f, Bn(x)) # 0

(* try_iwrite grows a file only over blocks that map_blockno has given it, *)
(* also when copy_in stops it in the middle of a batch.                    *)
THEOREM FileNoHole == Spec => [](~panicked => NoHole)
<1>1. SpaceInv => (~panicked => NoHole)  BY DEF SpaceInv, ReachInv, HoleInv, NoHole
<1> QED  BY <1>1, SpaceCorrect, PTL

-----------------------------------------------------------------------------
(***************************************************************************)
(* The blocks that an operation hands to the log.                          *)
(***************************************************************************)

(* The bitmap, the indirect block, or a block that the batch covers. *)
Logs(g, c, b) ==
    \/ b = Bitmap
    \/ b = inode[g].addrs[NDIRECT]
    \/ \E x \in c.off .. c.off + Batch(c) - 1 : b = Mapped(g, Bn(x))

(* Outside of an operation nothing has been logged; in one, only these. *)
LoggedInv ==
    \A p \in Procs :
      /\ ~InOp(p) => wset[p] = {}
      /\ InOp(p) => \A b \in wset[p] : Logs(InodeOf(p), call[p], b)

(* A block that was one of these remains one. *)
LEMMA LogsKept ==
  ASSUME Kept, NEW g \in Files, NEW c \in Call, Batch(c) \in Nat,
         c.off + Batch(c) <= MAX_FILE_SIZE, NEW b, Logs(g, c, b)
  PROVE  Logs(g, c, b)'
<1>1. CASE b = Bitmap  BY <1>1 DEF Logs
<1>2. CASE b = inode[g].addrs[NDIRECT]
  <2>1. inode[g].addrs[NDIRECT] # 0 => inode'[g].addrs[NDIRECT] = inode[g].addrs[NDIRECT]
    BY KeptMaps
  <2> QED  BY <1>2, <2>1 DEF Logs, Bitmap
<1>3. CASE \E x \in c.off .. c.off + Batch(c) - 1 : b = Mapped(g, Bn(x))
  <2>1. PICK x \in c.off .. c.off + Batch(c) - 1 : b = Mapped(g, Bn(x))  BY <1>3
  <2>2. c.off \in Nat /\ MAX_FILE_SIZE \in Nat  BY CallFields, Sizes DEF MAX_FILE_SIZE
  <2>3. x \in Nat /\ x < MAX_FILE_SIZE  BY <2>2
  <2>4. Bn(x) \in Nat /\ Bn(x) < NDIRECT + NINDIRECT  BY <2>3, BnInside
  <2>5. Mapped(g, Bn(x)) # 0 => Mapped(g, Bn(x))' = Mapped(g, Bn(x))  BY <2>4, KeptMaps
  <2> QED  BY <2>1, <2>5 DEF Logs, Bitmap
<1> QED  BY <1>1, <1>2, <1>3 DEF Logs

(* The operation of a process that a step leaves alone. *)
LEMMA LogsOther ==
  ASSUME CallInv, LoggedInv, Kept, NEW q \in Procs, wset'[q] = wset[q], call'[q] = call[q],
         InOp(q) => InodeOf(q)' = InodeOf(q)
  PROVE  /\ ~InOp(q)' => wset'[q] = {}
         /\ InOp(q)' => \A b \in wset'[q] : Logs(InodeOf(q), call[q], b)'
<1>0. TypeOK /\ CountInv /\ HandleInv  BY DEF CallInv
<1>1. InOp(q)' <=> InOp(q)  BY DEF InOp
<1>2. CASE ~InOp(q)  BY <1>1, <1>2 DEF LoggedInv
<1>3. CASE InOp(q)
  <2>1. call[q].at # "idle"  BY <1>3 DEF InOp
  <2>2. PICK g \in Files : g = InodeOf(q) /\ InodeOf(q)' = g  BY <1>0, <1>3, <2>1, CallOf
  <2>3. PICK c \in Call : c = call[q] /\ call'[q] = c  BY <1>0 DEF TypeOK
  <2>4. Batch(c) \in Nat /\ c.off + Batch(c) <= MAX_FILE_SIZE
    BY <1>0, <1>3, <2>3, PosIs DEF CountInv, Sound, InOp
  <2>5. ASSUME NEW b \in wset'[q] PROVE Logs(InodeOf(q), call[q], b)'
    <3>1. Logs(InodeOf(q), call[q], b)  BY <1>3, <2>5 DEF LoggedInv
    <3>2. Logs(g, c, b)  BY <2>2, <2>3, <3>1
    <3>3. Logs(g, c, b)'  BY <2>4, <3>2, LogsKept
    <3>4. \A x : Mapped(InodeOf(q), Bn(x))' = Mapped(g, Bn(x))'  BY <2>2 DEF Mapped
    <3> QED  BY <2>2, <2>3, <3>3, <3>4 DEF Logs
  <2> QED  BY <1>1, <1>3, <2>5
<1> QED  BY <1>2, <1>3

(* What a step of a call has to show. *)
LEMMA LoggedStep ==
  ASSUME CallInv, LoggedInv, NEW p \in Procs, NEW c \in Call, call' = [call EXCEPT ![p] = c],
         Aside(p, c) \/ Within(p, c) \/ Takes(p, c) \/ Gives(p, c), Kept,
         NEW w, wset' = [wset EXCEPT ![p] = w], NEW g, g = InodeOf(p),
         c.at \notin {"wblock", "wfail"} => w = {},
         c.at \in {"wblock", "wfail"} => \A b \in w : Logs(g, c, b)'
  PROVE  LoggedInv'
<1>0. TypeOK /\ HandleInv  BY DEF CallInv
<1>1. call'[p] = c /\ \A q \in Procs \ {p} : call'[q] = call[q]  BY <1>0, CallSet
<1>2. wset'[p] = w /\ \A q \in Procs \ {p} : wset'[q] = wset[q]  BY <1>0 DEF TypeOK
<1>3. ASSUME NEW q \in Procs
      PROVE  /\ ~InOp(q)' => wset'[q] = {}
             /\ InOp(q)' => \A b \in wset'[q] : Logs(InodeOf(q), call[q], b)'
  <2>1. CASE q = p
    <3>1. CASE c.at \in {"wblock", "wfail"}
      <4>1. InodeOf(p)' = g
        <5>1. c.at # "idle" /\ c.o = call[p].o /\ call[p].at # "idle"
          BY <3>1 DEF Aside, Within, Takes, Gives, Busy
        <5> QED  BY <1>0, <5>1, OthersKept
      <4>2. \A x : Mapped(InodeOf(p), Bn(x))' = Mapped(g, Bn(x))'  BY <4>1 DEF Mapped
      <4>3. InOp(p)'  BY <1>1, <3>1 DEF InOp
      <4>4. ASSUME NEW b \in w PROVE Logs(InodeOf(p), call[p], b)'
        <5>1. Logs(g, c, b)'  BY <3>1
        <5> QED  BY <1>1, <4>1, <4>2, <5>1 DEF Logs
      <4> QED  BY <1>2, <2>1, <4>3, <4>4
    <3>2. CASE c.at \notin {"wblock", "wfail"}
      <4>1. ~InOp(p)'  BY <1>1, <3>2 DEF InOp
      <4> QED  BY <1>2, <2>1, <3>2, <4>1
    <3> QED  BY <3>1, <3>2
  <2>2. CASE q # p
    <3>1. InOp(q) => InodeOf(q)' = InodeOf(q)
      <4>1. InOp(q) => call[q].at # "idle"  BY DEF InOp
      <4> QED  BY <1>0, <2>2, <4>1, OthersKept
    <3>2. wset'[q] = wset[q] /\ call'[q] = call[q]  BY <1>1, <1>2, <2>2
    <3> QED  BY <3>1, <3>2, LogsOther
  <2> QED  BY <2>1, <2>2
<1> QED  BY <1>3 DEF LoggedInv

(* A step of a call that leaves the block map alone and nothing logged. *)
LEMMA QuietLogged ==
  ASSUME CallInv, LoggedInv, NEW p \in Procs, NEW c \in Call, call' = [call EXCEPT ![p] = c],
         Aside(p, c) \/ Within(p, c) \/ Takes(p, c) \/ Gives(p, c),
         \A f \in Files : inode'[f].addrs = inode[f].addrs, ptr' = ptr,
         wset' = [wset EXCEPT ![p] = {}]
  PROVE  LoggedInv'
<1>1. Kept  BY SameKept
<1>2. PICK g : g = InodeOf(p)  OBVIOUS
<1>3. PICK w : w = {}  OBVIOUS
<1>4. wset' = [wset EXCEPT ![p] = w]  BY <1>3
<1>5. c.at \in {"wblock", "wfail"} => \A b \in w : Logs(g, c, b)'  BY <1>3
<1> QED  BY <1>1, <1>2, <1>3, <1>4, <1>5, LoggedStep

(* Nothing logged stays so. *)
LEMMA NoneLogged ==
  ASSUME CallInv, LoggedInv, NEW p \in Procs, ~InOp(p)
  PROVE  wset = [wset EXCEPT ![p] = {}]
<1>1. wset[p] = {}  BY DEF LoggedInv
<1>2. wset = [q \in Procs |-> wset[q]]  BY DEF CallInv, TypeOK
<1> QED  BY <1>1, <1>2

(* The steps of a call other than those of try_iwrite's loop. *)
LEMMA CallLogged ==
  ASSUME CallInv, LoggedInv, NEW p \in Procs,
         \/ \E fd \in Fds : \E n \in Counts : SysWrite(p, fd, n)
         \/ \E fd \in Fds : \E n \in Wanted : SysRead(p, fd, n)
         \/ WriteLock(p) \/ ReadLock(p) \/ ReadBlock(p) \/ ReadEnd(p)
  PROVE  LoggedInv'
<1>0. TypeOK /\ HandleInv /\ CountInv  BY DEF CallInv
<1>1. wset' = wset /\ inode' = inode /\ ptr' = ptr /\ ~InOp(p)
  BY DEF SysWrite, SysRead, Ready, WriteLock, ReadLock, ReadBlock, ReadEnd, InOp
<1>2. wset' = [wset EXCEPT ![p] = {}]  BY <1>1, NoneLogged
<1>3. \A f \in Files : inode'[f].addrs = inode[f].addrs  BY <1>1
<1>4. CASE \/ \E fd \in Fds : \E n \in Counts : SysWrite(p, fd, n)
           \/ \E fd \in Fds : \E n \in Wanted : SysRead(p, fd, n)
  <2>1. PICK c \in Call : call' = [call EXCEPT ![p] = c] /\ c.at \in {"write", "read"}
    BY <1>0, <1>4, SysWriteIs, SysReadIs
  <2>2. Aside(p, c)  BY <1>4, <2>1 DEF Aside, Busy, SysWrite, SysRead, Ready
  <2> QED  BY <1>1, <1>2, <1>3, <2>1, <2>2, QuietLogged
<1>5. CASE WriteLock(p)
  <2>1. call[p].at = "write" /\ file' = file  BY <1>5 DEF WriteLock
  <2>2. PICK c \in Call :
              /\ call' = [call EXCEPT ![p] = c]
              /\ \/ /\ c = Idle /\ owner' = owner
                 \/ /\ c.at = "wblock" /\ c.o = call[p].o /\ c.off = file[call[p].o].off
                    /\ owner[InodeOf(p)] = None
                    /\ owner' = [owner EXCEPT ![InodeOf(p)] = p]
    BY <1>0, <1>5, WriteLockIs
  <2>3. Aside(p, c) \/ Takes(p, c)  BY <2>1, <2>2, IdleIs DEF Aside, Takes, Busy
  <2>4. call' = [call EXCEPT ![p] = c]  BY <2>2
  <2> QED  BY <1>1, <1>2, <1>3, <2>3, <2>4, QuietLogged
<1>6. CASE ReadLock(p)
  <2>1. call[p].at = "read" /\ file' = file  BY <1>6 DEF ReadLock
  <2>2. PICK c \in Call :
              /\ call' = [call EXCEPT ![p] = c]
              /\ c.at = "rblock" /\ c.o = call[p].o /\ c.off = file[call[p].o].off
    BY <1>0, <1>6, ReadLockIs
  <2>3. owner[InodeOf(p)] = None /\ owner' = [owner EXCEPT ![InodeOf(p)] = p]
    BY <1>0, <1>6, ReadLockIs
  <2>4. Takes(p, c)  BY <2>1, <2>2, <2>3 DEF Takes, Busy
  <2>5. call' = [call EXCEPT ![p] = c]  BY <2>2
  <2> QED  BY <1>1, <1>2, <1>3, <2>4, <2>5, QuietLogged
<1>7. CASE ReadBlock(p)
  <2>1. call[p].at = "rblock" /\ file' = file /\ owner' = owner  BY <1>7 DEF ReadBlock
  <2>2. PICK c \in Call :
         /\ call' = [call EXCEPT ![p] = c]
         /\ c.at = "rblock" /\ c.o = call[p].o /\ c.off = call[p].off
    BY <1>0, <1>7, ReadBlockIs
  <2>3. Within(p, c)  BY <2>1, <2>2 DEF Within, Busy
  <2> QED  BY <1>1, <1>2, <1>3, <2>2, <2>3, QuietLogged
<1>8. CASE ReadEnd(p)
  <2>1. /\ call[p].at = "rblock" /\ owner' = [owner EXCEPT ![InodeOf(p)] = None]
        /\ call' = [call EXCEPT ![p] = Idle]
        /\ file' = [file EXCEPT ![call[p].o].off = @ + call[p].count] \/ file' = file
    BY <1>0, <1>8, ReadEndIs
  <2>2. call[p].count \in Nat  BY <1>0, CallFields DEF TypeOK
  <2>3. Gives(p, Idle)
    <3>1. Busy(p)  BY <2>1 DEF Busy
    <3> QED  BY <2>1, <2>2, <3>1, IdleIs DEF Gives
  <2>4. call' = [call EXCEPT ![p] = Idle]  BY <2>1
  <2> QED  BY <1>1, <1>2, <1>3, <2>3, <2>4, IdleIs, QuietLogged
<1> QED  BY <1>4, <1>5, <1>6, <1>7, <1>8

(* The end of a batch. *)
LEMMA WriteEndLogged ==
  ASSUME CallInv, LoggedInv, NEW p \in Procs, WriteEnd(p)
  PROVE  LoggedInv'
<1>0. TypeOK /\ HandleInv /\ CountInv  BY DEF CallInv
<1> DEFINE done0 == Batch(call[p]) - call[p].left
<1>1. /\ wset' = [wset EXCEPT ![p] = {}] /\ ptr' = ptr
      /\ inode' = [inode EXCEPT ![InodeOf(p)].size =
                      Max({inode[InodeOf(p)].size, call[p].off + done0})]
  BY DEF WriteEnd, Update
<1>2. /\ InOp(p) /\ file' = [file EXCEPT ![call[p].o].off = @ + done0]
      /\ owner' = [owner EXCEPT ![InodeOf(p)] = None]
  BY <1>0, WriteEndIs
<1>3. PICK c \in Call : call' = [call EXCEPT ![p] = c] /\ (c = Idle \/ c.at = "write")
  BY <1>0, WriteEndIs
<1>4. Busy(p)  BY <1>2 DEF InOp, Busy
<1>5. done0 \in Nat
  <2>1. /\ call[p] \in Call /\ Batch(call[p]) \in Nat /\ call[p].left <= Batch(call[p])
    BY <1>0, <1>2, PosIs
  <2>2. call[p].left \in Nat  BY <2>1, CallFields
  <2> QED  BY <2>1, <2>2
<1> HIDE DEF done0
<1>6. Gives(p, c)
  <2>1. c.at \notin {"wblock", "wfail", "rblock"}  BY <1>3, IdleIs
  <2> QED  BY <1>2, <1>4, <1>5, <2>1 DEF Gives
<1>7. \A f \in Files : inode'[f].addrs = inode[f].addrs
  <2>1. inode \in [Files -> Inode]  BY <1>0 DEF TypeOK
  <2>2. PICK m : m = Max({inode[InodeOf(p)].size, call[p].off + done0})  OBVIOUS
  <2>3. PICK g : g = InodeOf(p)  OBVIOUS
  <2>4. inode' = [inode EXCEPT ![g].size = m]  BY <1>1, <2>2, <2>3
  <2>5. ASSUME NEW f \in Files PROVE inode'[f].addrs = inode[f].addrs
    <3>1. inode[f] \in Inode  BY <2>1
    <3>2. inode'[f] = [inode[f] EXCEPT !.size = m] \/ inode'[f] = inode[f]  BY <2>1, <2>4
    <3> QED  BY <3>1, <3>2 DEF Inode
  <2> QED  BY <2>5
<1>8. call' = [call EXCEPT ![p] = c] /\ wset' = [wset EXCEPT ![p] = {}] /\ ptr' = ptr
  BY <1>1, <1>3
<1> QED  BY <1>6, <1>7, <1>8, QuietLogged

(* The indirect block is one of the blocks that may be logged. *)
LEMMA MapIndirectLogged ==
  ASSUME CallInv, SpaceInv, LoggedInv, NEW p \in Procs, MapIndirect(p), ~panicked'
  PROVE  LoggedInv'
<1>0. TypeOK /\ HandleInv /\ CountInv  BY DEF CallInv
<1>1. /\ ~panicked /\ call[p].at = "wblock" /\ panicked' = Full
      /\ inode[InodeOf(p)].addrs[NDIRECT] = 0
      /\ used' = used \cup {BmAlloc} /\ ListClear(BmAlloc) /\ AddrTo(InodeOf(p), NDIRECT, BmAlloc)
      /\ owner' = owner /\ file' = file /\ call' = call
      /\ wset' = [wset EXCEPT ![p] = @ \cup {Bitmap, BmAlloc}]
  BY DEF MapIndirect, ListClear, AddrTo, LogWrite
<1>2. OwnInv /\ ~Full  BY <1>1 DEF SpaceInv
<1>3. PICK g \in Files : g = InodeOf(p)  BY <1>0, <1>1, CallOf
<1>4. PICK b \in Blocknos : b = BmAlloc /\ b \notin used
  BY <1>0, <1>2, BmAllocIs DEF TypeOK
<1>5. AddrTo(g, NDIRECT, b) /\ ListClear(b) /\ inode[g].addrs[NDIRECT] = 0  BY <1>1, <1>3, <1>4
<1>6. Kept
  <2>1. PICK s \in Places(g) : Assigned(g, s, b)
    BY <1>0, <1>2, <1>4, <1>5, IndirectAssigned
  <2> QED  BY <2>1, AssignedKept
<1>7. inode'[g].addrs[NDIRECT] = b
  <2>1. inode \in [Files -> Inode] /\ NDIRECT \in 0 .. NDIRECT  BY <1>0, Sizes DEF TypeOK
  <2> QED  BY <1>5, <2>1, AddrSet
<1>8. PICK c \in Call : c = call[p] /\ call' = [call EXCEPT ![p] = c]
  BY <1>0, <1>1, CallSame DEF TypeOK
<1>9. PICK w : w = wset[p] \cup {Bitmap, b} /\ wset' = [wset EXCEPT ![p] = w]
  BY <1>1, <1>4
<1>10. InOp(p) /\ Within(p, c) /\ c.at = "wblock"  BY <1>1, <1>8 DEF InOp, Within, Busy
<1>11. ASSUME NEW d \in w PROVE Logs(g, c, d)'
  <2>1. CASE d \in wset[p]
    <3>1. Logs(g, c, d)  BY <1>3, <1>8, <1>10, <2>1 DEF LoggedInv
    <3>2. Batch(c) \in Nat /\ c.off + Batch(c) <= MAX_FILE_SIZE
      BY <1>0, <1>8, <1>10, PosIs DEF CountInv, Sound
    <3> QED  BY <1>6, <3>1, <3>2, LogsKept
  <2>2. CASE d = Bitmap \/ d = b  BY <1>7, <2>2 DEF Logs
  <2> QED  BY <1>9, <2>1, <2>2
<1>12. call' = [call EXCEPT ![p] = c] /\ wset' = [wset EXCEPT ![p] = w]  BY <1>8, <1>9
<1> QED  BY <1>3, <1>6, <1>10, <1>11, <1>12, LoggedStep

(* A turn of the loop logs the block it fills and those of its allocation. *)
LEMMA WriteBlockLogged ==
  ASSUME CallInv, SpaceInv, LoggedInv, NEW p \in Procs, WriteBlock(p), ~panicked'
  PROVE  LoggedInv'
<1>0. TypeOK /\ HandleInv /\ CountInv  BY DEF CallInv
<1> DEFINE x0 == Pos(call[p], Batch(call[p]))
<1>1. /\ ~panicked /\ call[p].at = "wblock" /\ call[p].left > 0
      /\ Bn(x0) >= NDIRECT => inode[InodeOf(p)].addrs[NDIRECT] # 0
      /\ panicked' = (Mapped(InodeOf(p), Bn(x0)) = 0 /\ Full)
      /\ owner' = owner /\ file' = file
  BY DEF WriteBlock
<1>2. PICK b \in Blocknos :
         /\ MapBlock(InodeOf(p), Bn(x0), b)
         /\ \E e \in SUBSET {b} :
               wset' = [wset EXCEPT ![p] = @ \cup (MapLogs(InodeOf(p), Bn(x0), b) \cup e)]
  BY DEF WriteBlock, LogWrite
<1>3. OwnInv  BY <1>1 DEF SpaceInv
<1>4. PICK g \in Files : g = InodeOf(p)  BY <1>0, <1>1, CallOf
<1>5. PICK x \in Nat : x = x0  BY <1>0, <1>1, TurnIs
<1>6. Bn(x) \in Nat /\ Bn(x) < NDIRECT + NINDIRECT  BY <1>0, <1>1, <1>5, TurnIs
<1>7. InOp(p) /\ call[p] \in Call /\ Batch(call[p]) \in Nat /\ call[p].left <= Batch(call[p])
      /\ x = call[p].off + (Batch(call[p]) - call[p].left)
  <2>1. InOp(p)  BY <1>1 DEF InOp
  <2> QED  BY <1>0, <1>5, <2>1, PosIs
<1>8. call[p].left \in Nat /\ call[p].off \in Nat  BY <1>7, CallFields
<1>9. x \in call[p].off .. call[p].off + Batch(call[p]) - 1  BY <1>1, <1>7, <1>8
<1>10. PICK c \in Call :
         /\ call' = [call EXCEPT ![p] = c]
         /\ c.o = call[p].o /\ c.count = call[p].count /\ c.i = call[p].i /\ c.off = call[p].off
         /\ c.at \in {"wblock", "wfail"}
  BY <1>0, WriteBlockIs
<1> HIDE DEF x0
<1>11. /\ MapBlock(g, Bn(x), b) /\ (Bn(x) >= NDIRECT => inode[g].addrs[NDIRECT] # 0)
       /\ Mapped(g, Bn(x)) = 0 => ~Full
  BY <1>1, <1>2, <1>4, <1>5
<1>12. Kept /\ Mapped(g, Bn(x))' = b  BY <1>0, <1>3, <1>6, <1>11, MapBlockSpace
<1>13. PICK e \in SUBSET {b} :
          wset' = [wset EXCEPT ![p] = @ \cup (MapLogs(g, Bn(x), b) \cup e)]
  BY <1>2, <1>4, <1>5
<1>14. PICK w : w = wset[p] \cup (MapLogs(g, Bn(x), b) \cup e) /\ wset' = [wset EXCEPT ![p] = w]
  BY <1>13
<1>15. Batch(c) = Batch(call[p])  BY <1>10 DEF Batch
<1>16. Within(p, c)  BY <1>1, <1>10 DEF Within, Busy
<1>17. ASSUME NEW d \in w PROVE Logs(g, c, d)'
  <2>1. Batch(c) \in Nat /\ c.off + Batch(c) <= MAX_FILE_SIZE
    BY <1>0, <1>7, <1>10, <1>15 DEF CountInv, Sound, InOp
  <2>2. CASE d \in wset[p]
    <3>1. Logs(g, call[p], d)  BY <1>4, <1>7, <2>2 DEF LoggedInv
    <3>2. Logs(g, c, d)  BY <1>10, <1>15, <3>1 DEF Logs
    <3> QED  BY <1>12, <2>1, <3>2, LogsKept
  <2>3. CASE d = Bitmap  BY <2>3 DEF Logs
  <2>4. CASE d = b
    <3>1. x \in c.off .. c.off + Batch(c) - 1  BY <1>9, <1>10, <1>15
    <3> QED  BY <1>12, <2>4, <3>1 DEF Logs
  <2>5. CASE d = inode[g].addrs[NDIRECT] /\ Bn(x) >= NDIRECT
    <3>1. inode'[g].addrs[NDIRECT] = d  BY <1>11, <1>12, <2>5, KeptMaps
    <3> QED  BY <3>1 DEF Logs
  <2>6. d \in wset[p] \/ d \in MapLogs(g, Bn(x), b) \/ d = b  BY <1>14
  <2>7. d \in MapLogs(g, Bn(x), b) => d = Bitmap \/ d = b \/ (d = inode[g].addrs[NDIRECT] /\ ~(Bn(x) < NDIRECT))
    BY DEF MapLogs
  <2>8. ~(Bn(x) < NDIRECT) => Bn(x) >= NDIRECT  BY <1>6, Sizes
  <2> QED  BY <2>2, <2>3, <2>4, <2>5, <2>6, <2>7, <2>8
<1>18. /\ call' = [call EXCEPT ![p] = c] /\ c.at \in {"wblock", "wfail"}
       /\ wset' = [wset EXCEPT ![p] = w]
  BY <1>10, <1>14
<1> QED  BY <1>4, <1>12, <1>16, <1>17, <1>18, LoggedStep

(* A step of the file table logs nothing. *)
LEMMA TableLogged ==
  ASSUME CallInv, LoggedInv, Bystander, wset' = wset
  PROVE  LoggedInv'
<1>1. call' = call /\ ptr' = ptr  BY DEF Bystander
<1>2. ASSUME NEW q \in Procs
      PROVE  /\ ~InOp(q)' => wset'[q] = {}
             /\ InOp(q)' => \A b \in wset'[q] : Logs(InodeOf(q), call[q], b)'
  <2>1. InOp(q)' <=> InOp(q)  BY <1>1 DEF InOp
  <2>2. CASE ~InOp(q)  BY <2>1, <2>2 DEF LoggedInv
  <2>3. CASE InOp(q)
    <3>1. Busy(q)  BY <2>3 DEF Busy, InOp
    <3>2. PICK g \in Files : g = InodeOf(q) /\ InodeOf(q)' = g /\ inode'[g] = inode[g]
      BY <3>1, BystanderKeeps
    <3>3. \A x : Mapped(InodeOf(q), Bn(x))' = Mapped(g, Bn(x))  BY <1>1, <3>2 DEF Mapped
    <3>4. ASSUME NEW b \in wset[q] PROVE Logs(InodeOf(q), call[q], b)'
      <4>1. Logs(g, call[q], b)  BY <2>3, <3>2 DEF LoggedInv
      <4> QED  BY <1>1, <3>2, <3>3, <4>1 DEF Logs
    <3> QED  BY <2>1, <2>3, <3>4
  <2> QED  BY <2>2, <2>3
<1> QED  BY <1>2 DEF LoggedInv

(* The inductive step; a kernel that has panicked logs nothing more. *)
LEMMA LoggedNext ==
  ASSUME CallInv, SpaceInv, ~panicked => LoggedInv, [Next]_vars
  PROVE  ~panicked' => LoggedInv'
<1>0. SUFFICES ASSUME ~panicked' PROVE LoggedInv'  OBVIOUS
<1>1. CASE UNCHANGED vars
  <2>1. /\ panicked' = panicked /\ call' = call /\ ptr' = ptr /\ inode' = inode /\ file' = file
        /\ wset' = wset
    BY <1>1 DEF vars
  <2>2. Bystander  BY <2>1 DEF Bystander
  <2> QED  BY <1>0, <2>1, <2>2, TableLogged
<1>2. CASE Next
  <2>1. PICK p \in Procs :
          \/ \E f \in Files, mode \in Modes, trunc \in BOOLEAN : SysOpen(p, f, mode, trunc)
          \/ \E fd \in Fds : SysDup(p, fd) \/ SysClose(p, fd)
          \/ \E fd \in Fds, n \in Counts : SysWrite(p, fd, n)
          \/ \E fd \in Fds, n \in Wanted : SysRead(p, fd, n)
          \/ WriteLock(p) \/ MapIndirect(p) \/ WriteBlock(p) \/ WriteEnd(p)
          \/ ReadLock(p) \/ ReadBlock(p) \/ ReadEnd(p)
    BY <1>2 DEF Next
  <2>2. LoggedInv
    <3>1. ~panicked
      BY <2>1 DEF SysOpen, SysDup, SysClose, SysWrite, SysRead, Ready, WriteLock, MapIndirect,
         WriteBlock, WriteEnd, ReadLock, ReadBlock, ReadEnd
    <3> QED  BY <3>1
  <2>3. CASE \/ \E f \in Files, mode \in Modes, trunc \in BOOLEAN : SysOpen(p, f, mode, trunc)
             \/ \E fd \in Fds : SysDup(p, fd) \/ SysClose(p, fd)
    <3>1. wset' = wset  BY <2>3 DEF SysOpen, SysDup, SysClose
    <3>2. Bystander  BY <2>3, SysOpenIs, SysDupCloseIs
    <3> QED  BY <2>2, <3>1, <3>2, TableLogged
  <2> QED
    BY <1>0, <2>1, <2>2, <2>3, CallLogged, MapIndirectLogged, WriteBlockLogged, WriteEndLogged
<1> QED  BY <1>1, <1>2

(* The invariant about logged blocks holds until the kernel panics. *)
LEMMA LoggedCorrect == Spec => [](~panicked => LoggedInv)
<1>1. ASSUME Init PROVE LoggedInv
  <2>1. call = [p \in Procs |-> Idle] /\ wset = [p \in Procs |-> {}]  BY <1>1 DEF Init
  <2>2. \A p \in Procs : ~InOp(p)  BY <2>1, IdleIs DEF InOp
  <2> QED  BY <2>1, <2>2 DEF LoggedInv
<1>2. CallInv /\ SpaceInv /\ (~panicked => LoggedInv) /\ [Next]_vars => (~panicked => LoggedInv)'
  BY LoggedNext
<1> QED  BY <1>1, <1>2, SpaceCorrect, PTL DEF Spec

(* The blocks that a batch covers are at most one more than would hold it. *)
LEMMA BlocksCovered ==
  ASSUME NEW o \in Nat, NEW n \in Nat, NEW x \in o .. o + n * BSIZE - 1
  PROVE  \E i \in 0 .. n : Bn(x) = Bn(o) + i
<1>0. PICK k \in Nat \ {0} : k = BSIZE  BY Sizes
<1>1. n * k \in Nat /\ n * k = k * n  OBVIOUS
<1>2. x \in Nat /\ o <= x /\ x < o + k * n  BY <1>0, <1>1
<1>3. PICK q \in Nat, r \in Nat : q = Bn(o) /\ o = k * q + r /\ r < k
  <2>1. Bn(o) \in Nat /\ Bo(o) \in 0 .. (BSIZE - 1) /\ o = BSIZE * Bn(o) + Bo(o)  BY ChunkIs
  <2>2. Bo(o) \in Nat /\ Bo(o) < k  BY <1>0, <2>1
  <2> QED  BY <1>0, <2>1, <2>2
<1>4. PICK u \in Nat, v \in Nat : u = Bn(x) /\ x = k * u + v /\ v < k
  <2>1. Bn(x) \in Nat /\ Bo(x) \in 0 .. (BSIZE - 1) /\ x = BSIZE * Bn(x) + Bo(x)
    BY <1>2, ChunkIs
  <2>2. Bo(x) \in Nat /\ Bo(x) < k  BY <1>0, <2>1
  <2> QED  BY <1>0, <2>1, <2>2
<1>5. q <= u
  <2>1. SUFFICES ASSUME u + 1 <= q PROVE FALSE  OBVIOUS
  <2>2. k * (u + 1) <= k * q  BY <2>1, Times
  <2>3. k * (u + 1) = k * u + k /\ k * u \in Nat /\ k * q \in Nat  OBVIOUS
  <2> QED  BY <1>2, <1>3, <1>4, <2>2, <2>3
<1>6. u <= q + n
  <2>1. SUFFICES ASSUME q + n + 1 <= u PROVE FALSE  OBVIOUS
  <2>2. q + n + 1 \in Nat  OBVIOUS
  <2>3. k * (q + n + 1) <= k * u  BY <2>1, <2>2, Times
  <2>4. k * (q + n + 1) = k * q + k * n + k /\ k * u \in Nat /\ k * q \in Nat /\ k * n \in Nat
    OBVIOUS
  <2> QED  BY <1>2, <1>3, <1>4, <2>3, <2>4
<1>7. u - q \in 0 .. n /\ u = q + (u - q)  BY <1>5, <1>6
<1> QED  BY <1>3, <1>4, <1>7

(* The bitmap, the inode's block, the indirect block, and one more block   *)
(* than would hold the batch: fwrite's batch leaves room for them.         *)
LEMMA LoggedFits == ASSUME CallInv, LoggedInv PROVE OpFits
<1>0. TypeOK /\ HandleInv /\ CountInv  BY DEF CallInv
<1>1. SUFFICES ASSUME NEW p \in Procs, InOp(p)
               PROVE  Cardinality(wset[p] \cup {InodeBlock}) <= MAXOPBLOCKS - 1
  BY DEF OpFits
<1>2. PICK W : W = wset[p] \cup {InodeBlock}  OBVIOUS
<1>3. PICK n \in Nat : n = (MAXOPBLOCKS - 4) \div 2 /\ n <= MAXOPBLOCKS - 5
  <2>1. PICK m \in Nat : m = MAXOPBLOCKS /\ m >= 6  BY Sizes
  <2>2. (m - 4) \div 2 \in Nat /\ (m - 4) \div 2 <= m - 5  BY <2>1
  <2> QED  BY <2>1, <2>2
<1>4. PICK c \in Call : c = call[p]  BY <1>0 DEF TypeOK
<1>5. PICK g \in Files : g = InodeOf(p)
  <2>1. call[p].at # "idle"  BY <1>1 DEF InOp
  <2> QED  BY <1>0, <2>1, CallOf
<1>6. c.off \in Nat /\ Batch(c) \in Nat /\ Batch(c) <= n * BSIZE
  <2>1. c.i <= c.count  BY <1>0, <1>4 DEF CountInv, Sound
  <2>2. Batch(c) \in Nat /\ Batch(c) <= BATCH  BY <2>1, BatchIs
  <2> QED  BY <1>3, <2>2, CallFields DEF BATCH
<1> DEFINE I == 0 .. n + 3
           Num(j) == IF j = 0 THEN Bitmap ELSE IF j = 1 THEN InodeBlock
                     ELSE IF j = 2 THEN inode[g].addrs[NDIRECT]
                     ELSE Mapped(g, Bn(c.off) + (j - 3))
<1>7. ASSUME NEW b \in W PROVE \E j \in I : Num(j) = b
  <2>0. 0 \in I /\ 1 \in I /\ 2 \in I  OBVIOUS
  <2>1. CASE b = InodeBlock  BY <2>0, <2>1
  <2>2. CASE b = Bitmap  BY <2>0, <2>2
  <2>3. CASE b = inode[g].addrs[NDIRECT]  BY <2>0, <2>3
  <2>4. CASE \E x \in c.off .. c.off + Batch(c) - 1 : b = Mapped(g, Bn(x))
    <3>1. PICK x \in c.off .. c.off + Batch(c) - 1 : b = Mapped(g, Bn(x))  BY <2>4
    <3>2. x \in c.off .. c.off + n * BSIZE - 1
      <4>1. n * BSIZE \in Nat  BY Sizes
      <4> QED  BY <1>6, <4>1
    <3>3. PICK i \in 0 .. n : Bn(x) = Bn(c.off) + i  BY <1>6, <3>2, BlocksCovered
    <3>4. PICK j \in I : j = i + 3 /\ j - 3 = i /\ j # 0 /\ j # 1 /\ j # 2  OBVIOUS
    <3> QED  BY <3>1, <3>3, <3>4
  <2>5. b = InodeBlock \/ Logs(g, c, b)  BY <1>1, <1>2, <1>4, <1>5 DEF LoggedInv
  <2> QED  BY <2>1, <2>2, <2>3, <2>4, <2>5 DEF Logs
<1> DEFINE h == [b \in W |-> CHOOSE j \in I : Num(j) = b]
<1> HIDE DEF I, Num
<1>8. \A b \in W : h[b] \in I /\ Num(h[b]) = b  BY <1>7
<1>9. h \in [W -> I]  BY <1>8
<1>10. \A a, b \in W : h[a] = h[b] => a = b
  <2> HIDE DEF h
  <2> QED  BY <1>8
<1>11. IsFiniteSet(I) /\ Cardinality(I) = n + 4
  <2>1. 0 \in Int /\ n + 3 \in Int /\ ~(0 > n + 3)  OBVIOUS
  <2>2. IsFiniteSet(I) /\ Cardinality(I) = IF 0 > n + 3 THEN 0 ELSE (n + 3) - 0 + 1
    BY <2>1, FS_Interval DEF I
  <2> QED  BY <2>1, <2>2
<1>12. IsFiniteSet(W) /\ Cardinality(W) \in Nat
  <2>1. wset[p] \in SUBSET (0 .. NBLOCK + 1)  BY <1>0 DEF TypeOK
  <2>2. IsFiniteSet(0 .. NBLOCK + 1)
    <3>1. 0 \in Int /\ NBLOCK + 1 \in Int  BY Sizes
    <3> QED  BY <3>1, FS_Interval
  <2>3. IsFiniteSet(wset[p])  BY <2>1, <2>2, FS_Subset
  <2>4. IsFiniteSet(W)  BY <1>2, <2>3, FS_AddElement
  <2> QED  BY <2>4, FS_CardinalityType
<1> HIDE DEF h
<1>13. ~(Cardinality(I) < Cardinality(W))
  <2>1. SUFFICES ASSUME Cardinality(I) < Cardinality(W) PROVE FALSE  OBVIOUS
  <2>2. \E a, b \in W : a # b /\ h[a] = h[b]  BY <1>9, <1>11, <1>12, <2>1, FS_PigeonHole
  <2> QED  BY <1>10, <2>2
<1>14. Cardinality(W) <= MAXOPBLOCKS - 1
  <2>1. MAXOPBLOCKS \in Nat  BY Sizes
  <2> QED  BY <1>3, <1>11, <1>12, <1>13, <2>1
<1> QED  BY <1>2, <1>14

(* An operation of fwrite hands at most MAXOPBLOCKS - 1 blocks to the log, *)
(* whatever the size of a block, of the inode's block list and of the      *)
(* call, and wherever in a block it begins: fwrite's allowance for the     *)
(* bitmap, the inode, the indirect block and the unaligned end is enough.  *)
THEOREM FileOpFits == Spec => []OpFits
<1>1. CallInv /\ (~panicked => LoggedInv) => OpFits  BY LoggedFits DEF OpFits
<1> QED  BY <1>1, CallCorrect, LoggedCorrect, PTL

-----------------------------------------------------------------------------
(***************************************************************************)
(* What the blocks hold.                                                   *)
(***************************************************************************)

(* The byte of a file at a position. *)
Byte(f, x) == data[Mapped(f, Bn(x))][Bo(x)]

(* It is the one that the flat file has there, if that has one. *)
Holds(f, x) == flat[f][x + 1] = Torn \/ Byte(f, x) = flat[f][x + 1]

(* It is the one that write c has for that position. *)
Stored(f, c, x) == Byte(f, x) = <<c.id, c.i + (x - c.off)>>

(* The positions that a batch may have written to: its chunks so far, and  *)
(* the one that copy_in could not complete.                                *)
Tear(c) == IF c.at = "wfail" THEN Chunk(Pos(c, Batch(c)), c.left) ELSE 0
Touched(c) == c.off .. Pos(c, Batch(c)) + Tear(c) - 1

(* What a read has copied out are bytes of the flat file. *)
ReadOk(f, c, r) ==
    /\ Len(r) = c.count - c.left
    /\ \A k \in 1 .. Len(r) : flat[f][c.off + k] \in {r[k], Torn}

(* A file is as long as its flat file, and holds the same bytes but for    *)
(* those that a batch has written to; a batch has written its own bytes    *)
(* there.                                                                  *)
FlatInv ==
    /\ got \in [Procs -> Seq(Bytes)]
    /\ \A f \in Files : inode[f].size = Len(flat[f])
    /\ \A f \in Files : \A x \in 0 .. inode[f].size - 1 :
         \/ Holds(f, x)
         \/ \E p \in Procs : InOp(p) /\ InodeOf(p) = f /\ x \in Touched(call[p])
    /\ \A p \in Procs : InOp(p) =>
         \A x \in call[p].off .. Pos(call[p], Batch(call[p])) - 1 : Stored(InodeOf(p), call[p], x)
    /\ \A p \in Procs : IF call[p].at = "rblock" THEN ReadOk(InodeOf(p), call[p], got[p])
                                                 ELSE got[p] = <<>>

(* Who has a file locked is alone in it. *)
LEMMA LockAlone ==
  ASSUME CallInv, NEW p \in Procs, Busy(p), NEW q \in Procs, Busy(q), InodeOf(q) = InodeOf(p)
  PROVE  q = p
BY DEF CallInv, LockInv

(* The bytes of a file below its size are mapped. *)
LEMMA Inside ==
  ASSUME CallInv, ReachInv, HoleInv, NEW f \in Files, NEW x \in 0 .. inode[f].size - 1
  PROVE  /\ x \in Nat /\ Bn(x) \in Nat /\ Bn(x) < NDIRECT + NINDIRECT /\ Mapped(f, Bn(x)) # 0
<1>1. inode[f] \in Inode  BY DEF CallInv, TypeOK
<1>2. inode[f].size \in Nat /\ inode[f].size <= MAX_FILE_SIZE /\ MAX_FILE_SIZE \in Nat
  BY <1>1, Sizes DEF Inode, ReachInv, MAX_FILE_SIZE
<1>3. x \in Nat /\ x < MAX_FILE_SIZE  BY <1>2
<1> QED  BY <1>3, BnInside DEF HoleInv

(* What a step of process p, whose call becomes c and whose file is g,     *)
(* does to the other files, to its own, to the bytes it has stored, and to *)
(* those it has copied out, r.                                             *)
OthersSame(p, g) ==
    \A f \in Files : ~(Busy(p) /\ f = g) =>
       /\ inode'[f].size = inode[f].size /\ flat'[f] = flat[f]
       /\ \A x \in Nat : Bn(x) < NDIRECT + NINDIRECT /\ Mapped(f, Bn(x)) # 0 =>
             Byte(f, x)' = Byte(f, x)
OwnSettled(p, c, g) ==
    Busy(p) => /\ inode'[g].size = Len(flat'[g])
               /\ \A x \in 0 .. inode'[g].size - 1 :
                     Holds(g, x)' \/ (c.at \in {"wblock", "wfail"} /\ x \in Touched(c))
OwnStored(c, g) ==
    c.at \in {"wblock", "wfail"} => \A x \in c.off .. Pos(c, Batch(c)) - 1 : Stored(g, c, x)'
OwnGot(p, c, g, r) ==
    /\ got' = [got EXCEPT ![p] = r]
    /\ IF c.at = "rblock" THEN ReadOk(g, c, r)' ELSE r = <<>>

(* What a step of a call has to show. *)
LEMMA FlatStep ==
  ASSUME CallInv, ReachInv, HoleInv, FlatInv, NEW p \in Procs, NEW c \in Call,
         call' = [call EXCEPT ![p] = c],
         Aside(p, c) \/ Within(p, c) \/ Takes(p, c) \/ Gives(p, c),
         NEW g, g = InodeOf(p), NEW r \in Seq(Bytes),
         OthersSame(p, g), OwnSettled(p, c, g), OwnStored(c, g), OwnGot(p, c, g, r)
  PROVE  FlatInv'
<1>0. TypeOK /\ HandleInv /\ CountInv  BY DEF CallInv
<1>1. call'[p] = c /\ \A q \in Procs \ {p} : call'[q] = call[q]  BY <1>0, CallSet
<1>2. /\ got' \in [Procs -> Seq(Bytes)] /\ got'[p] = r
      /\ \A q \in Procs \ {p} : got'[q] = got[q]
  <2>1. got \in [Procs -> Seq(Bytes)]  BY DEF FlatInv
  <2> QED  BY <2>1 DEF OwnGot
<1>3. c.at \in {"wblock", "wfail", "rblock"} => InodeOf(p)' = g
  <2>1. ASSUME c.at \in {"wblock", "wfail", "rblock"}
        PROVE  c.at # "idle" /\ c.o = call[p].o /\ call[p].at # "idle"
    BY <2>1 DEF Aside, Within, Takes, Gives, Busy
  <2> QED  BY <1>0, <2>1, OthersKept
<1>4. ASSUME NEW q \in Procs \ {p}, Busy(q)
      PROVE  \E f \in Files : f = InodeOf(q) /\ InodeOf(q)' = f /\ ~(Busy(p) /\ f = g)
  <2>1. call[q].at # "idle"  BY <1>4 DEF Busy
  <2>2. InodeOf(q) \in Files /\ InodeOf(q)' = InodeOf(q)  BY <1>0, <2>1, CallOf, OthersKept
  <2>3. ~(Busy(p) /\ InodeOf(q) = g)  BY <1>4, LockAlone
  <2> QED  BY <2>2, <2>3
<1>5. ASSUME NEW f \in Files PROVE inode'[f].size = Len(flat'[f])
  BY DEF FlatInv, OthersSame, OwnSettled
<1>6. ASSUME NEW f \in Files, NEW x \in 0 .. inode'[f].size - 1
      PROVE  Holds(f, x)' \/ \E q \in Procs : InOp(q)' /\ InodeOf(q)' = f /\ x \in Touched(call'[q])
  <2>1. CASE ~(Busy(p) /\ f = g)
    <3>1. x \in 0 .. inode[f].size - 1  BY <1>6, <2>1 DEF OthersSame
    <3>2. x \in Nat /\ Bn(x) < NDIRECT + NINDIRECT /\ Mapped(f, Bn(x)) # 0  BY <3>1, Inside
    <3>3. Byte(f, x)' = Byte(f, x) /\ flat'[f] = flat[f]  BY <2>1, <3>2 DEF OthersSame
    <3>4. CASE Holds(f, x)  BY <3>3, <3>4 DEF Holds
    <3>5. CASE \E q \in Procs : InOp(q) /\ InodeOf(q) = f /\ x \in Touched(call[q])
      <4>1. PICK q \in Procs : InOp(q) /\ InodeOf(q) = f /\ x \in Touched(call[q])  BY <3>5
      <4>2. Busy(q)  BY <4>1 DEF InOp, Busy
      <4>3. q # p  BY <2>1, <4>1, <4>2
      <4>4. call'[q] = call[q] /\ InodeOf(q)' = f  BY <1>1, <1>4, <4>1, <4>2, <4>3
      <4>5. InOp(q)'  BY <4>1, <4>4 DEF InOp
      <4> QED  BY <4>1, <4>4, <4>5
    <3> QED  BY <3>1, <3>4, <3>5 DEF FlatInv
  <2>2. CASE Busy(p) /\ f = g
    <3>1. CASE Holds(g, x)'  BY <2>2, <3>1
    <3>2. CASE c.at \in {"wblock", "wfail"} /\ x \in Touched(c)
      <4>1. InOp(p)'  BY <1>1, <3>2 DEF InOp
      <4>2. InodeOf(p)' = f /\ x \in Touched(call'[p])  BY <1>1, <1>3, <2>2, <3>2
      <4> QED  BY <4>1, <4>2
    <3> QED  BY <1>6, <2>2, <3>1, <3>2 DEF OwnSettled
  <2> QED  BY <2>1, <2>2
<1>7. ASSUME NEW q \in Procs, InOp(q)',
             NEW x \in call'[q].off .. Pos(call'[q], Batch(call'[q])) - 1
      PROVE  Stored(InodeOf(q), call[q], x)'
  <2>1. CASE q = p
    <3>1. c.at \in {"wblock", "wfail"} /\ call'[q] = c  BY <1>1, <1>7, <2>1 DEF InOp
    <3>2. Stored(g, c, x)'  BY <1>7, <3>1 DEF OwnStored
    <3>3. Byte(InodeOf(q), x)' = Byte(g, x)'
      <4>1. InodeOf(q)' = g  BY <1>3, <2>1, <3>1
      <4> QED  BY <4>1 DEF Byte, Mapped
    <3> QED  BY <3>1, <3>2, <3>3 DEF Stored
  <2>2. CASE q # p
    <3>1. call'[q] = call[q]  BY <1>1, <2>2
    <3>2. InOp(q) /\ Busy(q)  BY <1>7, <3>1 DEF InOp, Busy
    <3>3. PICK f \in Files : f = InodeOf(q) /\ InodeOf(q)' = f /\ ~(Busy(p) /\ f = g)
      BY <1>4, <2>2, <3>2
    <3>4. x \in call[q].off .. Pos(call[q], Batch(call[q])) - 1  BY <1>7, <3>1
    <3>5. Stored(InodeOf(q), call[q], x)  BY <3>2, <3>4 DEF FlatInv
    <3>6. x \in 0 .. Pos(call[q], Batch(call[q])) - 1
      <4>1. call[q].off \in Nat  BY <1>0, CallFields DEF TypeOK
      <4>2. Pos(call[q], Batch(call[q])) \in Nat  BY <1>0, <3>2, PosIs
      <4> QED  BY <3>4, <4>1, <4>2
    <3>7. Bn(x) < NDIRECT + NINDIRECT  BY <1>0, <3>2, <3>6, DoneInside
    <3>8. Mapped(f, Bn(x)) # 0  BY <3>2, <3>3, <3>6 DEF HoleInv
    <3>9. x \in Nat
      <4>1. Pos(call[q], Batch(call[q])) \in Nat  BY <1>0, <3>2, PosIs
      <4> QED  BY <3>6, <4>1
    <3>10. Byte(f, x)' = Byte(f, x)  BY <3>3, <3>7, <3>8, <3>9 DEF OthersSame
    <3>11. Byte(InodeOf(q), x)' = Byte(f, x)' /\ Byte(InodeOf(q), x) = Byte(f, x)
      BY <3>3 DEF Byte, Mapped
    <3> QED  BY <3>1, <3>5, <3>10, <3>11 DEF Stored
  <2> QED  BY <2>1, <2>2
<1>8. ASSUME NEW q \in Procs
      PROVE  IF call'[q].at = "rblock" THEN ReadOk(InodeOf(q), call[q], got[q])'
                                       ELSE got'[q] = <<>>
  <2>1. CASE q = p
    <3>1. CASE c.at = "rblock"
      <4>1. InodeOf(q)' = g /\ call'[q] = c /\ got'[q] = r  BY <1>1, <1>2, <1>3, <2>1, <3>1
      <4>2. ReadOk(g, c, r)'  BY <3>1 DEF OwnGot
      <4> QED  BY <3>1, <4>1, <4>2 DEF ReadOk
    <3>2. CASE c.at # "rblock"  BY <1>1, <1>2, <2>1, <3>2 DEF OwnGot
    <3> QED  BY <3>1, <3>2
  <2>2. CASE q # p
    <3>1. call'[q] = call[q] /\ got'[q] = got[q]  BY <1>1, <1>2, <2>2
    <3>2. CASE call[q].at = "rblock"
      <4>1. Busy(q)  BY <3>2 DEF Busy
      <4>2. PICK f \in Files : f = InodeOf(q) /\ InodeOf(q)' = f /\ ~(Busy(p) /\ f = g)
        BY <1>4, <2>2, <4>1
      <4>3. flat'[f] = flat[f]  BY <4>2 DEF OthersSame
      <4>4. ReadOk(InodeOf(q), call[q], got[q])  BY <3>2 DEF FlatInv
      <4> QED  BY <3>1, <3>2, <4>2, <4>3, <4>4 DEF ReadOk
    <3>3. CASE call[q].at # "rblock"  BY <3>1, <3>3 DEF FlatInv
    <3> QED  BY <3>2, <3>3
  <2> QED  BY <2>1, <2>2
<1> QED  BY <1>2, <1>5, <1>6, <1>7, <1>8 DEF FlatInv

(* Blocks and files stay as they are. *)
Stays == inode' = inode /\ ptr' = ptr /\ data' = data /\ flat' = flat

(* A step that leaves blocks and files alone, of a process that is not     *)
(* writing.                                                                *)
LEMMA QuietFlat ==
  ASSUME CallInv, ReachInv, HoleInv, FlatInv, NEW p \in Procs, ~InOp(p), NEW c \in Call,
         call' = [call EXCEPT ![p] = c],
         Aside(p, c) \/ Within(p, c) \/ Takes(p, c) \/ Gives(p, c),
         Stays,
         NEW g, g = InodeOf(p), NEW r \in Seq(Bytes), got' = [got EXCEPT ![p] = r],
         c.at \in {"wblock", "wfail"} => Pos(c, Batch(c)) = c.off,
         c.at = "rblock" => ReadOk(g, c, r), c.at # "rblock" => r = <<>>
  PROVE  FlatInv'
<1>1. \A f, x : Byte(f, x)' = Byte(f, x)  BY DEF Byte, Mapped, Stays
<1>2. OthersSame(p, g)  BY <1>1 DEF Stays, OthersSame
<1>3. OwnSettled(p, c, g)
  <2>1. SUFFICES ASSUME Busy(p)
                 PROVE  /\ inode[g].size = Len(flat[g])
                        /\ \A x \in 0 .. inode[g].size - 1 : Holds(g, x)'
    BY DEF Stays, OwnSettled
  <2>2. g \in Files
    <3>1. call[p].at # "idle"  BY <2>1 DEF Busy
    <3> QED  BY <3>1, CallOf DEF CallInv
  <2>3. ASSUME NEW x \in 0 .. inode[g].size - 1 PROVE Holds(g, x)'
    <3>1. ~\E q \in Procs : InOp(q) /\ InodeOf(q) = g /\ x \in Touched(call[q])
      <4>1. ASSUME NEW q \in Procs, InOp(q), InodeOf(q) = g PROVE FALSE
        <5>1. Busy(q)  BY <4>1 DEF InOp, Busy
        <5>2. q = p  BY <2>1, <4>1, <5>1, LockAlone
        <5> QED  BY <4>1, <5>2
      <4> QED  BY <4>1
    <3>2. Holds(g, x)  BY <2>2, <3>1 DEF FlatInv
    <3> QED  BY <1>1, <3>2 DEF Holds, Stays
  <2> QED  BY <2>2, <2>3 DEF FlatInv
<1>4. OwnStored(c, g)
  <2>1. c.off \in Nat  BY CallFields
  <2> QED  BY <2>1 DEF OwnStored
<1>5. OwnGot(p, c, g, r)  BY DEF ReadOk, Stays, OwnGot
<1> QED  BY <1>2, <1>3, <1>4, <1>5, FlatStep

(* Outside of a read nothing has been copied out. *)
LEMMA NoneGot ==
  ASSUME FlatInv, NEW p \in Procs, call[p].at # "rblock"
  PROVE  got = [got EXCEPT ![p] = <<>>]
<1>1. got[p] = <<>>  BY DEF FlatInv
<1>2. got = [q \in Procs |-> got[q]]  BY DEF FlatInv
<1> QED  BY <1>1, <1>2

(* The beginning and the end of calls. *)
LEMMA CallFlat ==
  ASSUME CallInv, ReachInv, HoleInv, FlatInv, NEW p \in Procs,
         \/ \E fd \in Fds : \E n \in Counts : SysWrite(p, fd, n)
         \/ \E fd \in Fds : \E n \in Wanted : SysRead(p, fd, n)
         \/ WriteLock(p) \/ ReadLock(p) \/ ReadEnd(p)
  PROVE  FlatInv'
<1>0. TypeOK /\ HandleInv /\ CountInv  BY DEF CallInv
<1>1. Stays /\ ~InOp(p)
  BY DEF Stays, SysWrite, SysRead, Ready, WriteLock, ReadLock, ReadEnd, InOp
<1>2. PICK r \in Seq(Bytes) : r = <<>> /\ Len(r) = 0
  <2>1. <<>> \in Seq(Bytes)  OBVIOUS
  <2>2. Len(<<>>) = 0  OBVIOUS
  <2> QED  BY <2>1, <2>2, Zenon
<1>3. got' = [got EXCEPT ![p] = r]
  <2>1. CASE ReadEnd(p)  BY <1>2, <2>1 DEF ReadEnd
  <2>2. CASE ~ReadEnd(p)
    <3>1. got' = got /\ call[p].at # "rblock"
      BY <2>2 DEF SysWrite, SysRead, Ready, WriteLock, ReadLock
    <3> QED  BY <1>2, <3>1, NoneGot
  <2> QED  BY <2>1, <2>2
<1>4. PICK g : g = InodeOf(p)  OBVIOUS
<1>5. CASE \/ \E fd \in Fds : \E n \in Counts : SysWrite(p, fd, n)
           \/ \E fd \in Fds : \E n \in Wanted : SysRead(p, fd, n)
  <2>1. PICK c \in Call : call' = [call EXCEPT ![p] = c] /\ c.at \in {"write", "read"}
    BY <1>0, <1>5, SysWriteIs, SysReadIs
  <2>2. Aside(p, c)  BY <1>5, <2>1 DEF Aside, Busy, SysWrite, SysRead, Ready
  <2> QED  BY <1>1, <1>2, <1>3, <1>4, <2>1, <2>2, QuietFlat
<1>6. CASE WriteLock(p)
  <2>1. call[p].at = "write" /\ file' = file  BY <1>6 DEF WriteLock
  <2>2. PICK c \in Call :
              /\ call' = [call EXCEPT ![p] = c]
              /\ \/ /\ c = Idle /\ owner' = owner
                 \/ /\ c.at = "wblock" /\ c.o = call[p].o /\ c.off = file[call[p].o].off
                    /\ c.count = call[p].count /\ c.i = call[p].i /\ c.left = Batch(call[p])
                    /\ owner[InodeOf(p)] = None
                    /\ owner' = [owner EXCEPT ![InodeOf(p)] = p]
    BY <1>0, <1>6, WriteLockIs
  <2>3. Aside(p, c) \/ Takes(p, c)  BY <2>1, <2>2, IdleIs DEF Aside, Takes, Busy
  <2>4. call' = [call EXCEPT ![p] = c] /\ c.at # "rblock"  BY <2>2, IdleIs
  <2>5. c.at \in {"wblock", "wfail"} => Pos(c, Batch(c)) = c.off
    <3>1. SUFFICES ASSUME c.at \in {"wblock", "wfail"} PROVE Pos(c, Batch(c)) = c.off  OBVIOUS
    <3>2. Batch(c) = c.left  BY <2>2, <3>1, IdleIs DEF Batch
    <3>3. c.left \in Nat /\ c.off \in Nat  BY CallFields
    <3> QED  BY <3>2, <3>3 DEF Pos
  <2> QED  BY <1>1, <1>2, <1>3, <1>4, <2>3, <2>4, <2>5, QuietFlat
<1>7. CASE ReadLock(p)
  <2>1. call[p].at = "read" /\ file' = file  BY <1>7 DEF ReadLock
  <2>2. PICK c \in Call :
              /\ call' = [call EXCEPT ![p] = c] /\ c.left = c.count
              /\ c.at = "rblock" /\ c.o = call[p].o /\ c.off = file[call[p].o].off
    BY <1>0, <1>7, ReadLockIs
  <2>3. owner[InodeOf(p)] = None /\ owner' = [owner EXCEPT ![InodeOf(p)] = p]
    BY <1>0, <1>7, ReadLockIs
  <2>4. Takes(p, c)  BY <2>1, <2>2, <2>3 DEF Takes, Busy
  <2>5. call' = [call EXCEPT ![p] = c] /\ c.at = "rblock"  BY <2>2
  <2>6. ReadOk(g, c, r)
    <3>1. c.count \in Nat  BY CallFields
    <3> QED  BY <1>2, <2>2, <3>1 DEF ReadOk
  <2> QED  BY <1>1, <1>3, <1>4, <2>4, <2>5, <2>6, QuietFlat
<1>8. CASE ReadEnd(p)
  <2>1. /\ call[p].at = "rblock" /\ owner' = [owner EXCEPT ![InodeOf(p)] = None]
        /\ call' = [call EXCEPT ![p] = Idle]
        /\ file' = [file EXCEPT ![call[p].o].off = @ + call[p].count] \/ file' = file
    BY <1>0, <1>8, ReadEndIs
  <2>2. call[p].count \in Nat  BY <1>0, CallFields DEF TypeOK
  <2>3. Gives(p, Idle)
    <3>1. Busy(p)  BY <2>1 DEF Busy
    <3> QED  BY <2>1, <2>2, <3>1, IdleIs DEF Gives
  <2>4. call' = [call EXCEPT ![p] = Idle] /\ Idle \in Call /\ Idle.at = "idle"  BY <2>1, IdleIs
  <2> QED  BY <1>1, <1>2, <1>3, <1>4, <2>3, <2>4, QuietFlat
<1> QED  BY <1>5, <1>6, <1>7, <1>8

(* Positions of one block differ as their offsets in the block do. *)
LEMMA SameBlockOff ==
  ASSUME NEW x \in Nat, NEW y \in Nat, Bn(y) = Bn(x)
  PROVE  /\ Bo(x) \in 0 .. BSIZE - 1 /\ Bo(y) \in 0 .. BSIZE - 1 /\ Bo(x) \in Nat /\ Bo(y) \in Nat
         /\ y + Bo(x) = x + Bo(y)
<1>1. /\ Bn(x) \in Nat /\ Bo(x) \in 0 .. (BSIZE - 1) /\ x = BSIZE * Bn(x) + Bo(x)
      /\ Bn(y) \in Nat /\ Bo(y) \in 0 .. (BSIZE - 1) /\ y = BSIZE * Bn(y) + Bo(y)
  BY ChunkIs
<1>2. Bo(x) \in Nat /\ Bo(y) \in Nat /\ BSIZE \in Nat  BY <1>1, Sizes
<1>3. PICK k \in Nat : k = BSIZE * Bn(x)
  <2>1. \A a, b \in Nat : a * b \in Nat  OBVIOUS
  <2> QED  BY <1>1, <1>2, <2>1
<1>4. x = k + Bo(x) /\ y = k + Bo(y)  BY <1>1, <1>3
<1>5. y + Bo(x) = x + Bo(y)  BY <1>2, <1>3, <1>4
<1> QED  BY <1>1, <1>2, <1>5

(* A turn of iread's loop copies out bytes of the flat file. *)
LEMMA ReadBlockFlat ==
  ASSUME CallInv, ReachInv, HoleInv, FlatInv, NEW p \in Procs, ReadBlock(p)
  PROVE  FlatInv'
<1>0. TypeOK /\ HandleInv /\ CountInv  BY DEF CallInv
<1> DEFINE x0 == Pos(call[p], call[p].count)
           n0 == Chunk(x0, call[p].left)
           b0 == Mapped(InodeOf(p), Bn(x0))
           new0 == [k \in 1 .. n0 |-> IF b0 = 0 THEN Zero ELSE data[b0][Bo(x0) + k - 1]]
<1>1. /\ call[p].at = "rblock" /\ call[p].left > 0 /\ file' = file /\ owner' = owner
      /\ inode' = inode /\ ptr' = ptr /\ data' = data /\ flat' = flat
      /\ got' = [got EXCEPT ![p] = @ \o new0]
  BY DEF ReadBlock
<1>2. PICK c \in Call :
         /\ call' = [call EXCEPT ![p] = c]
         /\ c.at = "rblock" /\ c.o = call[p].o /\ c.off = call[p].off /\ c.count = call[p].count
         /\ c.left = call[p].left - n0
  BY <1>0, ReadBlockIs
<1>3. Within(p, c) /\ ~InOp(p) /\ Busy(p)  BY <1>1, <1>2 DEF Within, Busy, InOp
<1>4. PICK g \in Files : g = InodeOf(p)  BY <1>0, <1>1, CallOf
<1>5. PICK o \in Nat, m \in Nat, l \in Nat : o = call[p].off /\ m = call[p].count /\ l = call[p].left
  BY <1>0, CallFields DEF TypeOK
<1>6. l > 0 /\ l <= m /\ o + m <= inode[g].size
  BY <1>0, <1>1, <1>4, <1>5 DEF CountInv, Sound, ReachInv
<1>7. PICK x \in Nat : x = x0 /\ x = o + (m - l)  BY <1>5, <1>6 DEF Pos
<1>8. PICK n \in Nat : n = n0 /\ n <= l /\ Bo(x) + n <= BSIZE  BY <1>5, <1>7, ChunkIs
<1>9. inode[g].size \in Nat
  <2>1. inode[g] \in Inode  BY <1>0 DEF TypeOK
  <2> QED  BY <2>1 DEF Inode
<1>10. \A y \in 0 .. inode[g].size - 1 : Holds(g, y)
  <2>1. ASSUME NEW y \in 0 .. inode[g].size - 1, NEW q \in Procs, InOp(q), InodeOf(q) = g PROVE FALSE
    <3>1. Busy(q)  BY <2>1 DEF InOp, Busy
    <3>2. q = p  BY <1>3, <1>4, <2>1, <3>1, LockAlone
    <3> QED  BY <1>3, <2>1, <3>2
  <2> QED  BY <2>1 DEF FlatInv
<1>11. PICK b : b = Mapped(g, Bn(x))  OBVIOUS
<1> DEFINE new == [k \in 1 .. n |-> IF b = 0 THEN Zero ELSE data[b][Bo(x) + k - 1]]
<1>12. new0 = new  BY <1>4, <1>7, <1>8, <1>11
<1> HIDE DEF x0, n0, b0, new0
<1>13. x \in 0 .. inode[g].size - 1  BY <1>6, <1>7, <1>9
<1>14. b # 0 /\ b \in Blocknos
  <2>1. Mapped(g, Bn(x)) # 0 /\ Bn(x) \in Nat /\ Bn(x) < NDIRECT + NINDIRECT  BY <1>13, Inside
  <2>2. PICK s \in Places(g) : Mapped(g, Bn(x)) = At(g, s)  BY <2>1, MappedAt
  <2> QED  BY <1>0, <1>11, <2>1, <2>2, AtType DEF Blocknos
<1>15. ASSUME NEW k \in 1 .. n
       PROVE  /\ new[k] \in Bytes
              /\ flat[g][o + (m - l) + k] \in {new[k], Torn}
  <2>1. PICK y \in Nat : y = x + (k - 1)  BY <1>7
  <2>2. y \in x .. x + n - 1 /\ y \in 0 .. inode[g].size - 1  BY <1>6, <1>7, <1>8, <1>9, <2>1
  <2>3. Bn(y) = Bn(x)  BY <1>8, <2>2, SameBlock
  <2>4. Bo(x) \in Nat /\ Bo(y) \in Nat /\ y + Bo(x) = x + Bo(y) /\ Bo(y) \in 0 .. BSIZE - 1
    BY <2>3, SameBlockOff
  <2>5. Bo(y) = Bo(x) + k - 1  BY <2>1, <2>4
  <2>6. new[k] = data[b][Bo(y)]  BY <1>14, <2>5
  <2>7. new[k] \in Bytes
    <3>1. data[b] \in [0 .. BSIZE - 1 -> Bytes]  BY <1>0, <1>14 DEF TypeOK
    <3> QED  BY <2>4, <2>6, <3>1
  <2>8. new[k] = Byte(g, y)  BY <1>11, <2>3, <2>6 DEF Byte
  <2>9. Holds(g, y)  BY <1>10, <2>2
  <2>10. y + 1 = o + (m - l) + k  BY <1>6, <1>7, <2>1
  <2> QED  BY <2>7, <2>8, <2>9, <2>10 DEF Holds
<1>16. new \in Seq(Bytes) /\ Len(new) = n
  <2>1. \A k \in 1 .. n : new[k] \in Bytes  BY <1>15
  <2>2. new = [k \in 1 .. n |-> new[k]]  OBVIOUS
  <2> HIDE DEF new
  <2> QED  BY <2>1, <2>2
<1>17. PICK r \in Seq(Bytes) : r = got[p] /\ Len(r) = m - l
                               /\ \A k \in 1 .. Len(r) : flat[g][o + k] \in {r[k], Torn}
  <2>1. got[p] \in Seq(Bytes)  BY DEF FlatInv
  <2>2. ReadOk(InodeOf(p), call[p], got[p])  BY <1>1 DEF FlatInv
  <2> QED  BY <1>4, <1>5, <2>1, <2>2 DEF ReadOk
<1> HIDE DEF new
<1>18. PICK t \in Seq(Bytes) : t = r \o new
  <2>1. r \o new \in Seq(Bytes)  BY <1>16
  <2> QED  BY <2>1, Zenon
<1>19. Len(t) = m - l + n  BY <1>16, <1>17, <1>18
<1>20. ASSUME NEW k \in 1 .. Len(t) PROVE flat[g][o + k] \in {t[k], Torn}
  <2>1. CASE k <= m - l
    <3>1. k \in 1 .. Len(r)  BY <1>6, <1>17, <1>19, <2>1
    <3>2. t[k] = r[k]  BY <1>16, <1>18, <3>1
    <3> QED  BY <1>17, <3>1, <3>2
  <2>2. CASE ~(k <= m - l)
    <3>1. PICK j \in 1 .. n : j = k - (m - l)  BY <1>6, <1>19, <2>2
    <3>2. t[k] = new[j]
      <4>1. k = Len(r) + j  BY <1>6, <1>17, <1>19, <3>1
      <4>2. j \in 1 .. Len(new)  BY <1>16
      <4> QED  BY <1>16, <1>18, <4>1, <4>2
    <3>3. o + (m - l) + j = o + k  BY <1>6, <1>19, <3>1
    <3> QED  BY <1>15, <3>2, <3>3
  <2> QED  BY <2>1, <2>2
<1>21. ReadOk(g, c, t)
  <2>1. c.count - c.left = m - l + n  BY <1>2, <1>5, <1>6, <1>8
  <2>2. c.off = o  BY <1>2, <1>5
  <2> QED  BY <1>19, <1>20, <2>1, <2>2 DEF ReadOk
<1>22. got' = [got EXCEPT ![p] = t]  BY <1>1, <1>12, <1>17, <1>18
<1>23. Stays  BY <1>1 DEF Stays
<1>24. call' = [call EXCEPT ![p] = c] /\ c.at = "rblock"  BY <1>2
<1> QED  BY <1>3, <1>4, <1>21, <1>22, <1>23, <1>24, QuietFlat

(* A byte stays where its block and the block's contents stay. *)
LEMMA KeptByte ==
  ASSUME Kept, NEW f \in Files, NEW x \in Nat, Bn(x) < NDIRECT + NINDIRECT, Mapped(f, Bn(x)) # 0,
         data'[Mapped(f, Bn(x))][Bo(x)] = data[Mapped(f, Bn(x))][Bo(x)]
  PROVE  Byte(f, x)' = Byte(f, x)
<1>1. Bn(x) \in Nat  BY ChunkIs
<1>2. Mapped(f, Bn(x))' = Mapped(f, Bn(x))  BY <1>1, KeptMaps
<1>3. Byte(f, x)' = data'[Mapped(f, Bn(x))'][Bo(x)]  BY DEF Byte, Bo
<1> QED  BY <1>2, <1>3 DEF Byte

(* What a batch in progress knows of its file. *)
LEMMA OwnFile ==
  ASSUME CallInv, ReachInv, HoleInv, FlatInv, NEW p \in Procs, InOp(p), NEW g \in Files,
         g = InodeOf(p), NEW c \in Call, c = call[p]
  PROVE  /\ \A x \in 0 .. inode[g].size - 1 : Holds(g, x) \/ x \in Touched(c)
         /\ \A x \in c.off .. Pos(c, Batch(c)) - 1 :
              /\ x \in Nat /\ Bn(x) < NDIRECT + NINDIRECT /\ Mapped(g, Bn(x)) # 0
              /\ Stored(g, c, x)
         /\ inode[g].size = Len(flat[g])
<1>0. TypeOK /\ CountInv  BY DEF CallInv
<1>1. ASSUME NEW x \in 0 .. inode[g].size - 1 PROVE Holds(g, x) \/ x \in Touched(c)
  <2>1. ASSUME NEW q \in Procs, InOp(q), InodeOf(q) = g, x \in Touched(call[q])
        PROVE  x \in Touched(c)
    <3>1. Busy(q) /\ Busy(p)  BY <2>1 DEF InOp, Busy
    <3>2. q = p  BY <2>1, <3>1, LockAlone
    <3> QED  BY <2>1, <3>2
  <2> QED  BY <2>1 DEF FlatInv
<1>2. ASSUME NEW x \in c.off .. Pos(c, Batch(c)) - 1
      PROVE  /\ x \in Nat /\ Bn(x) < NDIRECT + NINDIRECT /\ Mapped(g, Bn(x)) # 0
             /\ Stored(g, c, x)
  <2>1. c.off \in Nat /\ Pos(c, Batch(c)) \in Nat  BY <1>0, CallFields, PosIs
  <2>2. x \in 0 .. Pos(c, Batch(c)) - 1 /\ x \in Nat  BY <2>1
  <2>3. Bn(x) < NDIRECT + NINDIRECT  BY <1>0, <2>2, DoneInside
  <2>4. Mapped(g, Bn(x)) # 0  BY <2>2 DEF HoleInv
  <2>5. Stored(g, c, x)  BY <1>2 DEF FlatInv
  <2> QED  BY <2>2, <2>3, <2>4, <2>5
<1> QED  BY <1>1, <1>2 DEF FlatInv

(* The new indirect block holds no bytes of a file. *)
LEMMA MapIndirectFlat ==
  ASSUME CallInv, SpaceInv, FlatInv, NEW p \in Procs, MapIndirect(p), ~panicked'
  PROVE  FlatInv'
<1>0. TypeOK /\ HandleInv /\ CountInv  BY DEF CallInv
<1>1. /\ ~panicked /\ call[p].at = "wblock" /\ panicked' = Full
      /\ inode[InodeOf(p)].addrs[NDIRECT] = 0
      /\ used' = used \cup {BmAlloc} /\ ListClear(BmAlloc) /\ AddrTo(InodeOf(p), NDIRECT, BmAlloc)
      /\ owner' = owner /\ file' = file /\ call' = call
      /\ data' = data /\ flat' = flat /\ got' = got
  BY DEF MapIndirect, ListClear, AddrTo
<1>2. ReachInv /\ HoleInv /\ OwnInv /\ ~Full  BY <1>1 DEF SpaceInv
<1>3. PICK g \in Files : g = InodeOf(p)  BY <1>0, <1>1, CallOf
<1>4. PICK b \in Blocknos : b = BmAlloc /\ b \notin used
  BY <1>0, <1>2, BmAllocIs DEF TypeOK
<1>5. AddrTo(g, NDIRECT, b) /\ ListClear(b) /\ inode[g].addrs[NDIRECT] = 0  BY <1>1, <1>3, <1>4
<1>6. Kept
  <2>1. PICK s \in Places(g) : Assigned(g, s, b)
    BY <1>0, <1>2, <1>4, <1>5, IndirectAssigned
  <2> QED  BY <2>1, AssignedKept
<1>7. \A f \in Files : inode'[f].size = inode[f].size
  <2>1. inode \in [Files -> Inode] /\ NDIRECT \in 0 .. NDIRECT  BY <1>0, Sizes DEF TypeOK
  <2> QED  BY <1>5, <2>1, AddrSet
<1>8. PICK c \in Call : c = call[p] /\ call' = [call EXCEPT ![p] = c]
  BY <1>0, <1>1, CallSame DEF TypeOK
<1>9. InOp(p) /\ Within(p, c) /\ c.at = "wblock"  BY <1>1, <1>8 DEF InOp, Within, Busy
<1>10. \A f \in Files : \A x \in Nat : Bn(x) < NDIRECT + NINDIRECT /\ Mapped(f, Bn(x)) # 0 =>
          Byte(f, x)' = Byte(f, x)
  BY <1>1, <1>6, KeptByte
<1>11. OthersSame(p, g)  BY <1>1, <1>7, <1>10 DEF OthersSame
<1>12. /\ \A x \in 0 .. inode[g].size - 1 : Holds(g, x) \/ x \in Touched(c)
       /\ \A x \in c.off .. Pos(c, Batch(c)) - 1 :
            /\ x \in Nat /\ Bn(x) < NDIRECT + NINDIRECT /\ Mapped(g, Bn(x)) # 0
            /\ Stored(g, c, x)
       /\ inode[g].size = Len(flat[g])
  BY <1>2, <1>3, <1>8, <1>9, OwnFile
<1>13. OwnSettled(p, c, g)
  <2>1. ASSUME NEW x \in 0 .. inode[g].size - 1, Holds(g, x) PROVE Holds(g, x)'
    <3>1. x \in Nat /\ Bn(x) < NDIRECT + NINDIRECT /\ Mapped(g, Bn(x)) # 0
      BY <1>2, <2>1, Inside
    <3>2. Byte(g, x)' = Byte(g, x)  BY <1>10, <3>1
    <3> QED  BY <1>1, <2>1, <3>2 DEF Holds
  <2>2. inode'[g].size = inode[g].size /\ flat'[g] = flat[g]  BY <1>1, <1>7
  <2> QED  BY <1>9, <1>12, <2>1, <2>2 DEF OwnSettled
<1>14. OwnStored(c, g)
  <2>1. ASSUME NEW x \in c.off .. Pos(c, Batch(c)) - 1 PROVE Stored(g, c, x)'
    <3>1. Byte(g, x)' = Byte(g, x) /\ Stored(g, c, x)  BY <1>10, <1>12
    <3> QED  BY <3>1 DEF Stored
  <2> QED  BY <2>1 DEF OwnStored
<1>15. PICK r \in Seq(Bytes) : OwnGot(p, c, g, r)
  <2>1. got[p] = <<>> /\ <<>> \in Seq(Bytes)  BY <1>1 DEF FlatInv
  <2>2. got' = [got EXCEPT ![p] = <<>>]  BY <1>1, NoneGot
  <2> QED  BY <1>9, <2>1, <2>2 DEF OwnGot
<1>16. call' = [call EXCEPT ![p] = c]  BY <1>8
<1> QED  BY <1>2, <1>3, <1>9, <1>11, <1>13, <1>14, <1>15, <1>16, FlatStep

(* What a block holds after a copy. *)
LEMMA FilledAt ==
  ASSUME NEW old, NEW bo, NEW n, NEW id, NEW j, NEW z \in 0 .. BSIZE - 1
  PROVE  /\ z \in bo .. bo + n - 1 => Filled(old, bo, n, id, j)[z] = <<id, j + z - bo>>
         /\ z \notin bo .. bo + n - 1 => Filled(old, bo, n, id, j)[z] = old[z]
BY DEF Filled

(* Two positions whose bytes are in one block. *)
LEMMA OneBlock ==
  ASSUME OwnInv, NEW f \in Files, NEW g \in Files, NEW m \in Nat, NEW n \in Nat,
         m < NDIRECT + NINDIRECT, n < NDIRECT + NINDIRECT,
         Mapped(f, m) # 0, Mapped(f, m) = Mapped(g, n)
  PROVE  f = g /\ m = n
<1>0. NDIRECT \in Nat /\ NINDIRECT \in Nat  BY Sizes
<1>1. ASSUME NEW h \in Files, NEW k \in Nat, k < NDIRECT + NINDIRECT
      PROVE  \E s \in Places(h) : /\ At(h, s) = Mapped(h, k)
                                  /\ k < NDIRECT => s = <<"direct", k>>
                                  /\ ~(k < NDIRECT) => s = <<"indirect", k - NDIRECT>>
  <2>1. CASE k < NDIRECT
    <3>1. k \in 0 .. NDIRECT  BY <1>0, <2>1
    <3>2. PICK s \in Places(h) : s = <<"direct", k>>  BY <3>1, InPlaces
    <3>3. At(h, s) = inode[h].addrs[k]  BY <3>2, AtDirect
    <3> QED  BY <2>1, <3>2, <3>3 DEF Mapped
  <2>2. CASE ~(k < NDIRECT)
    <3>1. k - NDIRECT \in 0 .. NINDIRECT - 1  BY <1>0, <1>1, <2>2
    <3>2. PICK s \in Places(h) : s = <<"indirect", k - NDIRECT>>  BY <3>1, InPlaces
    <3>3. /\ inode[h].addrs[NDIRECT] = 0 => At(h, s) = 0
          /\ inode[h].addrs[NDIRECT] # 0 => At(h, s) = ptr[inode[h].addrs[NDIRECT]][k - NDIRECT]
      BY <3>2, AtIndirect
    <3> QED  BY <2>2, <3>2, <3>3 DEF Mapped
  <2> QED  BY <2>1, <2>2
<1>2. PICK s \in Places(f) : /\ At(f, s) = Mapped(f, m)
                             /\ m < NDIRECT => s = <<"direct", m>>
                             /\ ~(m < NDIRECT) => s = <<"indirect", m - NDIRECT>>
  BY <1>1
<1>3. PICK t \in Places(g) : /\ At(g, t) = Mapped(g, n)
                             /\ n < NDIRECT => t = <<"direct", n>>
                             /\ ~(n < NDIRECT) => t = <<"indirect", n - NDIRECT>>
  BY <1>1
<1>4. f = g /\ s = t  BY <1>2, <1>3 DEF OwnInv
<1>5. \A a, b : <<"direct", a>> # <<"indirect", b>>  OBVIOUS
<1>6. \A a, b : (<<"direct", a>> = <<"direct", b>> \/ <<"indirect", a>> = <<"indirect", b>>) => a = b
  OBVIOUS
<1>7. CASE m < NDIRECT /\ n < NDIRECT  BY <1>2, <1>3, <1>4, <1>6, <1>7
<1>8. CASE ~(m < NDIRECT) /\ ~(n < NDIRECT)
  <2>1. m - NDIRECT = n - NDIRECT  BY <1>2, <1>3, <1>4, <1>6, <1>8
  <2> QED  BY <1>0, <1>4, <2>1
<1> QED  BY <1>2, <1>3, <1>4, <1>5, <1>7, <1>8

(* A turn of the loop writes to the block of its position, and there to    *)
(* the bytes of its chunk: a byte elsewhere stays, and the first k bytes   *)
(* of the chunk become those of the write.                                 *)
LEMMA ChunkBytes ==
  ASSUME TypeOK, OwnInv, Kept, NEW g \in Files, NEW x \in Nat, Bn(x) < NDIRECT + NINDIRECT,
         NEW b \in Blocknos, Mapped(g, Bn(x))' = b, Mapped(g, Bn(x)) \in {0, b},
         Mapped(g, Bn(x)) = 0 => b \notin used,
         NEW k \in Nat, Bo(x) + k <= BSIZE, NEW old, NEW id, NEW j \in Nat,
         \A d \in Blocknos \ {b} : data'[d] = data[d],
         data'[b] = Filled(old, Bo(x), k, id, j), Mapped(g, Bn(x)) # 0 => old = data[b]
  PROVE  /\ \A f \in Files : \A y \in Nat :
               /\ Bn(y) < NDIRECT + NINDIRECT /\ Mapped(f, Bn(y)) # 0
               /\ ~(f = g /\ y \in x .. x + k - 1)
               => Byte(f, y)' = Byte(f, y)
         /\ \A y \in x .. x + k - 1 : Byte(g, y)' = <<id, j + (y - x)>>
<1>0. Bn(x) \in Nat  BY ChunkIs
<1>1. ASSUME NEW y \in Nat, Bn(y) = Bn(x)
      PROVE  Byte(g, y)' = data'[b][Bo(y)]
  <2>1. Mapped(g, Bn(y))' = b  BY <1>1
  <2> QED  BY <2>1 DEF Byte, Bo
<1>2. ASSUME NEW f \in Files, NEW y \in Nat, Bn(y) < NDIRECT + NINDIRECT, Mapped(f, Bn(y)) # 0,
             ~(f = g /\ y \in x .. x + k - 1)
      PROVE  Byte(f, y)' = Byte(f, y)
  <2>1. Bn(y) \in Nat  BY ChunkIs
  <2>2. PICK s \in Places(f) : Mapped(f, Bn(y)) = At(f, s)  BY <1>2, <2>1, MappedAt
  <2>3. Mapped(f, Bn(y)) \in Blocknos /\ Mapped(f, Bn(y)) \in used
    BY <1>2, <2>2, AtType DEF OwnInv
  <2>4. CASE Mapped(f, Bn(y)) # b
    <3>1. data'[Mapped(f, Bn(y))] = data[Mapped(f, Bn(y))]  BY <2>3, <2>4
    <3> QED  BY <1>2, <3>1, KeptByte
  <2>5. CASE Mapped(f, Bn(y)) = b
    <3>1. Mapped(g, Bn(x)) # 0 /\ Mapped(g, Bn(x)) = b  BY <2>3, <2>5
    <3>2. f = g /\ Bn(y) = Bn(x)  BY <1>0, <1>2, <2>1, <2>5, <3>1, OneBlock
    <3>3. /\ Bo(x) \in Nat /\ Bo(y) \in Nat /\ y + Bo(x) = x + Bo(y) /\ Bo(y) \in 0 .. BSIZE - 1
      BY <3>2, SameBlockOff
    <3>4. Bo(y) \notin Bo(x) .. Bo(x) + k - 1  BY <1>2, <3>2, <3>3
    <3>5. data'[b][Bo(y)] = old[Bo(y)]  BY <3>3, <3>4, FilledAt
    <3>6. Byte(f, y)' = data[b][Bo(y)]  BY <1>1, <3>1, <3>2, <3>5
    <3> QED  BY <2>5, <3>6 DEF Byte
  <2> QED  BY <2>4, <2>5
<1>3. ASSUME NEW y \in x .. x + k - 1 PROVE Byte(g, y)' = <<id, j + (y - x)>>
  <2>1. Bn(y) = Bn(x) /\ y \in Nat  BY SameBlock
  <2>2. /\ Bo(x) \in Nat /\ Bo(y) \in Nat /\ y + Bo(x) = x + Bo(y) /\ Bo(y) \in 0 .. BSIZE - 1
    BY <2>1, SameBlockOff
  <2>3. Bo(y) \in Bo(x) .. Bo(x) + k - 1  BY <1>3, <2>1, <2>2
  <2>4. data'[b][Bo(y)] = <<id, j + Bo(y) - Bo(x)>>  BY <2>2, <2>3, FilledAt
  <2>5. j + Bo(y) - Bo(x) = j + (y - x)  BY <2>1, <2>2
  <2> QED  BY <1>1, <2>1, <2>4, <2>5
<1> QED  BY <1>2, <1>3

(* A turn of try_iwrite's loop writes the bytes of its chunk, and no       *)
(* others of any file.                                                     *)
LEMMA WriteBlockFlat ==
  ASSUME CallInv, SpaceInv, FlatInv, NEW p \in Procs, WriteBlock(p), ~panicked'
  PROVE  FlatInv'
<1>0. TypeOK /\ HandleInv /\ CountInv  BY DEF CallInv
<1> DEFINE x0 == Pos(call[p], Batch(call[p]))
           n0 == Chunk(x0, call[p].left)
           j0 == call[p].i + (Batch(call[p]) - call[p].left)
<1>1. /\ ~panicked /\ call[p].at = "wblock" /\ call[p].left > 0
      /\ Bn(x0) >= NDIRECT => inode[InodeOf(p)].addrs[NDIRECT] # 0
      /\ panicked' = (Mapped(InodeOf(p), Bn(x0)) = 0 /\ Full)
      /\ owner' = owner /\ file' = file /\ flat' = flat /\ got' = got
  BY DEF WriteBlock
<1>2. PICK b \in Blocknos : \E r \in CopyIn(n0) :
         /\ MapBlock(InodeOf(p), Bn(x0), b)
         /\ data' = [data EXCEPT ![b] =
                        Filled(IF Mapped(InodeOf(p), Bn(x0)) = 0 THEN Clear ELSE @, Bo(x0), r[1],
                               call[p].id, j0)]
         /\ ~r[2] => call' = [call EXCEPT ![p].at = "wfail"]
  BY DEF WriteBlock
<1>3. PICK r \in CopyIn(n0) :
         /\ MapBlock(InodeOf(p), Bn(x0), b)
         /\ data' = [data EXCEPT ![b] =
                        Filled(IF Mapped(InodeOf(p), Bn(x0)) = 0 THEN Clear ELSE @, Bo(x0), r[1],
                               call[p].id, j0)]
         /\ ~r[2] => call' = [call EXCEPT ![p].at = "wfail"]
  BY <1>2
<1>4. ReachInv /\ HoleInv /\ OwnInv  BY <1>1 DEF SpaceInv
<1>5. PICK g \in Files : g = InodeOf(p)  BY <1>0, <1>1, CallOf
<1>6. PICK x \in Nat : x = x0  BY <1>0, <1>1, TurnIs
<1>7. Bn(x) \in Nat /\ Bn(x) < NDIRECT + NINDIRECT  BY <1>0, <1>1, <1>6, TurnIs
<1>8. InOp(p) /\ Busy(p)  BY <1>1 DEF InOp, Busy
<1>9. PICK c0 \in Call : c0 = call[p]  BY <1>0 DEF TypeOK
<1>10. PICK o \in Nat, l \in Nat, i \in Nat, m \in Nat :
          o = c0.off /\ l = c0.left /\ i = c0.i /\ m = Batch(c0)
  BY <1>0, <1>8, <1>9, CallFields, PosIs
<1>11. l > 0 /\ l <= m /\ x = o + (m - l)  BY <1>0, <1>1, <1>6, <1>8, <1>9, <1>10, PosIs
<1>12. PICK n \in Nat : n = n0 /\ n = Chunk(x, l) /\ n <= l /\ Bo(x) + n <= BSIZE
  BY <1>6, <1>9, <1>10, ChunkIs
<1>13. PICK k \in Nat : k = r[1] /\ k <= n /\ (r[2] => k = n)
  BY <1>12, CopyInIs
<1>14. PICK j \in Nat : j = j0 /\ j = i + (m - l)  BY <1>9, <1>10, <1>11
<1>15. PICK c \in Call :
         /\ call' = [call EXCEPT ![p] = c]
         /\ c.o = c0.o /\ c.id = c0.id /\ c.count = c0.count /\ c.i = c0.i /\ c.off = c0.off
         /\ \/ c.at = "wblock" /\ c.left = c0.left - n
            \/ c.at = "wfail" /\ c.left = c0.left
  <2>1. PICK c \in Call :
         /\ call' = [call EXCEPT ![p] = c]
         /\ c.o = call[p].o /\ c.id = call[p].id /\ c.count = call[p].count
         /\ c.i = call[p].i /\ c.off = call[p].off
         /\ \/ c.at = "wblock" /\ c.left = call[p].left - n0
            \/ c.at = "wfail" /\ c.left = call[p].left
    BY <1>0, WriteBlockIs
  <2>2. /\ c.o = c0.o /\ c.id = c0.id /\ c.count = c0.count /\ c.i = c0.i /\ c.off = c0.off
        /\ \/ c.at = "wblock" /\ c.left = c0.left - n
           \/ c.at = "wfail" /\ c.left = c0.left
    BY <1>9, <1>12, <2>1
  <2>3. call' = [call EXCEPT ![p] = c]  BY <2>1
  <2> HIDE DEF x0, n0, j0
  <2> QED  BY <2>2, <2>3, Zenon
<1>16. c.at = "wblock" => k = n
  <2>1. call'[p] = c  BY <1>0, <1>15, CallSet
  <2>2. ASSUME ~r[2] PROVE call'[p].at = "wfail"
    <3>1. call' = [call EXCEPT ![p].at = "wfail"]  BY <1>3, <2>2
    <3>2. call \in [Procs -> Call]  BY <1>0 DEF TypeOK
    <3>3. call'[p] = [call[p] EXCEPT !.at = "wfail"]  BY <3>1, <3>2
    <3>4. call[p] \in Call  BY <3>2
    <3> QED  BY <3>3, <3>4 DEF Call
  <2>3. c.at = "wblock" => r[2]  BY <2>1, <2>2
  <2> QED  BY <1>13, <2>3
<1>17. PICK old : old = IF Mapped(g, Bn(x)) = 0 THEN Clear ELSE data[b]  OBVIOUS
<1>18. data' = [data EXCEPT ![b] = Filled(old, Bo(x), k, c0.id, j)]
  BY <1>3, <1>5, <1>6, <1>9, <1>13, <1>14, <1>17
<1> HIDE DEF x0, n0, j0
<1>19. /\ MapBlock(g, Bn(x), b) /\ (Bn(x) >= NDIRECT => inode[g].addrs[NDIRECT] # 0)
       /\ Mapped(g, Bn(x)) = 0 => ~Full
  BY <1>1, <1>3, <1>5, <1>6
<1>20. /\ Kept /\ Mapped(g, Bn(x))' = b /\ \A f \in Files : inode'[f].size = inode[f].size
  BY <1>0, <1>4, <1>7, <1>19, MapBlockSpace
<1>21. Mapped(g, Bn(x)) \in {0, b} /\ (Mapped(g, Bn(x)) = 0 => b \notin used)
  <2>1. Mapped(g, Bn(x)) # 0 => b = Mapped(g, Bn(x))  BY <1>19 DEF MapBlock
  <2>2. Mapped(g, Bn(x)) = 0 => b = BmAlloc  BY <1>19 DEF MapBlock
  <2>3. ~Full => BmAlloc \notin used  BY <1>0, BmAllocIs DEF TypeOK
  <2> QED  BY <1>19, <2>1, <2>2, <2>3
<1>22. Bo(x) \in Nat /\ BSIZE \in Nat
  <2>1. Bo(x) \in 0 .. BSIZE - 1  BY ChunkIs
  <2> QED  BY <2>1, Sizes
<1>23. /\ \A d \in Blocknos \ {b} : data'[d] = data[d]
       /\ data'[b] = Filled(old, Bo(x), k, c0.id, j)
       /\ Mapped(g, Bn(x)) # 0 => old = data[b]
  <2>1. data \in [Blocknos -> [0 .. BSIZE - 1 -> Bytes]]  BY <1>0 DEF TypeOK
  <2> QED  BY <1>17, <1>18, <2>1
<1>24. Bo(x) + k <= BSIZE  BY <1>12, <1>13, <1>22
<1>25. /\ \A f \in Files : \A y \in Nat :
            /\ Bn(y) < NDIRECT + NINDIRECT /\ Mapped(f, Bn(y)) # 0
            /\ ~(f = g /\ y \in x .. x + k - 1)
            => Byte(f, y)' = Byte(f, y)
       /\ \A y \in x .. x + k - 1 : Byte(g, y)' = <<c0.id, j + (y - x)>>
  BY <1>0, <1>4, <1>7, <1>20, <1>21, <1>23, <1>24, ChunkBytes
<1>26. Batch(c) = m  BY <1>10, <1>15 DEF Batch
<1>27. Touched(c0) = o .. x - 1 /\ Touched(c) = o .. x + n - 1
       /\ (Pos(c, Batch(c)) = x \/ (Pos(c, Batch(c)) = x + n /\ k = n)) /\ Pos(c0, Batch(c0)) = x
  <2>1. Pos(c0, Batch(c0)) = x  BY <1>10, <1>11 DEF Pos
  <2>2. Tear(c0) = 0  BY <1>1, <1>9 DEF Tear
  <2>3. Touched(c0) = o .. x - 1  BY <1>10, <2>1, <2>2 DEF Touched
  <2>4. CASE c.at = "wblock" /\ c.left = c0.left - n
    <3>1. Pos(c, Batch(c)) = o + (m - (l - n))  BY <1>10, <1>15, <1>26, <2>4 DEF Pos
    <3>2. o + (m - (l - n)) = x + n  BY <1>11, <1>12
    <3>3. Tear(c) = 0  BY <2>4 DEF Tear
    <3>4. Touched(c) = o .. x + n - 1  BY <1>10, <1>15, <3>1, <3>2, <3>3 DEF Touched
    <3> QED  BY <1>16, <2>1, <2>3, <2>4, <3>1, <3>2, <3>4
  <2>5. CASE c.at = "wfail" /\ c.left = c0.left
    <3>1. Pos(c, Batch(c)) = x  BY <1>10, <1>11, <1>15, <1>26, <2>5 DEF Pos
    <3>2. Tear(c) = n  BY <1>10, <1>12, <2>5, <3>1 DEF Tear
    <3>3. Touched(c) = o .. x + n - 1  BY <1>10, <1>15, <3>1, <3>2 DEF Touched
    <3> QED  BY <2>1, <2>3, <3>1, <3>3
  <2> QED  BY <1>15, <2>4, <2>5
<1>28. Within(p, c) /\ c.at \in {"wblock", "wfail"}  BY <1>1, <1>8, <1>9, <1>15 DEF Within
<1>29. /\ \A y \in 0 .. inode[g].size - 1 : Holds(g, y) \/ y \in Touched(c0)
       /\ \A y \in c0.off .. Pos(c0, Batch(c0)) - 1 :
            /\ y \in Nat /\ Bn(y) < NDIRECT + NINDIRECT /\ Mapped(g, Bn(y)) # 0
            /\ Stored(g, c0, y)
       /\ inode[g].size = Len(flat[g])
  BY <1>4, <1>5, <1>8, <1>9, OwnFile
<1>30. OthersSame(p, g)  BY <1>1, <1>8, <1>20, <1>25 DEF OthersSame
<1>31. OwnSettled(p, c, g)
  <2>1. ASSUME NEW y \in 0 .. inode[g].size - 1, y \notin Touched(c) PROVE Holds(g, y)'
    <3>1. y \in Nat /\ Bn(y) < NDIRECT + NINDIRECT /\ Mapped(g, Bn(y)) # 0
      BY <1>4, <2>1, Inside
    <3>2. y \notin Touched(c0) /\ y \notin x .. x + k - 1
      <4>1. y \notin o .. x + n - 1  BY <1>27, <2>1
      <4>2. o <= x  BY <1>11
      <4>3. y \notin o .. x - 1 /\ y \notin x .. x + k - 1  BY <1>13, <3>1, <4>1, <4>2
      <4> QED  BY <1>27, <4>3
    <3>3. Byte(g, y)' = Byte(g, y)  BY <1>25, <3>1, <3>2
    <3>4. Holds(g, y)  BY <1>29, <2>1, <3>2
    <3> QED  BY <1>1, <3>3, <3>4 DEF Holds
  <2>2. inode'[g].size = inode[g].size /\ flat'[g] = flat[g]  BY <1>1, <1>20
  <2> QED  BY <1>28, <1>29, <2>1, <2>2 DEF OwnSettled
<1>32. OwnStored(c, g)
  <2>1. ASSUME NEW y \in c.off .. Pos(c, Batch(c)) - 1 PROVE Stored(g, c, y)'
    <3>0. c.off = o /\ c.id = c0.id /\ c.i = i /\ c0.off = o /\ c0.i = i  BY <1>10, <1>15
    <3>1. CASE y \in o .. x - 1
      <4>1. /\ y \in Nat /\ Bn(y) < NDIRECT + NINDIRECT /\ Mapped(g, Bn(y)) # 0
            /\ Stored(g, c0, y)
        BY <1>27, <1>29, <3>0, <3>1
      <4>2. y \notin x .. x + k - 1  BY <1>11, <3>1
      <4>3. Byte(g, y)' = Byte(g, y)  BY <1>25, <4>1, <4>2
      <4> QED  BY <3>0, <4>1, <4>3 DEF Stored
    <3>2. CASE y \in x .. x + k - 1
      <4>1. Byte(g, y)' = <<c0.id, j + (y - x)>>  BY <1>25, <3>2
      <4>2. j + (y - x) = i + (y - o)  BY <1>11, <1>14, <3>2
      <4> QED  BY <3>0, <4>1, <4>2 DEF Stored
    <3>3. y \in o .. x - 1 \/ y \in x .. x + k - 1  BY <1>11, <1>27, <2>1, <3>0
    <3> QED  BY <3>1, <3>2, <3>3
  <2> QED  BY <2>1 DEF OwnStored
<1>33. PICK e \in Seq(Bytes) : OwnGot(p, c, g, e)
  <2>1. got[p] = <<>> /\ <<>> \in Seq(Bytes)  BY <1>1 DEF FlatInv
  <2>2. got' = [got EXCEPT ![p] = <<>>]  BY <1>1, NoneGot
  <2> QED  BY <1>28, <2>1, <2>2 DEF OwnGot
<1>34. call' = [call EXCEPT ![p] = c]  BY <1>15
<1> QED  BY <1>4, <1>5, <1>28, <1>30, <1>31, <1>32, <1>33, <1>34, FlatStep

(* What a file holds once the part of it from o up to z is overwritten and *)
(* that up to e is torn.                                                   *)
IsOver(w, s, o, z, e, id, j, k) ==
    /\ Len(w) = k
    /\ \A y \in o .. z - 1 : w[y + 1] = <<id, j + (y - o)>>
    /\ \A y \in z .. e - 1 : y < k => w[y + 1] = Torn
    /\ \A y \in 0 .. Len(s) - 1 : y \notin o .. e - 1 => w[y + 1] = s[y + 1]

(* Overwritten is as said. *)
LEMMA OverwrittenAt ==
  ASSUME NEW s \in Seq(Bytes), NEW off \in Nat, NEW n \in Nat, NEW id \in Nat, NEW j \in Nat,
         NEW torn \in Nat
  PROVE  IsOver(Overwritten(s, off, n, id, j, torn), s, off, off + n, off + n + torn, id, j,
                Max({Len(s), off + n}))
<1> DEFINE m == Max({Len(s), off + n})
<1>0. PICK k \in Nat : k = m  BY MaxPair
<1> DEFINE F(x) == IF x - 1 \in off .. off + n - 1 THEN <<id, j + (x - 1 - off)>>
                   ELSE IF x - 1 \in off + n .. off + n + torn - 1 THEN Torn
                   ELSE IF x <= Len(s) THEN s[x] ELSE Zero
<1>1. Overwritten(s, off, n, id, j, torn) = [x \in 1 .. k |-> F(x)]  BY <1>0 DEF Overwritten
<1> HIDE DEF m
<1>2. PICK w : w = Overwritten(s, off, n, id, j, torn)  OBVIOUS
<1>3. w = [x \in 1 .. k |-> F(x)]  BY <1>1, <1>2
<1>4. Len(w) = k
  <2>1. w \in Seq(Bytes)  BY <1>2, OverwrittenType
  <2>2. DOMAIN w = 1 .. k  BY <1>3
  <2>3. DOMAIN w = 1 .. Len(w) /\ Len(w) \in Nat  BY <2>1
  <2> QED  BY <2>2, <2>3
<1>5. Len(s) \in Nat /\ Len(s) <= k /\ off + n <= k
  <2>1. Len(s) \in Nat /\ off + n \in Nat  OBVIOUS
  <2> QED  BY <1>0, <2>1, MaxPair DEF m
<1>6. ASSUME NEW y \in Nat, y < k
      PROVE  /\ y \in off .. off + n - 1 => w[y + 1] = <<id, j + (y - off)>>
             /\ y \in off + n .. off + n + torn - 1 => w[y + 1] = Torn
             /\ y \notin off .. off + n + torn - 1 /\ y < Len(s) => w[y + 1] = s[y + 1]
  <2>1. PICK x \in 1 .. k : x = y + 1 /\ x - 1 = y  BY <1>6
  <2>2. w[x] = F(x)
    <3> HIDE DEF F
    <3> QED  BY <1>3
  <2>4. ASSUME y \in off .. off + n - 1 PROVE w[x] = <<id, j + (y - off)>>
    BY <2>1, <2>2, <2>4
  <2>5. ASSUME y \in off + n .. off + n + torn - 1 PROVE w[x] = Torn
    <3>1. y \notin off .. off + n - 1  BY <2>5
    <3> QED  BY <2>1, <2>2, <2>5, <3>1
  <2>6. ASSUME y \notin off .. off + n + torn - 1, y < Len(s) PROVE w[x] = s[x]
    <3>1. y \notin off .. off + n - 1 /\ y \notin off + n .. off + n + torn - 1  BY <2>6
    <3>2. x <= Len(s)  BY <1>5, <2>1, <2>6
    <3> QED  BY <2>1, <2>2, <3>1, <3>2
  <2> QED  BY <2>1, <2>4, <2>5, <2>6
<1> HIDE DEF F
<1>7. ASSUME NEW y \in off .. off + n - 1 PROVE w[y + 1] = <<id, j + (y - off)>>
  <2>1. y \in Nat /\ y < k  BY <1>5
  <2> QED  BY <1>6, <2>1
<1>8. ASSUME NEW y \in off + n .. off + n + torn - 1, y < k PROVE w[y + 1] = Torn
  <2>1. y \in Nat  OBVIOUS
  <2> QED  BY <1>6, <1>8, <2>1
<1>9. ASSUME NEW y \in 0 .. Len(s) - 1, y \notin off .. off + n + torn - 1
      PROVE  w[y + 1] = s[y + 1]
  <2>1. y \in Nat /\ y < Len(s) /\ y < k  BY <1>5
  <2> QED  BY <1>6, <1>9, <2>1
<1>10. IsOver(w, s, off, off + n, off + n + torn, id, j, k)
  BY <1>4, <1>7, <1>8, <1>9 DEF IsOver
<1> QED  BY <1>0, <1>2, <1>10 DEF m

(* The end of a batch: the flat file takes over what the batch has stored, *)
(* and gives up what a failed copy may have spoilt.                        *)
LEMMA WriteEndFlat ==
  ASSUME CallInv, SpaceInv, FlatInv, NEW p \in Procs, WriteEnd(p)
  PROVE  FlatInv'
<1>0. TypeOK /\ HandleInv /\ CountInv  BY DEF CallInv
<1> DEFINE done0 == Batch(call[p]) - call[p].left
           torn0 == IF call[p].at = "wfail" THEN Chunk(Pos(call[p], Batch(call[p])), call[p].left)
                    ELSE 0
<1>1. /\ ~panicked /\ ptr' = ptr /\ data' = data /\ got' = got
      /\ inode' = [inode EXCEPT ![InodeOf(p)].size =
                      Max({inode[InodeOf(p)].size, call[p].off + done0})]
      /\ flat' = [flat EXCEPT ![InodeOf(p)] =
                     Overwritten(@, call[p].off, done0, call[p].id, call[p].i, torn0)]
  BY DEF WriteEnd, Update
<1>2. /\ InOp(p) /\ file' = [file EXCEPT ![call[p].o].off = @ + done0]
      /\ owner' = [owner EXCEPT ![InodeOf(p)] = None]
  BY <1>0, WriteEndIs
<1>3. PICK c \in Call : call' = [call EXCEPT ![p] = c] /\ (c = Idle \/ c.at = "write")
  BY <1>0, WriteEndIs
<1>4. ReachInv /\ HoleInv  BY <1>1 DEF SpaceInv
<1>5. Busy(p) /\ call[p].at # "idle" /\ call[p].at # "rblock"  BY <1>2 DEF InOp, Busy
<1>6. PICK g \in Files : g = InodeOf(p)  BY <1>0, <1>5, CallOf
<1>7. PICK c0 \in Call : c0 = call[p]  BY <1>0 DEF TypeOK
<1>8. PICK o \in Nat, i \in Nat, id \in Nat, l \in Nat, b \in Nat :
         o = c0.off /\ i = c0.i /\ id = c0.id /\ l = c0.left /\ b = Batch(c0)
  BY <1>0, <1>2, <1>7, CallFields, PosIs
<1>9. l <= b /\ Pos(c0, Batch(c0)) = o + (b - l)  BY <1>0, <1>2, <1>7, <1>8, PosIs
<1>10. PICK d \in Nat : d = b - l /\ d = done0  BY <1>7, <1>8, <1>9
<1>11. PICK z \in Nat : z = o + d /\ z = Pos(c0, Batch(c0))  BY <1>9, <1>10
<1>12. PICK t \in Nat : t = torn0 /\ t = Tear(c0)
  <2>1. Tear(c0) = torn0  BY <1>7 DEF Tear
  <2>2. Chunk(z, l) \in Nat  BY ChunkIs
  <2>3. Tear(c0) \in Nat  BY <1>8, <1>11, <2>2 DEF Tear
  <2> QED  BY <2>1, <2>3
<1>13. inode \in [Files -> Inode] /\ flat \in [Files -> Seq(Bytes)]  BY <1>0 DEF TypeOK
<1>14. PICK m \in Nat : m = inode[g].size  BY <1>13 DEF Inode
<1>15. PICK k \in Nat : k = Max({m, z}) /\ (k = m \/ k = z)  BY MaxPair
<1>16. /\ \A y \in 0 .. inode[g].size - 1 : Holds(g, y) \/ y \in Touched(c0)
       /\ \A y \in c0.off .. Pos(c0, Batch(c0)) - 1 :
            /\ y \in Nat /\ Bn(y) < NDIRECT + NINDIRECT /\ Mapped(g, Bn(y)) # 0
            /\ Stored(g, c0, y)
       /\ inode[g].size = Len(flat[g])
  BY <1>2, <1>4, <1>6, <1>7, OwnFile
<1>17. PICK w : w = Overwritten(flat[g], o, d, id, i, t)  OBVIOUS
<1>18. /\ inode' = [inode EXCEPT ![g].size = k] /\ flat' = [flat EXCEPT ![g] = w]
  <2>1. inode' = [inode EXCEPT ![g].size = Max({m, z})]
    BY <1>1, <1>6, <1>7, <1>8, <1>10, <1>11, <1>14
  <2>2. flat' = [flat EXCEPT ![g] = Overwritten(@, o, d, id, i, t)]
    BY <1>1, <1>6, <1>7, <1>8, <1>10, <1>12
  <2>3. flat' = [flat EXCEPT ![g] = Overwritten(flat[g], o, d, id, i, t)]  BY <1>13, <2>2
  <2> QED  BY <1>15, <1>17, <2>1, <2>3
<1> HIDE DEF done0, torn0
<1>19. /\ inode'[g].size = k /\ inode'[g].addrs = inode[g].addrs
       /\ \A f \in Files \ {g} : inode'[f] = inode[f]
       /\ flat'[g] = w /\ \A f \in Files \ {g} : flat'[f] = flat[f]
  <2>1. inode'[g] = [inode[g] EXCEPT !.size = k] /\ \A h \in Files \ {g} : inode'[h] = inode[h]
    BY <1>13, <1>18
  <2>2. inode[g] \in Inode  BY <1>13
  <2>3. inode'[g].size = k /\ inode'[g].addrs = inode[g].addrs  BY <2>1, <2>2 DEF Inode
  <2>4. flat'[g] = w /\ \A f \in Files \ {g} : flat'[f] = flat[f]  BY <1>13, <1>18
  <2> QED  BY <2>1, <2>3, <2>4
<1>20. \A f \in Files : \A y : Byte(f, y)' = Byte(f, y)
  <2>1. \A f \in Files : inode'[f].addrs = inode[f].addrs  BY <1>19
  <2>2. \A f \in Files : \A bn : Mapped(f, bn)' = Mapped(f, bn)  BY <1>1, <2>1, PlacesKept
  <2> QED  BY <1>1, <2>2 DEF Byte
<1>21. IsOver(w, flat[g], o, z, z + t, id, i, k)
  <2>1. flat[g] \in Seq(Bytes)  BY <1>13
  <2>2. IsOver(Overwritten(flat[g], o, d, id, i, t), flat[g], o, o + d, o + d + t, id, i,
               Max({Len(flat[g]), o + d}))
    BY <2>1, OverwrittenAt
  <2> QED  BY <1>11, <1>14, <1>15, <1>16, <1>17, <2>2
<1>22. Gives(p, c)
  <2>1. c.at \notin {"wblock", "wfail", "rblock"}  BY <1>3, IdleIs
  <2>2. done0 \in Nat  BY <1>10
  <2> QED  BY <1>2, <1>5, <2>1, <2>2 DEF Gives
<1>23. OthersSame(p, g)  BY <1>5, <1>19, <1>20 DEF OthersSame
<1>24. ASSUME NEW y \in 0 .. k - 1 PROVE Holds(g, y)'
  <2>0. y \in Nat /\ y <= k - 1 /\ y < k  OBVIOUS
  <2>1. CASE y \in o .. z - 1
    <3>1. Stored(g, c0, y)  BY <1>8, <1>11, <1>16, <2>1
    <3>2. w[y + 1] = <<id, i + (y - o)>>  BY <1>21, <2>1 DEF IsOver
    <3>3. Byte(g, y) = <<id, i + (y - o)>>  BY <1>8, <3>1 DEF Stored
    <3>4. Byte(g, y)' = flat'[g][y + 1]  BY <1>19, <1>20, <3>2, <3>3
    <3> QED  BY <3>4 DEF Holds
  <2>2. CASE y \in z .. z + t - 1
    <3>1. flat'[g][y + 1] = Torn  BY <1>19, <1>21, <2>0, <2>2 DEF IsOver
    <3> QED  BY <3>1 DEF Holds
  <2>3. CASE y \notin o .. z + t - 1
    <3>1. o <= m  BY <1>2, <1>4, <1>6, <1>7, <1>8, <1>14 DEF HoleInv
    <3>2. y < m  BY <1>11, <1>15, <2>0, <2>3, <3>1
    <3>3. y \notin Touched(c0)  BY <1>8, <1>11, <1>12, <2>3 DEF Touched
    <3>4. y \in 0 .. inode[g].size - 1  BY <1>14, <2>0, <3>2
    <3>5. Holds(g, y)  BY <1>16, <3>3, <3>4
    <3>6. w[y + 1] = flat[g][y + 1]  BY <1>16, <1>21, <2>3, <3>4 DEF IsOver
    <3>7. flat'[g][y + 1] = flat[g][y + 1] /\ Byte(g, y)' = Byte(g, y)  BY <1>19, <1>20, <3>6
    <3> QED  BY <3>5, <3>7 DEF Holds
  <2>4. y \in o .. z - 1 \/ y \in z .. z + t - 1 \/ y \notin o .. z + t - 1
    BY <1>11, <2>0
  <2> QED  BY <2>1, <2>2, <2>3, <2>4
<1>25. OwnSettled(p, c, g)  BY <1>19, <1>21, <1>24 DEF OwnSettled, IsOver
<1>26. c.at \notin {"wblock", "wfail", "rblock"}  BY <1>3, IdleIs
<1>27. OwnStored(c, g)  BY <1>26 DEF OwnStored
<1>28. PICK e \in Seq(Bytes) : OwnGot(p, c, g, e)
  <2>1. <<>> \in Seq(Bytes)  OBVIOUS
  <2>2. got' = [got EXCEPT ![p] = <<>>]  BY <1>1, <1>5, NoneGot
  <2> QED  BY <1>26, <2>1, <2>2 DEF OwnGot
<1>29. call' = [call EXCEPT ![p] = c]  BY <1>3
<1> QED  BY <1>4, <1>6, <1>22, <1>23, <1>25, <1>27, <1>28, <1>29, FlatStep

(* A step of the file table leaves every file and its flat file alone, or  *)
(* empties both while no call works on them.                               *)
Emptied ==
    \A f \in Files : \/ inode'[f] = inode[f] /\ flat'[f] = flat[f]
                     \/ /\ inode'[f].size = 0 /\ flat'[f] = <<>>
                        /\ \A q \in Procs : ~(Busy(q) /\ InodeOf(q) = f)

(* Such a step keeps the contents. *)
LEMMA TableFlat ==
  ASSUME CallInv, FlatInv, Bystander, Emptied, data' = data, got' = got
  PROVE  FlatInv'
<1>1. call' = call /\ ptr' = ptr  BY DEF Bystander
<1>2. ASSUME NEW f \in Files, inode'[f] = inode[f] PROVE \A x : Byte(f, x)' = Byte(f, x)
  BY <1>1, <1>2 DEF Byte, Mapped
<1>3. ASSUME NEW q \in Procs, Busy(q)
      PROVE  \E f \in Files : /\ f = InodeOf(q) /\ InodeOf(q)' = f
                              /\ inode'[f] = inode[f] /\ flat'[f] = flat[f]
  <2>1. InodeOf(q)' = InodeOf(q) /\ InodeOf(q) \in Files  BY <1>3, BystanderKeeps
  <2> QED  BY <1>3, <2>1 DEF Emptied
<1>4. ASSUME NEW f \in Files
      PROVE  /\ inode'[f].size = Len(flat'[f])
             /\ \A x \in 0 .. inode'[f].size - 1 :
                  \/ Holds(f, x)'
                  \/ \E p \in Procs : InOp(p)' /\ InodeOf(p)' = f /\ x \in Touched(call'[p])
  <2>1. CASE inode'[f] = inode[f] /\ flat'[f] = flat[f]
    <3>1. ASSUME NEW x \in 0 .. inode[f].size - 1
          PROVE  \/ Holds(f, x)'
                 \/ \E p \in Procs : InOp(p)' /\ InodeOf(p)' = f /\ x \in Touched(call'[p])
      <4>1. CASE Holds(f, x)
        <5>1. Byte(f, x)' = Byte(f, x)  BY <1>2, <2>1
        <5> QED  BY <2>1, <4>1, <5>1 DEF Holds
      <4>2. CASE \E p \in Procs : InOp(p) /\ InodeOf(p) = f /\ x \in Touched(call[p])
        <5>1. PICK p \in Procs : InOp(p) /\ InodeOf(p) = f /\ x \in Touched(call[p])  BY <4>2
        <5>2. Busy(p)  BY <5>1 DEF InOp, Busy
        <5>3. InodeOf(p)' = f  BY <1>3, <5>1, <5>2
        <5>4. InOp(p)' /\ call'[p] = call[p]  BY <1>1, <5>1 DEF InOp
        <5> QED  BY <5>1, <5>3, <5>4
      <4> QED  BY <4>1, <4>2 DEF FlatInv
    <3>2. inode[f].size = Len(flat[f])  BY DEF FlatInv
    <3> QED  BY <2>1, <3>1, <3>2
  <2>2. CASE inode'[f].size = 0 /\ flat'[f] = <<>>
    <3>1. Len(<<>>) = 0 /\ 0 .. 0 - 1 = {}  OBVIOUS
    <3> QED  BY <2>2, <3>1
  <2> QED  BY <2>1, <2>2 DEF Emptied
<1>5. ASSUME NEW q \in Procs, InOp(q)',
             NEW x \in call'[q].off .. Pos(call'[q], Batch(call'[q])) - 1
      PROVE  Stored(InodeOf(q), call[q], x)'
  <2>1. InOp(q) /\ Busy(q)  BY <1>1, <1>5 DEF InOp, Busy
  <2>2. PICK f \in Files : f = InodeOf(q) /\ InodeOf(q)' = f /\ inode'[f] = inode[f]
    BY <1>3, <2>1
  <2>3. x \in call[q].off .. Pos(call[q], Batch(call[q])) - 1  BY <1>1, <1>5
  <2>4. Stored(InodeOf(q), call[q], x)  BY <2>1, <2>3 DEF FlatInv
  <2>5. Byte(InodeOf(q), x)' = Byte(f, x)' /\ Byte(InodeOf(q), x) = Byte(f, x)
    BY <2>2 DEF Byte, Mapped
  <2>6. Byte(f, x)' = Byte(f, x)  BY <1>2, <2>2
  <2> QED  BY <1>1, <2>4, <2>5, <2>6 DEF Stored
<1>6. ASSUME NEW q \in Procs
      PROVE  IF call'[q].at = "rblock" THEN ReadOk(InodeOf(q), call[q], got[q])'
                                       ELSE got'[q] = <<>>
  <2>1. CASE call[q].at = "rblock"
    <3>1. Busy(q)  BY <2>1 DEF Busy
    <3>2. PICK f \in Files : f = InodeOf(q) /\ InodeOf(q)' = f /\ flat'[f] = flat[f]
      BY <1>3, <3>1
    <3>3. ReadOk(InodeOf(q), call[q], got[q])  BY <2>1 DEF FlatInv
    <3> QED  BY <1>1, <2>1, <3>2, <3>3 DEF ReadOk
  <2>2. CASE call[q].at # "rblock"  BY <1>1, <2>2 DEF FlatInv
  <2> QED  BY <2>1, <2>2
<1>7. got' \in [Procs -> Seq(Bytes)]  BY DEF FlatInv
<1> QED  BY <1>4, <1>5, <1>6, <1>7 DEF FlatInv

(* open, dup and close are steps of the file table. *)
LEMMA TableSteps ==
  ASSUME CallInv, NEW p \in Procs,
         \/ \E f \in Files, mode \in Modes, trunc \in BOOLEAN : SysOpen(p, f, mode, trunc)
         \/ \E fd \in Fds : SysDup(p, fd) \/ SysClose(p, fd)
  PROVE  Bystander /\ Emptied /\ data' = data /\ got' = got
<1>0. TypeOK /\ LockInv  BY DEF CallInv
<1>1. Bystander  BY SysOpenIs, SysDupCloseIs
<1>2. data' = data /\ got' = got  BY DEF SysOpen, SysDup, SysClose, calls, disk
<1>3. CASE \E fd \in Fds : SysDup(p, fd) \/ SysClose(p, fd)
  <2>1. inode' = inode /\ flat' = flat  BY <1>3 DEF SysDup, SysClose
  <2> QED  BY <1>1, <1>2, <2>1 DEF Emptied
<1>4. CASE \E f \in Files, mode \in Modes, trunc \in BOOLEAN : SysOpen(p, f, mode, trunc)
  <2>1. PICK f \in Files, mode \in Modes, trunc \in BOOLEAN : SysOpen(p, f, mode, trunc)
    BY <1>4
  <2>2. \/ inode' = inode /\ flat' = flat
        \/ inode' = [inode EXCEPT ![f] = EmptyFile] /\ flat' = [flat EXCEPT ![f] = <<>>]
    BY <2>1 DEF SysOpen, Truncate
  <2>3. owner[f] = None /\ None \notin Procs  BY <2>1, FileAssumption DEF SysOpen, Unlocked
  <2>4. \A q \in Procs : ~(Busy(q) /\ InodeOf(q) = f)  BY <1>0, <2>3 DEF LockInv
  <2>5. EmptyFile.size = 0  BY DEF EmptyFile
  <2>6. inode \in [Files -> Inode] /\ flat \in [Files -> Seq(Bytes)]  BY <1>0 DEF TypeOK
  <2>7. CASE inode' = inode /\ flat' = flat  BY <1>1, <1>2, <2>7 DEF Emptied
  <2>8. CASE inode' = [inode EXCEPT ![f] = EmptyFile] /\ flat' = [flat EXCEPT ![f] = <<>>]
    <3>1. inode'[f].size = 0 /\ flat'[f] = <<>>  BY <2>5, <2>6, <2>8
    <3>2. \A g \in Files \ {f} : inode'[g] = inode[g] /\ flat'[g] = flat[g]  BY <2>6, <2>8
    <3> QED  BY <1>1, <1>2, <2>4, <3>1, <3>2 DEF Emptied
  <2> QED  BY <2>2, <2>7, <2>8
<1> QED  BY <1>3, <1>4

(* At first all files are empty and nobody reads. *)
LEMMA FlatInit == ASSUME Init PROVE FlatInv
<1>1. /\ inode = [f \in Files |-> EmptyFile] /\ call = [p \in Procs |-> Idle]
      /\ got = [p \in Procs |-> <<>>] /\ flat = [f \in Files |-> <<>>]
  BY DEF Init
<1>2. EmptyFile.size = 0  BY DEF EmptyFile
<1>3. Len(<<>>) = 0 /\ 0 .. 0 - 1 = {}  OBVIOUS
<1>4. \A f \in Files : inode[f].size = 0 /\ flat[f] = <<>>  BY <1>1, <1>2
<1>5. \A p \in Procs : call[p].at = "idle" /\ got[p] = <<>>  BY <1>1, IdleIs
<1>6. got \in [Procs -> Seq(Bytes)]
  <2>1. <<>> \in Seq(Bytes)  OBVIOUS
  <2> QED  BY <1>1, <2>1
<1> QED  BY <1>3, <1>4, <1>5, <1>6 DEF FlatInv, InOp

(* The inductive step; a kernel that has panicked reads and writes no      *)
(* more.                                                                   *)
LEMMA FlatNext ==
  ASSUME CallInv, SpaceInv, ~panicked => FlatInv, [Next]_vars
  PROVE  ~panicked' => FlatInv'
<1>0. SUFFICES ASSUME ~panicked' PROVE FlatInv'  OBVIOUS
<1>1. CASE UNCHANGED vars
  <2>1. /\ panicked' = panicked /\ call' = call /\ ptr' = ptr /\ inode' = inode /\ file' = file
        /\ data' = data /\ got' = got /\ flat' = flat
    BY <1>1 DEF vars
  <2>2. Bystander  BY <2>1 DEF Bystander
  <2>3. Emptied  BY <2>1 DEF Emptied
  <2>4. FlatInv  BY <1>0, <2>1
  <2>5. data' = data /\ got' = got  BY <2>1
  <2> QED  BY <2>2, <2>3, <2>4, <2>5, TableFlat
<1>2. CASE Next
  <2>1. PICK p \in Procs :
          \/ \E f \in Files, mode \in Modes, trunc \in BOOLEAN : SysOpen(p, f, mode, trunc)
          \/ \E fd \in Fds : SysDup(p, fd) \/ SysClose(p, fd)
          \/ \E fd \in Fds, n \in Counts : SysWrite(p, fd, n)
          \/ \E fd \in Fds, n \in Wanted : SysRead(p, fd, n)
          \/ WriteLock(p) \/ MapIndirect(p) \/ WriteBlock(p) \/ WriteEnd(p)
          \/ ReadLock(p) \/ ReadBlock(p) \/ ReadEnd(p)
    BY <1>2 DEF Next
  <2>2. ~panicked
    BY <2>1 DEF SysOpen, SysDup, SysClose, SysWrite, SysRead, Ready, WriteLock, MapIndirect,
       WriteBlock, WriteEnd, ReadLock, ReadBlock, ReadEnd
  <2>3. FlatInv /\ ReachInv /\ HoleInv  BY <2>2 DEF SpaceInv
  <2>4. CASE \/ \E f \in Files, mode \in Modes, trunc \in BOOLEAN : SysOpen(p, f, mode, trunc)
             \/ \E fd \in Fds : SysDup(p, fd) \/ SysClose(p, fd)
    <3>1. Bystander /\ Emptied /\ data' = data /\ got' = got  BY <2>4, TableSteps
    <3> QED  BY <2>3, <3>1, TableFlat
  <2>5. CASE \/ \E fd \in Fds, n \in Counts : SysWrite(p, fd, n)
             \/ \E fd \in Fds, n \in Wanted : SysRead(p, fd, n)
             \/ WriteLock(p) \/ ReadLock(p) \/ ReadEnd(p)
    BY <2>3, <2>5, CallFlat
  <2>6. CASE MapIndirect(p)  BY <1>0, <2>3, <2>6, MapIndirectFlat
  <2>7. CASE WriteBlock(p)  BY <1>0, <2>3, <2>7, WriteBlockFlat
  <2>8. CASE WriteEnd(p)  BY <2>3, <2>8, WriteEndFlat
  <2>9. CASE ReadBlock(p)  BY <1>0, <2>3, <2>9, ReadBlockFlat
  <2> QED  BY <2>1, <2>4, <2>5, <2>6, <2>7, <2>8, <2>9
<1> QED  BY <1>1, <1>2

(* The invariant about contents holds until the kernel panics. *)
LEMMA FlatCorrect == Spec => [](~panicked => FlatInv)
<1>1. Init => FlatInv  BY FlatInit
<1>2. CallInv /\ SpaceInv /\ (~panicked => FlatInv) /\ [Next]_vars => (~panicked => FlatInv)'
  BY FlatNext
<1> QED  BY <1>1, <1>2, SpaceCorrect, PTL DEF Spec

(* What the invariants say of files that nobody has locked, and of reads. *)
LEMMA FlatContents ==
  ASSUME CallInv, SpaceInv, FlatInv, ~panicked
  PROVE  ContentIsFlat
<1>0. ReachInv /\ HoleInv /\ LockInv  BY DEF CallInv, SpaceInv
<1>1. ASSUME NEW f \in Files, owner[f] = None
      PROVE  /\ inode[f].size = Len(flat[f])
             /\ \A x \in 0 .. inode[f].size - 1 :
                  \/ flat[f][x + 1] = Torn
                  \/ Mapped(f, Bn(x)) # 0 /\ data[Mapped(f, Bn(x))][Bo(x)] = flat[f][x + 1]
  <2>1. ASSUME NEW x \in 0 .. inode[f].size - 1
        PROVE  \/ flat[f][x + 1] = Torn
               \/ Mapped(f, Bn(x)) # 0 /\ data[Mapped(f, Bn(x))][Bo(x)] = flat[f][x + 1]
    <3>1. ~\E p \in Procs : InOp(p) /\ InodeOf(p) = f
      <4>1. None \notin Procs  BY FileAssumption
      <4> QED  BY <1>0, <1>1, <4>1 DEF LockInv, InOp, Busy
    <3>2. Holds(f, x)  BY <3>1 DEF FlatInv
    <3>3. Mapped(f, Bn(x)) # 0  BY <1>0, Inside
    <3> QED  BY <3>2, <3>3 DEF Holds, Byte
  <2> QED  BY <2>1 DEF FlatInv
<1>2. ASSUME NEW p \in Procs, call[p].at = "rblock"
      PROVE  \A k \in 1 .. Len(got[p]) :
                flat[InodeOf(p)][call[p].off + k] \in {got[p][k], Torn}
  BY <1>2 DEF FlatInv, ReadOk
<1> QED  BY <1>1, <1>2 DEF ContentIsFlat

(* Whatever calls do at the same time to the files, a file that is not     *)
(* locked holds, through its direct and indirect blocks, what plain writes *)
(* into a flat array would have left there, and a read has copied out a    *)
(* piece of that array: for every size of a block, of the inode's block    *)
(* list and of the calls, until the disk runs full and bm_alloc panics,    *)
(* and nothing else makes these calls panic.                               *)
THEOREM FileContent == Spec => []ContentIsFlat
<1>1. CallInv /\ SpaceInv /\ (~panicked => FlatInv) => ContentIsFlat
  BY FlatContents DEF SpaceInv, ContentIsFlat
<1> QED  BY <1>1, FlatCorrect, SpaceCorrect, PTL
=============================================================================
