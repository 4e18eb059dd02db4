------------------------------ MODULE FileData ------------------------------
(***************************************************************************)
(* The contents of regular files: read, write, dup, close and truncating   *)
(* open of kernel/src/fs/file/mod.rs and process/proc/syscall.rs, down to  *)
(* the block map of an inode (fs/inode.rs) and the free-block bitmap       *)
(* (fs/block.rs).                                                          *)
(*                                                                         *)
(* An inode's sleep lock is held from the first to the last block of a     *)
(* call; the bitmap is shared, and a call that allocates or writes is one  *)
(* step per block, between which other calls run on other inodes.  Block   *)
(* contents are what bread returns; that an operation's writes reach the   *)
(* disk together or not at all is the business of Log.  A byte is a pair   *)
(* <<write call, index in its buffer>>, so that no two writes store the    *)
(* same byte.  Block numbers count data blocks from 1; 0 is "no block".    *)
(***************************************************************************)
EXTENDS Naturals, Sequences, FiniteSets, FiniteSetsExt

CONSTANTS Procs, Files,
          Objs,         \* File objects (Arc<File>)
          None,
          BSIZE, NDIRECT, NINDIRECT, MAXOPBLOCKS, NFILE,
          NBLOCK,       \* data blocks of the disk
          Counts,       \* the counts passed to write
          Wanted,       \* the counts passed to read
          Modes,        \* the access modes passed to open
          MaxWrites, MaxReads, MaxOpens     \* bounds on the calls made

(* What a File object is while it is open. *)
OpenFile == [inode : Files, off : Nat, mode : {"r", "w", "rw"}]

ASSUME FileAssumption ==
    /\ {BSIZE, NINDIRECT, NFILE, NBLOCK} \subseteq Nat \ {0}
    /\ {NDIRECT, MaxWrites, MaxReads, MaxOpens} \subseteq Nat
    /\ MAXOPBLOCKS \in Nat /\ MAXOPBLOCKS >= 6   \* fwrite's batch is not empty
    /\ Counts \cup Wanted \subseteq Nat \ {0}
    /\ Modes \subseteq {"r", "w", "rw"}
    /\ None \notin Procs \cup Objs \cup OpenFile

VARIABLES used,     \* the bitmap: allocated data blocks
          data,     \* bytes of each block
          ptr,      \* block numbers in each block, when used as indirect block
          inode,    \* InodeData.dinode: addrs and size, in memory
          dinode,   \* what update has last written to the inode's block
          owner,    \* who holds the sleep lock of each inode
          file,     \* the File objects: inode, offset, mode; None when dropped
          ofile,    \* open_files of each process
          call,     \* the call each process is in
          wset,     \* blocks its operation has handed to LOG.write
          got,      \* bytes copied out by its read so far
          flat,     \* ghost: the bytes each file should hold
          ncall,    \* calls made so far: writes, reads, opens
          panicked

disk == <<used, data, ptr, dinode>>
calls == <<call, wset, got>>
vars == <<used, data, ptr, inode, dinode, owner, file, ofile, call, wset, got,
          flat, ncall, panicked>>

Blocknos == 1 .. NBLOCK
Bitmap == 0                   \* FSSIZE < BPB: one bitmap block
InodeBlock == NBLOCK + 1
Fds == 0 .. NFILE - 1
MAX_FILE_SIZE == (NDIRECT + NINDIRECT) * BSIZE
Zero == <<0, 0>>              \* a byte of a cleared block
Torn == <<0, 1>>              \* ghost: a byte that nothing is promised about
Clear == [i \in 0 .. BSIZE - 1 |-> Zero]
NoPtrs == [i \in 0 .. NINDIRECT - 1 |-> 0]
EmptyFile == [addrs |-> [i \in 0 .. NDIRECT |-> 0], size |-> 0]
Idle == [at |-> "idle", o |-> None, id |-> 0, count |-> 0, i |-> 0, off |-> 0, left |-> 0]

(* Every process holds, as after fork, the same File of one inode on       *)
(* descriptor 0; its other descriptors are free.                           *)
Init == /\ used = {}
        /\ data = [b \in Blocknos |-> Clear]
        /\ ptr = [b \in Blocknos |-> NoPtrs]
        /\ inode = [f \in Files |-> EmptyFile]
        /\ dinode = inode
        /\ owner = [f \in Files |-> None]
        /\ \E f \in Files, o \in Objs :
             /\ file = [x \in Objs |-> IF x = o THEN [inode |-> f, off |-> 0, mode |-> "rw"]
                                                ELSE None]
             /\ ofile = [p \in Procs |-> [fd \in Fds |-> IF fd = 0 THEN o ELSE None]]
        /\ call = [p \in Procs |-> Idle]
        /\ wset = [p \in Procs |-> {}]
        /\ got = [p \in Procs |-> <<>>]
        /\ flat = [f \in Files |-> <<>>]
        /\ ncall = [k \in {"write", "read", "open"} |-> 0]
        /\ panicked = FALSE

-----------------------------------------------------------------------------
(***************************************************************************)
(* The block map and the bitmap.                                           *)
(***************************************************************************)

(* map_blockno, where nothing has to be allocated; 0 elsewhere. *)
Mapped(f, bn) ==
    LET a == inode[f].addrs
    IN IF bn < NDIRECT THEN a[bn]
       ELSE IF a[NDIRECT] = 0 THEN 0 ELSE ptr[a[NDIRECT]][bn - NDIRECT]

(* bm_alloc: the first block whose bit is clear.  It panics when there is  *)
(* none; what it would then return is of no consequence.                   *)
Full == used = Blocknos
BmAlloc == Min(IF Full THEN Blocknos ELSE Blocknos \ used)

(* The block numbers an inode refers to. *)
Direct(i) == {i.addrs[k] : k \in 0 .. NDIRECT} \ {0}
Indirect(i) == IF i.addrs[NDIRECT] = 0 THEN {}
               ELSE {ptr[i.addrs[NDIRECT]][k] : k \in 0 .. NINDIRECT - 1} \ {0}
Refers(i) == Direct(i) \cup Indirect(i)

(* bm_free of some blocks; it panics for one that is free. *)
BmFree(bs) == /\ used' = used \ bs
              /\ panicked' = (panicked \/ ~(bs \subseteq used))

(* Fault: the blocks listed in the indirect block stay allocated. *)
TruncateDirect(f) ==
    /\ BmFree(Direct(inode[f]))
    /\ inode' = [inode EXCEPT ![f] = EmptyFile]
    /\ dinode' = [dinode EXCEPT ![f] = EmptyFile]

(* truncate: every block is freed; then update. *)
Truncate(f) ==
    /\ BmFree(Refers(inode[f]))
    /\ inode' = [inode EXCEPT ![f] = EmptyFile]
    /\ dinode' = [dinode EXCEPT ![f] = EmptyFile]

-----------------------------------------------------------------------------
(***************************************************************************)
(* Descriptors.                                                            *)
(***************************************************************************)

(* alloc_fd: the lowest free descriptor. *)
FreeFds(p) == {fd \in Fds : ofile[p][fd] = None}
Store(p, o) == ofile' = [ofile EXCEPT ![p][Min(FreeFds(p))] = o]

(* arg_fd: the descriptor is open. *)
ArgFd(p, fd) == ofile[p][fd] # None

Ready(p) == call[p].at = "idle" /\ ~panicked
Unlocked(f) == owner[f] = None
Counted(k, max) == /\ ncall[k] < max
                   /\ ncall' = [ncall EXCEPT ![k] = @ + 1]

(* sys_open of a regular file that exists: alloc_fd, and File::open with   *)
(* its lock held and, when asked to, its blocks freed.                     *)
SysOpen(p, f, mode, trunc) ==
    /\ Ready(p) /\ FreeFds(p) # {} /\ Unlocked(f)
    /\ Counted("open", MaxOpens)
    /\ \E o \in Objs :
         /\ file[o] = None
         /\ file' = [file EXCEPT ![o] = [inode |-> f, off |-> 0, mode |-> mode]]
         /\ Store(p, o)
    /\ \/ /\ trunc
          /\ Truncate(f)
          /\ flat' = [flat EXCEPT ![f] = <<>>]
       \/ /\ ~trunc
          /\ UNCHANGED <<used, inode, dinode, flat, panicked>>
    /\ UNCHANGED <<data, ptr, owner, calls>>

(* sys_dup: a second descriptor for the same File, and so for one offset. *)
SysDup(p, fd) ==
    /\ Ready(p) /\ ArgFd(p, fd) /\ FreeFds(p) # {}
    /\ Store(p, ofile[p][fd])
    /\ UNCHANGED <<disk, inode, owner, file, calls, flat, ncall, panicked>>

(* sys_close; the last descriptor of a File drops it. *)
SysClose(p, fd) ==
    LET o == ofile[p][fd]
        last == \A q \in Procs, e \in Fds : ofile[q][e] = o => q = p /\ e = fd
    IN /\ Ready(p) /\ ArgFd(p, fd)
       /\ ofile' = [ofile EXCEPT ![p][fd] = None]
       /\ file' = IF last THEN [file EXCEPT ![o] = None] ELSE file
       /\ UNCHANGED <<disk, inode, owner, calls, flat, ncall, panicked>>

-----------------------------------------------------------------------------
(***************************************************************************)
(* write.                                                                  *)
(***************************************************************************)

(* Fault: no allowance for the bitmap, the inode and the indirect block. *)
BatchOfData == (MAXOPBLOCKS \div 2) * BSIZE

(* fwrite's batch, and the part of the call that it is now at. *)
BATCH == ((MAXOPBLOCKS - 4) \div 2) * BSIZE
Batch(c) == Min({BATCH, c.count - c.i})

InodeOf(p) == file[call[p].o].inode
Return(p) == call' = [call EXCEPT ![p] = Idle]

(* sys_write and fwrite up to the first batch; a File that is not open for *)
(* writing fails without a trace.                                          *)
SysWrite(p, fd, n) ==
    /\ Ready(p) /\ ArgFd(p, fd)
    /\ file[ofile[p][fd]].mode # "r"
    /\ Counted("write", MaxWrites)
    /\ call' = [call EXCEPT ![p] = [Idle EXCEPT !.at = "write", !.o = ofile[p][fd],
                                     !.id = ncall'["write"], !.count = n]]
    /\ UNCHANGED <<disk, inode, owner, file, ofile, wset, got, flat, panicked>>

(* begin_op, the lock, and the two early returns of try_iwrite. *)
Admitted(c, f) == /\ file[c.o].off <= inode[f].size
                  /\ file[c.o].off + Batch(c) <= MAX_FILE_SIZE

(* Fault: the inode is not locked. *)
NoLock(p, f) == UNCHANGED owner

(* Inode::lock, which sleeps while somebody else holds the lock. *)
Lock(p, f) == /\ Unlocked(f)
              /\ owner' = [owner EXCEPT ![f] = p]

(* A batch begins: the offset is read with the inode locked. *)
WriteLock(p) ==
    LET c == call[p]
        f == InodeOf(p)
    IN /\ c.at = "write" /\ ~panicked
       /\ \/ /\ Admitted(c, f)
             /\ Lock(p, f)
             /\ call' = [call EXCEPT ![p].at = "wblock", ![p].off = file[c.o].off,
                                     ![p].left = Batch(c)]
          \/ /\ ~Admitted(c, f) /\ Unlocked(f)
             /\ Return(p)
             /\ UNCHANGED owner
       /\ UNCHANGED <<disk, inode, file, ofile, wset, got, flat, ncall, panicked>>

(* Fault: the offset in the first block is forgotten. *)
ChunkWhole(x, left) == Min({BSIZE, left})

(* Where the loops of try_iwrite and iread stand: the position in the      *)
(* file, the block, the offset in it, and how much of it to copy.          *)
Pos(c, total) == c.off + (total - c.left)
Bn(x) == x \div BSIZE
Bo(x) == x % BSIZE
Chunk(x, left) == Min({BSIZE - Bo(x), left})

LogWrite(p, bs) == wset' = [wset EXCEPT ![p] = @ \cup bs]

(* map_blockno of a block whose indirect block is missing: it is allocated *)
(* and cleared.                                                            *)
MapIndirect(p) ==
    LET c == call[p]
        f == InodeOf(p)
        bn == Bn(Pos(c, Batch(c)))
    IN /\ c.at = "wblock" /\ c.left > 0 /\ ~panicked
       /\ bn >= NDIRECT /\ inode[f].addrs[NDIRECT] = 0
       /\ panicked' = Full
       /\ used' = used \cup {BmAlloc}
       /\ ptr' = [ptr EXCEPT ![BmAlloc] = NoPtrs]
       /\ inode' = [inode EXCEPT ![f].addrs[NDIRECT] = BmAlloc]
       /\ LogWrite(p, {Bitmap, BmAlloc})
       /\ UNCHANGED <<data, dinode, owner, file, ofile, call, got, flat, ncall>>

(* map_blockno of a block whose indirect block, if it needs one, is there: *)
(* the block number it returns, and the blocks it changes when it has to   *)
(* allocate.                                                               *)
MapBlock(f, bn, b) ==
    IF Mapped(f, bn) # 0
    THEN /\ b = Mapped(f, bn)
         /\ UNCHANGED <<used, ptr, inode>>
    ELSE /\ b = BmAlloc
         /\ used' = used \cup {b}
         /\ IF bn < NDIRECT
            THEN /\ inode' = [inode EXCEPT ![f].addrs[bn] = b]
                 /\ UNCHANGED ptr
            ELSE /\ ptr' = [ptr EXCEPT ![inode[f].addrs[NDIRECT]][bn - NDIRECT] = b]
                 /\ UNCHANGED inode
MapLogs(f, bn, b) ==
    IF Mapped(f, bn) # 0 THEN {}
    ELSE {Bitmap, b} \cup (IF bn < NDIRECT THEN {} ELSE {inode[f].addrs[NDIRECT]})

(* The contents of a block once n bytes, from index j of write id on, are  *)
(* copied to offset bo.                                                    *)
Filled(old, bo, n, id, j) ==
    [x \in 0 .. BSIZE - 1 |-> IF x \in bo .. bo + n - 1 THEN <<id, j + x - bo>> ELSE old[x]]

(* Address::copy_in of n bytes: how many it copies, and whether it         *)
(* succeeds.  It fails at a page that is not mapped; when the user's       *)
(* buffer ends with its page it looks at the next page too, and may fail   *)
(* with everything copied.                                                 *)
CopyIn(n) == {<<n, TRUE>>} \cup ((0 .. n) \X {FALSE})

(* One turn of try_iwrite's loop.  When copy_in fails after k bytes, the   *)
(* loop ends with the block changed but not logged.                        *)
WriteBlock(p) ==
    LET c == call[p]
        f == InodeOf(p)
        x == Pos(c, Batch(c))
        n == Chunk(x, c.left)
        fresh == Mapped(f, Bn(x)) = 0
    IN /\ c.at = "wblock" /\ c.left > 0 /\ ~panicked
       /\ Bn(x) >= NDIRECT => inode[f].addrs[NDIRECT] # 0
       /\ panicked' = (fresh /\ Full)
       /\ \E b \in Blocknos, r \in CopyIn(n) :
            /\ MapBlock(f, Bn(x), b)
            /\ LogWrite(p, MapLogs(f, Bn(x), b) \cup (IF r[2] THEN {b} ELSE {}))
            /\ data' = [data EXCEPT ![b] =
                           Filled(IF fresh THEN Clear ELSE @, Bo(x), r[1], c.id,
                                  c.i + (Batch(c) - c.left))]
            /\ call' = IF r[2] THEN [call EXCEPT ![p].left = @ - n]
                       ELSE [call EXCEPT ![p].at = "wfail"]
       /\ UNCHANGED <<dinode, owner, file, ofile, got, flat, ncall>>

(* Ghost: what a file holds after n of its bytes from off on were replaced *)
(* by those of write id from index j on; the bytes of a chunk that copy_in *)
(* could not complete are torn as far as the file had them.                *)
Overwritten(s, off, n, id, j, torn) ==
    [x \in 1 .. Max({Len(s), off + n}) |->
        IF x - 1 \in off .. off + n - 1 THEN <<id, j + (x - 1 - off)>>
        ELSE IF x - 1 \in off + n .. off + n + torn - 1 THEN Torn
        ELSE IF x <= Len(s) THEN s[x] ELSE Zero]

(* Fault: update is left out when the size has not changed. *)
UpdateIfGrown(f, size) ==
    /\ inode' = [inode EXCEPT ![f].size = size]
    /\ dinode' = IF size > inode[f].size THEN [dinode EXCEPT ![f] = inode'[f]] ELSE dinode

(* The end of try_iwrite: the size, and update in any case. *)
Update(f, size) ==
    /\ inode' = [inode EXCEPT ![f].size = size]
    /\ dinode' = [dinode EXCEPT ![f] = inode'[f]]

(* The rest of a batch: try_iwrite's end, the offset, unlock and end_op;   *)
(* then fwrite returns after a short or the last batch.                    *)
WriteEnd(p) ==
    LET c == call[p]
        f == InodeOf(p)
        done == Batch(c) - c.left
        torn == IF c.at = "wfail" THEN Chunk(Pos(c, Batch(c)), c.left) ELSE 0
    IN /\ c.at = "wfail" \/ (c.at = "wblock" /\ c.left = 0)
       /\ ~panicked
       /\ Update(f, Max({inode[f].size, c.off + done}))
       /\ file' = [file EXCEPT ![c.o].off = @ + done]
       /\ owner' = [owner EXCEPT ![f] = None]
       /\ wset' = [wset EXCEPT ![p] = {}]
       /\ IF c.left > 0 \/ c.i + done = c.count
          THEN Return(p)
          ELSE call' = [call EXCEPT ![p] = [c EXCEPT !.at = "write", !.i = @ + done,
                                                     !.off = 0, !.left = 0]]
       /\ flat' = [flat EXCEPT ![f] = Overwritten(@, c.off, done, c.id, c.i, torn)]
       /\ UNCHANGED <<used, data, ptr, ofile, got, ncall, panicked>>

-----------------------------------------------------------------------------
(***************************************************************************)
(* read.                                                                   *)
(***************************************************************************)

(* sys_read and fread. *)
SysRead(p, fd, n) ==
    /\ Ready(p) /\ ArgFd(p, fd)
    /\ file[ofile[p][fd]].mode # "w"
    /\ Counted("read", MaxReads)
    /\ call' = [call EXCEPT ![p] = [Idle EXCEPT !.at = "read", !.o = ofile[p][fd],
                                                !.count = n]]
    /\ UNCHANGED <<disk, inode, owner, file, ofile, wset, got, flat, panicked>>

(* The lock, and try_iread's count: nothing beyond the end of the file. *)
ReadLock(p) ==
    LET c == call[p]
        f == InodeOf(p)
        off == file[c.o].off
        n == IF off > inode[f].size THEN 0 ELSE Min({c.count, inode[f].size - off})
    IN /\ c.at = "read" /\ ~panicked
       /\ Lock(p, f)
       /\ call' = [call EXCEPT ![p] = [c EXCEPT !.at = "rblock", !.off = off,
                                                !.count = n, !.left = n]]
       /\ UNCHANGED <<disk, inode, file, ofile, wset, got, flat, ncall, panicked>>

(* One turn of iread's loop.  Outside of an operation map_blockno must not *)
(* allocate: the LOG.write in bm_alloc would panic.                        *)
ReadBlock(p) ==
    LET c == call[p]
        f == InodeOf(p)
        x == Pos(c, c.count)
        b == Mapped(f, Bn(x))
        n == Chunk(x, c.left)
    IN /\ c.at = "rblock" /\ c.left > 0 /\ ~panicked
       /\ panicked' = (b = 0)
       /\ got' = [got EXCEPT ![p] =
                     @ \o [k \in 1 .. n |-> IF b = 0 THEN Zero ELSE data[b][Bo(x) + k - 1]]]
       /\ call' = [call EXCEPT ![p].left = @ - n]
       /\ UNCHANGED <<disk, inode, owner, file, ofile, wset, flat, ncall>>

(* The end of fread: the offset moves when everything was copied out, and  *)
(* stays when copy_out failed before a block; then unlock.                 *)
ReadEnd(p) ==
    LET c == call[p]
    IN /\ c.at = "rblock" /\ ~panicked
       /\ \/ /\ c.left = 0
             /\ file' = [file EXCEPT ![c.o].off = @ + c.count]
          \/ /\ c.left > 0
             /\ UNCHANGED file
       /\ owner' = [owner EXCEPT ![InodeOf(p)] = None]
       /\ got' = [got EXCEPT ![p] = <<>>]
       /\ Return(p)
       /\ UNCHANGED <<disk, inode, ofile, wset, flat, ncall, panicked>>

Next ==
    \E p \in Procs :
      \/ \E f \in Files, mode \in Modes, trunc \in BOOLEAN :
             SysOpen(p, f, mode, trunc)
      \/ \E fd \in Fds : SysDup(p, fd) \/ SysClose(p, fd)
      \/ \E fd \in Fds, n \in Counts : SysWrite(p, fd, n)
      \/ \E fd \in Fds, n \in Wanted : SysRead(p, fd, n)
      \/ WriteLock(p) \/ MapIndirect(p) \/ WriteBlock(p) \/ WriteEnd(p)
      \/ ReadLock(p) \/ ReadBlock(p) \/ ReadEnd(p)

Spec == Init /\ [][Next]_vars

-----------------------------------------------------------------------------
(***************************************************************************)
(* Properties.                                                             *)
(***************************************************************************)

InOp(p) == call[p].at \in {"wblock", "wfail"}

(* The references of all files to blocks: <<file, place>>. *)
Places(f) == {<<"direct", k>> : k \in 0 .. NDIRECT} \cup
             {<<"indirect", k>> : k \in 0 .. NINDIRECT - 1}
At(f, pl) == IF pl[1] = "direct" THEN inode[f].addrs[pl[2]]
             ELSE IF inode[f].addrs[NDIRECT] = 0 THEN 0
             ELSE ptr[inode[f].addrs[NDIRECT]][pl[2]]

(* A block belongs to one place of one file, and the bitmap marks exactly  *)
(* the blocks that belong to some file: map_blockno, truncate, bm_alloc    *)
(* and bm_free neither share a block nor lose one, until bm_alloc panics   *)
(* on a full disk.                                                         *)
BlocksOwnedOnce == ~panicked =>
    /\ used = UNION {Refers(inode[f]) : f \in Files}
    /\ \A f, g \in Files : \A s \in Places(f), t \in Places(g) :
          At(f, s) # 0 /\ At(f, s) = At(g, t) => f = g /\ s = t

(* The log commits when no operation is open.  What it then makes durable  *)
(* is a consistent image: every inode is written as it is in memory, so    *)
(* that the bitmap and the block map that a crash recovers agree, also     *)
(* after a write that allocated a block and then failed in copy_in.        *)
CrashImage ==
    (\A p \in Procs : ~InOp(p)) => dinode = inode

(* Block by block, a file holds what plain writes into a flat array would  *)
(* have left there, and a read returns a piece of that array: try_iwrite   *)
(* and iread cut a request at block boundaries and direct and indirect     *)
(* blocks alike, and a truncated file does not show old blocks again.      *)
(* Nothing but a full disk makes these calls panic: no read meets a hole   *)
(* and no block is freed twice.                                            *)
ContentIsFlat == IF panicked THEN Full ELSE
    /\ \A f \in Files : owner[f] = None =>
         /\ inode[f].size = Len(flat[f])
         /\ \A x \in 0 .. inode[f].size - 1 :
              \/ flat[f][x + 1] = Torn
              \/ Mapped(f, Bn(x)) # 0 /\ data[Mapped(f, Bn(x))][Bo(x)] = flat[f][x + 1]
    /\ \A p \in Procs : call[p].at = "rblock" =>
         \A k \in 1 .. Len(got[p]) :
            flat[InodeOf(p)][call[p].off + k] \in {got[p][k], Torn}

(* The descriptors that fork and dup leave on one File share its offset:   *)
(* the offset that a call of fread or fwrite works at is the File's own    *)
(* until the call moves it, so that no two calls transfer the same bytes   *)
(* and those of one do not land where those of another did.                *)
OffsetShared ==
    \A p \in Procs : call[p].at \in {"wblock", "wfail", "rblock"} =>
        call[p].off = file[call[p].o].off

(* No operation of fwrite hands more than MAXOPBLOCKS - 1 blocks to the    *)
(* log, the inode's block that update adds included: what begin_op's       *)
(* reservation relies on (Log's OpBlocks).  A panic logs nothing more.     *)
OpFits ==
    \A p \in Procs : InOp(p) /\ ~panicked =>
        Cardinality(wset[p] \cup {InodeBlock}) <= MAXOPBLOCKS - 1
=============================================================================
