------------------------------- MODULE Inodes -------------------------------
(***************************************************************************)
(* The inode cache and the directory tree: kernel/src/fs/inode.rs, the     *)
(* inode part of fs/block.rs and fs/file/mod.rs, and the system calls of   *)
(* process/proc/syscall.rs that take a path.                               *)
(*                                                                         *)
(* ICACHE.meta is a spin lock, so get, dup and each locked part of put are *)
(* one step.  An inode's data is under a sleep lock; what a process does   *)
(* to data it has locked, between two uses of meta, is one step.  Handles  *)
(* and guards that go out of scope are dropped one by one, in the order    *)
(* Rust drops them: drops[p] is the queue of what p still has to drop.     *)
(* The contents of files are the subject of module FileData.               *)
(***************************************************************************)
EXTENDS Integers, Sequences, FiniteSets

CONSTANTS Procs,     \* processes
          NINODE,    \* slots of the inode cache
          NINUM,     \* inodes on the disk
          Names,     \* names of directory entries
          Trees,     \* the file systems to start from
          Menus      \* sets of system calls; the processes use one of them

None == "none"
NoName == ""
Dot == "."
DotDot == ".."
ROOTINUM == 1
Slots == 1 .. NINODE
Inums == 1 .. NINUM

ASSUME InodesAssumption == /\ NINODE \in Nat \ {0}
                           /\ NINUM \in Nat \ {0}
                           /\ None \notin Procs
                           /\ IsFiniteSet(Procs)
                           /\ {NoName, Dot, DotDot} \subseteq Names

(* InodeType; a device without a driver has a type of its own. *)
ITypes == {"Empty", "Directory", "File", "Device", "NoDevice"}
Dinode == [itype : ITypes, nlink : Int]
DirEntry == [name : Names, inum : 0 .. NINUM]

(* No inode of a file system to start from is in use without a link. *)
ASSUME TreesAssumption ==
    \A t \in Trees : /\ t.dino \in [Inums -> Dinode]
                     /\ t.ents \in [Inums -> Seq(DirEntry)]
                     /\ \A n \in Inums :
                           t.dino[n].itype # "Empty" => t.dino[n].nlink # 0

ASSUME MenusAssumption ==
    \A m \in Menus : \A c \in m :
        /\ c.op \in {"open", "chdir", "unlink", "link", "creat", "mkdir", "mknod",
                     "exit"}
        /\ c.op # "exit" => c.path \in Seq(Names)
        /\ c.op = "link" => c.newpath \in Seq(Names)
        /\ c.op = "mknod" => c.itype \in ITypes \ {"Empty"}

VARIABLES menu,      \* the calls the processes make
          inum, refs,          \* InodeMeta of each slot
          owner,               \* holder of the sleep lock of each slot
          valid,               \* InodeData.valid: an inum, or 0
          din,                 \* InodeData.dinode
          dino, ents,          \* DiskInode and directory entries of each inum
          pc, call, path,      \* where a process is, and what it still walks
          cur, ino, old,       \* its inode handles: a slot, or 0
          fresh,               \* the inum inode_alloc has given it, or 0
          drops,               \* what it has still to drop
          cwd, file,           \* ProcData.cwd and the inode of its open file
          inop,                \* between begin_op and end_op
          asserted,            \* the debug assertion of put has failed
          panicked,            \* the message of a panic, or None
          slips, late          \* history: see Remember

cache == <<inum, refs, owner, valid, din>>
disk == <<dino, ents>>
prog == <<pc, call, path, cur, ino, old, fresh, cwd, file>>
history == <<slips, late>>
vars == <<menu, cache, disk, prog, drops, inop, asserted, panicked, history>>

Empty == [itype |-> "Empty", nlink |-> 0]
Entry(nm, n) == [name |-> nm, inum |-> n]

(* A tree is a pair of dino and ents.  Every process starts in the root    *)
(* directory, as the children of init do.                                  *)
Init == /\ menu \in Menus
        /\ \E t \in Trees : dino = t.dino /\ ents = t.ents
        /\ inum = [i \in Slots |-> IF i = 1 THEN ROOTINUM ELSE 0]
        /\ refs = [i \in Slots |-> IF i = 1 THEN Cardinality(Procs) ELSE 0]
        /\ owner = [i \in Slots |-> None]
        /\ valid = [i \in Slots |-> 0]
        /\ din = [i \in Slots |-> Empty]
        /\ pc = [p \in Procs |-> "user"]
        /\ call = [p \in Procs |-> None]
        /\ path = [p \in Procs |-> <<>>]
        /\ cur = [p \in Procs |-> 0]
        /\ ino = [p \in Procs |-> 0]
        /\ old = [p \in Procs |-> 0]
        /\ fresh = [p \in Procs |-> 0]
        /\ drops = [p \in Procs |-> <<>>]
        /\ cwd = [p \in Procs |-> 1]
        /\ file = [p \in Procs |-> 0]
        /\ inop = [p \in Procs |-> FALSE]
        /\ asserted = FALSE
        /\ panicked = None
        /\ slips = {}
        /\ late = {}

-----------------------------------------------------------------------------
(***************************************************************************)
(* Helpers.                                                                *)
(***************************************************************************)

First(S) == CHOOSE x \in S : \A y \in S : x <= y

Guard(i) == [k |-> "guard", i |-> i]   \* a SleepLockGuard
Ref(i) == [k |-> "ref", i |-> i]       \* an Inode
Trunc(i) == [k |-> "trunc", i |-> i]   \* the truncation of put
Deref(i) == [k |-> "deref", i |-> i]   \* the second locked part of put
BeginOp == [k |-> "begin", i |-> 0]
EndOp == [k |-> "end", i |-> 0]

Goto(p, to) == pc' = [pc EXCEPT ![p] = to]
Queue(p, s) == drops' = [drops EXCEPT ![p] = s]

(* p drops s.  A guard at its head is dropped at once: nothing that others *)
(* could see happens between the locked section and its end.               *)
Dropping(p, s) ==
    IF s # <<>> /\ Head(s).k = "guard"
    THEN Queue(p, Tail(s)) /\ owner' = [owner EXCEPT ![Head(s).i] = None]
    ELSE Queue(p, s) /\ UNCHANGED owner

Running(p, at) == panicked = None /\ drops[p] = <<>> /\ pc[p] = at

(* The call returns once s is dropped.  Its handles have moved into s. *)
Return(p, s) ==
    /\ Goto(p, "user") /\ Dropping(p, s)
    /\ cur' = [cur EXCEPT ![p] = 0]
    /\ ino' = [ino EXCEPT ![p] = 0]
    /\ old' = [old EXCEPT ![p] = 0]
    /\ path' = [path EXCEPT ![p] = <<>>]
    /\ call' = [call EXCEPT ![p] = None]
    /\ UNCHANGED fresh

(* LOG.write panics outside of every operation. *)
LogPanic == \A q \in Procs : ~inop[q]
Logged(other) == panicked' = IF LogPanic THEN "log" ELSE other

-----------------------------------------------------------------------------
(***************************************************************************)
(* InodeCache::get, dup and put.                                           *)
(***************************************************************************)

Holding(n) == {i \in Slots : inum[i] = n /\ refs[i] > 0}
FreeSlots == {i \in Slots : refs[i] = 0}

(* The slot get returns. *)
GetSlot(n) == IF Holding(n) # {} THEN First(Holding(n))
              ELSE IF FreeSlots # {} THEN First(FreeSlots) ELSE 1

(* get: a slot that holds the inode, or an unused one. *)
Get(n) ==
    /\ inum' = [inum EXCEPT ![GetSlot(n)] = n]
    /\ refs' = [refs EXCEPT ![GetSlot(n)] = @ + 1]
    /\ panicked' = IF Holding(n) = {} /\ FreeSlots = {} THEN "not enough"
                   ELSE panicked

(* Fault: dup does not count the new handle. *)
DupUncounted(i) == UNCHANGED <<refs, inum, panicked>>

Dup(i) == /\ refs' = [refs EXCEPT ![i] = @ + 1]
          /\ UNCHANGED <<inum, panicked>>

(* What p drops next. *)
Drops(p, k) == panicked = None /\ drops[p] # <<>> /\ Head(drops[p]).k = k

(* Fault: put leaves the data of an unreferenced inode marked valid. *)
PutKeepsValid(p) ==
    LET i == Head(drops[p]).i IN
    /\ Drops(p, "ref")
    /\ refs' = [refs EXCEPT ![i] = @ - 1]
    /\ Queue(p, Tail(drops[p]))
    /\ UNCHANGED <<menu, inum, owner, valid, din, disk, prog, inop, asserted,
                   panicked>>

(* Fault: put never frees an inode. *)
PutNeverFrees(p) ==
    LET i == Head(drops[p]).i IN
    /\ Drops(p, "ref")
    /\ refs[i] = 1 => owner[i] = None
    /\ refs' = [refs EXCEPT ![i] = @ - 1]
    /\ valid' = [valid EXCEPT ![i] = IF refs[i] = 1 THEN 0 ELSE @]
    /\ Queue(p, Tail(drops[p]))
    /\ UNCHANGED <<menu, inum, owner, din, disk, prog, inop, asserted, panicked>>

(* put up to drop(guard).  The last handle takes the sleep lock with meta  *)
(* locked; if nobody can reach the inode any more it goes on to truncate.  *)
(* Nobody reads the inum of an unused slot or data that is not valid: the  *)
(* model resets both where the code leaves the last value.                 *)
Put(p) ==
    LET i == Head(drops[p]).i IN
    /\ Drops(p, "ref")
    /\ \/ /\ refs[i] > 1
          /\ refs' = [refs EXCEPT ![i] = @ - 1]
          /\ Queue(p, Tail(drops[p]))
          /\ UNCHANGED <<owner, valid, din>>
       \/ /\ refs[i] = 1 /\ owner[i] = None
          /\ valid[i] = 0 \/ din[i].nlink > 0
          /\ valid' = [valid EXCEPT ![i] = 0]
          /\ din' = [din EXCEPT ![i] = Empty]
          /\ refs' = [refs EXCEPT ![i] = 0]
          /\ Queue(p, Tail(drops[p]))
          /\ UNCHANGED owner
       \/ /\ refs[i] = 1 /\ owner[i] = None
          /\ valid[i] # 0 /\ din[i].nlink = 0
          /\ owner' = [owner EXCEPT ![i] = p]
          /\ Queue(p, <<Trunc(i)>> \o Tail(drops[p]))
          /\ UNCHANGED <<refs, valid, din>>
    /\ inum' = [inum EXCEPT ![i] = IF refs'[i] = 0 THEN 0 ELSE @]
    /\ UNCHANGED <<menu, disk, prog, inop, asserted, panicked>>

(* put: itype = Empty, truncate with its update, valid.take(). *)
PutTruncate(p) ==
    LET i == Head(drops[p]).i IN
    /\ Drops(p, "trunc")
    /\ din' = [din EXCEPT ![i] = Empty]
    /\ dino' = [dino EXCEPT ![valid[i]] = Empty]
    /\ ents' = [ents EXCEPT ![valid[i]] = <<>>]
    /\ valid' = [valid EXCEPT ![i] = 0]
    /\ Logged(None)
    /\ Dropping(p, <<Guard(i), Deref(i)>> \o Tail(drops[p]))
    /\ UNCHANGED <<menu, inum, refs, prog, inop, asserted>>

(* put, after the data has been unlocked. *)
PutDeref(p) ==
    LET i == Head(drops[p]).i IN
    /\ Drops(p, "deref")
    /\ refs' = [refs EXCEPT ![i] = @ - 1]
    /\ inum' = [inum EXCEPT ![i] = IF refs'[i] = 0 THEN 0 ELSE @]
    /\ asserted' = (asserted \/ refs[i] # 1)
    /\ Queue(p, Tail(drops[p]))
    /\ UNCHANGED <<menu, owner, valid, din, disk, prog, inop, panicked>>

(* Drop of a SleepLockGuard. *)
DropGuard(p) ==
    /\ Drops(p, "guard")
    /\ owner' = [owner EXCEPT ![Head(drops[p]).i] = None]
    /\ Queue(p, Tail(drops[p]))
    /\ UNCHANGED <<menu, inum, refs, valid, din, disk, prog, inop, asserted,
                   panicked>>

(* LOG.begin_op and LOG.end_op, whose waiting is the subject of Log. *)
DropOp(p) ==
    /\ Drops(p, "begin") \/ Drops(p, "end")
    /\ inop' = [inop EXCEPT ![p] = (Head(drops[p]).k = "begin")]
    /\ Queue(p, Tail(drops[p]))
    /\ UNCHANGED <<menu, cache, disk, prog, asserted, panicked>>

-----------------------------------------------------------------------------
(***************************************************************************)
(* Inode::lock.                                                            *)
(***************************************************************************)

(* The handle that p locks at pc. *)
LockTarget(p) == CASE pc[p] \in {"walk", "found", "made"} -> cur[p]
                   [] pc[p] \in {"new", "child"} -> ino[p]
                   [] pc[p] = "revert" -> old[p]

(* Where p goes on with the lock held. *)
Locked(p) == CASE pc[p] = "walk" -> "look"
               [] pc[p] = "new" -> "fill"
               [] pc[p] = "child" -> "unlinked"
               [] pc[p] = "revert" -> "reverting"
               [] pc[p] = "made" -> "opening"
               [] pc[p] = "found" ->
                    CASE call[p].op = "open" -> "opening"
                      [] call[p].op = "chdir" -> "chdir"
                      [] call[p].op = "unlink" -> "unlink"
                      [] call[p].op = "link" -> IF old[p] = 0 THEN "link" ELSE "linking"
                      [] OTHER -> "create"

Locking(p) == /\ drops[p] = <<>>
              /\ \/ pc[p] \in {"found", "new", "child", "revert"}
                 \/ pc[p] = "walk" /\ path[p] # <<>>
                 \/ pc[p] = "made" /\ call[p].op = "creat"

Lock(p) ==
    LET i == LockTarget(p) IN
    /\ panicked = None
    /\ Locking(p)
    /\ owner[i] = None
    /\ owner' = [owner EXCEPT ![i] = p]
    /\ \/ /\ valid[i] # 0
          /\ UNCHANGED <<valid, din, panicked>>
       \/ /\ valid[i] = 0
          /\ valid' = [valid EXCEPT ![i] = inum[i]]
          /\ din' = [din EXCEPT ![i] = dino[inum[i]]]
          /\ panicked' = IF dino[inum[i]].itype = "Empty" THEN "empty inode"
                         ELSE panicked
    /\ Goto(p, Locked(p))
    /\ UNCHANGED <<menu, inum, refs, disk, call, path, cur, ino, old, fresh, cwd,
                   file, drops, inop, asserted>>

-----------------------------------------------------------------------------
(***************************************************************************)
(* Directories, under the lock of their inode.                             *)
(***************************************************************************)

Matches(n, nm) == {k \in 1 .. Len(ents[n]) :
                       ents[n][k].inum # 0 /\ ents[n][k].name = nm}

(* dir_lookup: the inum, or 0. *)
DirLookup(n, nm) == IF Matches(n, nm) = {} THEN 0
                    ELSE ents[n][First(Matches(n, nm))].inum

(* dir_link: the first empty entry, or a new one at the end. *)
DirLink(s, nm, n) ==
    LET holes == {k \in 1 .. Len(s) : s[k].inum = 0} IN
    IF holes = {} THEN Append(s, Entry(nm, n))
                  ELSE [s EXCEPT ![First(holes)] = Entry(nm, n)]

(* dir_unlink: the entry is overwritten with an empty one. *)
DirErase(n, nm) == [ents[n] EXCEPT ![First(Matches(n, nm))] = Entry(NoName, 0)]

(* dir_is_empty: it skips the entries for "." and "..". *)
DirIsEmpty(n) == \A k \in 3 .. Len(ents[n]) : ents[n][k].inum = 0

-----------------------------------------------------------------------------
(***************************************************************************)
(* The system calls up to namex.  sys_open looks for a free descriptor     *)
(* first, here the only one.                                               *)
(***************************************************************************)
Enter(p, c) ==
    /\ Running(p, "user")
    /\ c.op # "exit"
    /\ c.op \in {"open", "creat"} => file[p] = 0
    /\ call' = [call EXCEPT ![p] = c]
    /\ path' = [path EXCEPT ![p] = c.path]
    /\ inop' = [inop EXCEPT ![p] = TRUE]
    /\ Goto(p, "start")
    /\ UNCHANGED <<menu, cache, disk, cur, ino, old, fresh, cwd, file, drops,
                   asserted, panicked>>

(* Fault: the inode of a closed file is dropped outside of an operation. *)
CloseNoOp(p) ==
    /\ Running(p, "user") /\ file[p] # 0
    /\ Queue(p, <<Ref(file[p])>>)
    /\ file' = [file EXCEPT ![p] = 0]
    /\ UNCHANGED <<menu, cache, disk, pc, call, path, cur, ino, old, fresh, cwd,
                   inop, asserted, panicked>>

(* sys_close of the last descriptor of a file, and the drop of the File. *)
SysClose(p) ==
    /\ Running(p, "user") /\ file[p] # 0
    /\ Queue(p, <<BeginOp, Ref(file[p]), EndOp>>)
    /\ file' = [file EXCEPT ![p] = 0]
    /\ UNCHANGED <<menu, cache, disk, pc, call, path, cur, ino, old, fresh, cwd,
                   inop, asserted, panicked>>

(* close_files, by which a process exits: its file, if it is open, and its *)
(* working directory.                                                      *)
CloseFiles(p) ==
    /\ Running(p, "user")
    /\ \E c \in menu : c.op = "exit"
    /\ Queue(p, (IF file[p] = 0 THEN <<>> ELSE <<BeginOp, Ref(file[p]), EndOp>>)
                \o <<BeginOp, Ref(cwd[p]), EndOp>>)
    /\ file' = [file EXCEPT ![p] = 0]
    /\ cwd' = [cwd EXCEPT ![p] = 0]
    /\ Goto(p, "gone")
    /\ UNCHANGED <<menu, cache, disk, call, path, cur, ino, old, fresh, inop,
                   asserted, panicked>>

(* namex is called by namei_parent. *)
IsParent(p) == \/ call[p].op \in {"unlink", "creat", "mkdir", "mknod"}
               \/ call[p].op = "link" /\ old[p] # 0

(* The name that namei_parent leaves. *)
LastName(p) == path[p][Len(path[p])]

(* namex has returned None, after dropping s. *)
NotFound(p, s) ==
    IF old[p] = 0
    THEN Return(p, s \o <<EndOp>>)
    ELSE /\ Goto(p, "revert") /\ Dropping(p, s)
         /\ cur' = [cur EXCEPT ![p] = 0]
         /\ UNCHANGED <<ino, old, path, call, fresh>>

(* The first inode of the walk: the root, or the working directory. *)
NamexStart(p) ==
    LET abs == IF old[p] = 0 THEN call[p].abs ELSE call[p].newabs IN
    /\ Running(p, "start")
    /\ IF abs THEN Get(ROOTINUM) ELSE Dup(cwd[p])
    /\ cur' = [cur EXCEPT ![p] = IF abs THEN GetSlot(ROOTINUM) ELSE cwd[p]]
    /\ Goto(p, "walk")
    /\ UNCHANGED <<menu, owner, valid, din, disk, call, path, ino, old, fresh,
                   cwd, file, drops, inop, asserted>>

(* No component is left. *)
NamexEnd(p) ==
    /\ Running(p, "walk") /\ path[p] = <<>>
    /\ IF IsParent(p)
       THEN NotFound(p, <<Ref(cur[p])>>)
       ELSE /\ Goto(p, "found")
            /\ UNCHANGED <<owner, drops, cur, ino, old, path, call, fresh>>
    /\ UNCHANGED <<menu, inum, refs, valid, din, disk, cwd, file, inop, asserted, panicked>>

(* One turn of namex's loop, with the directory locked. *)
NamexLook(p) ==
    LET i == cur[p]
        n == DirLookup(valid[i], Head(path[p]))
    IN
    /\ Running(p, "look")
    /\ \/ /\ din[i].itype # "Directory"
          /\ NotFound(p, <<Guard(i), Ref(i)>>)
          /\ UNCHANGED <<inum, refs, panicked>>
       \/ /\ din[i].itype = "Directory"
          /\ IsParent(p) /\ Len(path[p]) = 1
          /\ Dropping(p, <<Guard(i)>>)
          /\ Goto(p, "found")
          /\ UNCHANGED <<inum, refs, panicked, cur, ino, old, path, call, fresh>>
       \/ /\ din[i].itype = "Directory"
          /\ ~(IsParent(p) /\ Len(path[p]) = 1)
          /\ n = 0
          /\ NotFound(p, <<Guard(i), Ref(i)>>)
          /\ UNCHANGED <<inum, refs, panicked>>
       \/ /\ din[i].itype = "Directory"
          /\ ~(IsParent(p) /\ Len(path[p]) = 1)
          /\ n # 0
          /\ Get(n)
          /\ Dropping(p, <<Guard(i), Ref(i)>>)
          /\ cur' = [cur EXCEPT ![p] = GetSlot(n)]
          /\ path' = [path EXCEPT ![p] = Tail(@)]
          /\ Goto(p, "walk")
          /\ UNCHANGED <<ino, old, call, fresh>>
    /\ UNCHANGED <<menu, valid, din, disk, cwd, file, inop, asserted>>

-----------------------------------------------------------------------------
(***************************************************************************)
(* InodeCache::create, with the parent locked.                             *)
(***************************************************************************)

(* dir_lookup in the parent.  open and mknod reuse what they find. *)
CreateLook(p) ==
    LET i == cur[p]
        n == DirLookup(valid[i], LastName(p))
    IN
    /\ Running(p, "create")
    /\ \/ /\ n = 0
          /\ Goto(p, "alloc")
          /\ UNCHANGED <<inum, refs, owner, drops, cur, ino, old, path, call, fresh,
                         panicked>>
       \/ /\ n # 0 /\ call[p].op # "mkdir"
          /\ Get(n)
          /\ Dropping(p, <<Guard(i), Ref(i)>>)
          /\ cur' = [cur EXCEPT ![p] = GetSlot(n)]
          /\ Goto(p, "made")
          /\ UNCHANGED <<ino, old, path, call, fresh>>
       \/ /\ n # 0 /\ call[p].op = "mkdir"
          /\ Get(n)
          /\ Return(p, <<Ref(GetSlot(n)), Guard(i), Ref(i), EndOp>>)
    /\ UNCHANGED <<menu, valid, din, disk, cwd, file, inop, asserted>>

TypeOf(c) == CASE c.op = "creat" -> "File"
               [] c.op = "mkdir" -> "Directory"
               [] c.op = "mknod" -> c.itype

(* inode_alloc: the first inode on the disk that is empty. *)
InodeAlloc(p) ==
    LET empty == {n \in Inums : dino[n].itype = "Empty"}
        n == IF empty = {} THEN ROOTINUM ELSE First(empty)
    IN
    /\ Running(p, "alloc")
    /\ fresh' = [fresh EXCEPT ![p] = n]
    /\ dino' = [dino EXCEPT ![n] = [itype |-> TypeOf(call[p]), nlink |-> 0]]
    /\ panicked' = IF empty = {} THEN "no inode" ELSE IF LogPanic THEN "log" ELSE None
    /\ Goto(p, "get")
    /\ UNCHANGED <<menu, cache, ents, call, path, cur, ino, old, cwd, file, drops,
                   inop, asserted>>

CreateGet(p) ==
    /\ Running(p, "get")
    /\ Get(fresh[p])
    /\ ino' = [ino EXCEPT ![p] = GetSlot(fresh[p])]
    /\ Goto(p, "new")
    /\ UNCHANGED <<menu, owner, valid, din, disk, call, path, cur, old, fresh, cwd,
                   file, drops, inop, asserted>>

(* Fault: the parent does not count the ".." of a new directory. *)
ParentLinks(i, isdir) == din[i].nlink

(* The link count of the parent after create. *)
ParentLink(i, isdir) == din[i].nlink + (IF isdir THEN 1 ELSE 0)

(* Both inodes are locked: link count, "." and "..", the entry. *)
CreateFill(p) ==
    LET i == cur[p]
        j == ino[p]
        isdir == call[p].op = "mkdir"
        parent == [din[i] EXCEPT !.nlink = ParentLink(i, isdir)]
        made == [din[j] EXCEPT !.nlink = 1]
        dots == DirLink(DirLink(ents[valid[j]], Dot, valid[j]), DotDot, valid[i])
    IN
    /\ Running(p, "fill")
    /\ din' = [din EXCEPT ![i] = parent, ![j] = made]
    /\ dino' = [dino EXCEPT ![valid[i]] = parent, ![valid[j]] = made]
    /\ ents' = [ents EXCEPT ![valid[i]] = DirLink(@, LastName(p), valid[j]),
                            ![valid[j]] = IF isdir THEN dots ELSE ents[valid[j]]]
    /\ panicked' = IF LogPanic THEN "log"
                   ELSE IF isdir /\ Matches(valid[j], Dot) # {} THEN "dir link"
                   ELSE IF din[j].itype # TypeOf(call[p]) THEN "type" ELSE None
    /\ Dropping(p, <<Guard(i), Ref(i), Guard(j)>>)
    /\ cur' = [cur EXCEPT ![p] = j]
    /\ ino' = [ino EXCEPT ![p] = 0]
    /\ fresh' = [fresh EXCEPT ![p] = 0]
    /\ Goto(p, "made")
    /\ UNCHANGED <<menu, inum, refs, valid, call, path, old, cwd, file,
                   inop, asserted>>

(* sys_mkdir and sys_mknod drop the inode that create returns. *)
Made(p, op) ==
    /\ Running(p, "made") /\ call[p].op = op
    /\ Return(p, <<Ref(cur[p]), EndOp>>)
    /\ UNCHANGED <<menu, inum, refs, valid, din, disk, cwd, file, inop, asserted, panicked>>
SysMkdir(p) == Made(p, "mkdir")
SysMknod(p) == Made(p, "mknod")

-----------------------------------------------------------------------------
(***************************************************************************)
(* What the calls do with the inode they have found and locked.            *)
(***************************************************************************)

(* File::open.  A directory is opened for reading only, a device with a    *)
(* known major number only.                                                *)
Opened(p) ==
    LET i == cur[p]
        refused == \/ din[i].itype = "Directory" /\ call[p].wr
                   \/ din[i].itype = "NoDevice"
    IN
    /\ Running(p, "opening")
    /\ \/ /\ refused
          /\ Return(p, <<Guard(i), Ref(i), EndOp>>)
          /\ UNCHANGED file
       \/ /\ ~refused
          /\ Return(p, <<Guard(i), EndOp>>)
          /\ file' = [file EXCEPT ![p] = i]
    /\ panicked' = IF din[i].itype = "Empty" THEN "empty inode" ELSE panicked
    /\ UNCHANGED <<menu, inum, refs, valid, din, disk, cwd, inop, asserted>>

(* sys_chdir. *)
SysChdir(p) ==
    LET i == cur[p] IN
    /\ Running(p, "chdir")
    /\ \/ /\ din[i].itype # "Directory"
          /\ Return(p, <<Guard(i), Ref(i), EndOp>>)
          /\ UNCHANGED cwd
       \/ /\ din[i].itype = "Directory"
          /\ Return(p, <<Guard(i), Ref(cwd[p]), EndOp>>)
          /\ cwd' = [cwd EXCEPT ![p] = i]
    /\ UNCHANGED <<menu, inum, refs, valid, din, disk, file, inop, asserted, panicked>>

(* sys_unlink after dir_unlink, which drops the handles held: the parent   *)
(* directory is unlocked and dropped and the operation ends.               *)
SysUnlink(p, held) == Return(p, held \o <<Guard(cur[p]), Ref(cur[p]), EndOp>>)

(* dir_unlink up to the lock of the entry's inode. *)
DirUnlinkLook(p) ==
    LET i == cur[p]
        n == DirLookup(valid[i], LastName(p))
    IN
    /\ Running(p, "unlink")
    /\ \/ /\ LastName(p) \in {Dot, DotDot} \/ n = 0
          /\ SysUnlink(p, <<>>)
          /\ UNCHANGED <<inum, refs, panicked>>
       \/ /\ LastName(p) \notin {Dot, DotDot} /\ n # 0
          /\ Get(n)
          /\ ino' = [ino EXCEPT ![p] = GetSlot(n)]
          /\ Goto(p, "child")
          /\ UNCHANGED <<owner, drops, cur, old, path, call, fresh>>
    /\ UNCHANGED <<menu, valid, din, disk, cwd, file, inop, asserted>>

(* The entry's inode is no directory, or an empty one. *)
Removable(j) == din[j].itype = "Directory" => DirIsEmpty(valid[j])

(* The rest of dir_unlink. *)
DirUnlink(p) ==
    LET i == cur[p]
        j == ino[p]
        parent == [din[i] EXCEPT !.nlink =
                       IF din[j].itype = "Directory" THEN @ - 1 ELSE @]
        child == [din[j] EXCEPT !.nlink = @ - 1]
    IN
    /\ Running(p, "unlinked")
    /\ \/ /\ ~Removable(j) \/ din[j].nlink < 1
          /\ panicked' = IF din[j].nlink < 1 THEN "link is zero" ELSE panicked
          /\ UNCHANGED <<din, disk>>
       \/ /\ Removable(j) /\ din[j].nlink >= 1
          /\ ents' = [ents EXCEPT ![valid[i]] = DirErase(valid[i], LastName(p))]
          /\ din' = [din EXCEPT ![i] = parent, ![j] = child]
          /\ dino' = [dino EXCEPT ![valid[i]] = parent, ![valid[j]] = child]
          /\ Logged(None)
    /\ SysUnlink(p, <<Guard(j), Ref(j)>>)
    /\ UNCHANGED <<menu, inum, refs, valid, cwd, file, inop, asserted>>

-----------------------------------------------------------------------------
(***************************************************************************)
(* sys_link.                                                               *)
(***************************************************************************)

(* The data of slot i with d more links, in the cache and on the disk. *)
Relink(i, n) ==
    /\ din' = [din EXCEPT ![i].nlink = n]
    /\ dino' = [dino EXCEPT ![valid[i]] = din'[i]]

(* Fault: the old inode stays locked while the new name is looked for. *)
KeepOldLocked(i) == <<>>

(* sys_link: drop(old_idata). *)
UnlockOld(i) == <<Guard(i)>>

(* The old inode: a directory is refused, after end_op; otherwise its link *)
(* count goes up before the new name is looked for.                        *)
LinkOld(p) ==
    LET i == cur[p] IN
    /\ Running(p, "link")
    /\ \/ /\ din[i].itype = "Directory"
          /\ Return(p, <<EndOp, Guard(i), Ref(i)>>)
          /\ UNCHANGED <<din, dino, panicked>>
       \/ /\ din[i].itype # "Directory"
          /\ Relink(i, din[i].nlink + 1)
          /\ Logged(None)
          /\ old' = [old EXCEPT ![p] = i]
          /\ cur' = [cur EXCEPT ![p] = 0]
          /\ path' = [path EXCEPT ![p] = call[p].newpath]
          /\ Dropping(p, UnlockOld(i))
          /\ Goto(p, "start")
          /\ UNCHANGED <<ino, call, fresh>>
    /\ UNCHANGED <<menu, inum, refs, valid, ents, cwd, file, inop, asserted>>

(* The new directory is locked: dir_link, which fails if the name exists   *)
(* and drops the handle that its dir_lookup has got.                       *)
LinkNew(p) ==
    LET i == cur[p]
        n == DirLookup(valid[i], LastName(p))
    IN
    /\ Running(p, "linking")
    /\ \/ /\ n # 0
          /\ Get(n)
          /\ Dropping(p, <<Ref(GetSlot(n))>>)
          /\ Goto(p, "revert")
          /\ UNCHANGED <<ents, cur, ino, old, path, call, fresh>>
       \/ /\ n = 0
          /\ UNCHANGED <<inum, refs>>
          /\ ents' = [ents EXCEPT ![valid[i]] =
                          DirLink(@, LastName(p), inum[old[p]])]
          /\ Logged(None)
          /\ Return(p, <<Guard(i), Ref(i), Ref(old[p]), EndOp>>)
    /\ UNCHANGED <<menu, valid, din, dino, cwd, file, inop, asserted>>

(* revert_link.  It ends the operation; if the new directory was found, it *)
(* is unlocked and dropped afterwards.                                     *)
RevertLink(p) ==
    LET j == old[p]
        dir == IF cur[p] = 0 THEN <<>> ELSE <<Guard(cur[p]), Ref(cur[p])>>
    IN
    /\ Running(p, "reverting")
    /\ Relink(j, din[j].nlink - 1)
    /\ Logged(None)
    /\ Return(p, <<Guard(j), Ref(j), EndOp>> \o dir)
    /\ UNCHANGED <<menu, inum, refs, valid, ents, cwd, file, inop, asserted>>

-----------------------------------------------------------------------------
(***************************************************************************)
(* History.  The code lets three things happen that its comments rule out; *)
(* the properties below say what holds until, and what is all that then    *)
(* goes wrong.                                                             *)
(***************************************************************************)

(* Process q has freed an inode and not given up its slot i. *)
Freeing(q, i) == drops[q] # <<>> /\ Head(drops[q]) = Deref(i)

(* inode_alloc gives p an inode before the put that has freed it is over. *)
Reuses(p) == \E q \in Procs, i \in Slots :
                Freeing(q, i) /\ fresh[p] # inum[i] /\ fresh'[p] = inum[i]

(* In a directory without links p follows an entry to what has no links,   *)
(* or makes an entry.                                                      *)
Haunts(p) == /\ drops[p] = <<>> /\ pc[p] \in {"look", "fill", "linking"}
             /\ din[cur[p]].nlink = 0
             /\ \/ pc'[p] = "walk" /\ dino[inum'[cur'[p]]].nlink = 0
                \/ ents' # ents

(* p has ended the operation and still has a handle to drop. *)
EndsEarly(p) == /\ drops[p] # <<>> /\ Head(drops[p]) = EndOp
                /\ drops'[p] # <<>> /\ Head(drops'[p]) # BeginOp

Remember(p) ==
    /\ slips' = slips \cup (IF Reuses(p) THEN {"reuse"} ELSE {})
                     \cup (IF Haunts(p) THEN {"haunt"} ELSE {})
    /\ late' = IF EndsEarly(p) THEN late \cup {p}
               ELSE IF drops'[p] = <<>> THEN late \ {p} ELSE late

-----------------------------------------------------------------------------
Step(p) == \/ \E c \in menu : Enter(p, c)
           \/ SysClose(p) \/ CloseFiles(p)
           \/ Put(p) \/ PutTruncate(p) \/ PutDeref(p) \/ DropGuard(p) \/ DropOp(p)
           \/ Lock(p)
           \/ NamexStart(p) \/ NamexEnd(p) \/ NamexLook(p)
           \/ CreateLook(p) \/ InodeAlloc(p) \/ CreateGet(p) \/ CreateFill(p)
           \/ SysMkdir(p) \/ SysMknod(p) \/ Opened(p) \/ SysChdir(p)
           \/ DirUnlinkLook(p) \/ DirUnlink(p)
           \/ LinkOld(p) \/ LinkNew(p) \/ RevertLink(p)

Next == \E p \in Procs : Step(p) /\ Remember(p)

Spec == Init /\ [][Next]_vars

-----------------------------------------------------------------------------
(***************************************************************************)
(* Properties.                                                             *)
(***************************************************************************)

(* Entries that count for inode n: those of linked directories, without    *)
(* the "." of a directory.                                                 *)
Counts(d, k, n) == /\ dino[d].itype = "Directory" /\ dino[d].nlink > 0
                   /\ k <= Len(ents[d])
                   /\ ents[d][k].inum = n /\ ents[d][k].name # Dot
Naming(n) == {e \in Inums \X (1 .. NINUM + 3) : Counts(e[1], e[2], n)}

(* sys_link has counted a link that is not in a directory yet. *)
Pending(n) == {p \in Procs : old[p] # 0 /\ inum[old[p]] = n}

(* "硬链接计数，表示该 inode 被多少个目录项引用" (the link count is the      *)
(* number of entries that refer to the inode), but for links under way; no *)
(* entry names an empty inode.  Counts and entries change in different     *)
(* steps, under different locks, and link takes its count back on failure. *)
(* It holds until a removed directory or a reused inode is used.           *)
LinksCounted ==
    panicked = None /\ slips = {} =>
        \A n \in Inums : (\A p \in Procs : fresh[p] # n) =>
            dino[n].nlink = Cardinality(Naming(n)) + Cardinality(Pending(n))

(* Handles to slot i: in variables, and among what is still to be dropped. *)
Held(i) == {h \in Procs \X (1 .. 5) :
               <<cur, ino, old, cwd, file>>[h[2]][h[1]] = i}
Queued(p, k, i) == /\ k <= Len(drops[p])
                   /\ drops[p][k].i = i
                   /\ drops[p][k].k \in {"ref", "trunc", "deref"}
Dropped(i) == {h \in Procs \X (1 .. 8) : Queued(h[1], h[2], i)}
(* refs is the number of handles to a slot, counting those that are about  *)
(* to be dropped: nothing leaks on the many early returns, and a slot is   *)
(* never recycled under a handle.                                          *)
RefsCounted ==
    \A i \in Slots : refs[i] = Cardinality(Held(i)) + Cardinality(Dropped(i))

(* A slot in use is the only one of its inode.  Data marked valid is that  *)
(* of the slot's inode and agrees with the disk, unless an inode was       *)
(* reused while put was freeing it.                                        *)
CachedIsCurrent ==
    panicked = None /\ "reuse" \notin slips =>
        \A i \in Slots : refs[i] > 0 =>
            /\ Holding(inum[i]) = {i}
            /\ valid[i] # 0 => valid[i] = inum[i] /\ din[i] = dino[inum[i]]

(* An inode without links stays on the disk only while somebody has a      *)
(* handle to it or is creating it: put frees it in the end, unless the     *)
(* inode was reused while put was freeing it.                              *)
NoOrphan ==
    panicked = None /\ "reuse" \notin slips =>
        \A n \in Inums : dino[n].itype # "Empty" /\ dino[n].nlink = 0 =>
            Holding(n) # {} \/ \E p \in Procs : fresh[p] = n

(* Whose lock p waits for. *)
WaitsFor(p) == IF Locking(p) THEN owner[LockTarget(p)]
               ELSE IF Drops(p, "ref") /\ refs[Head(drops[p]).i] = 1
                    THEN owner[Head(drops[p]).i] ELSE None

(* "引用计数为 1，因此这个锁不会阻塞" (the count is 1, so this lock does not *)
(* block): put, which holds a spin lock, never waits for a sleep lock.     *)
PutNeverWaits == \A p \in Procs : Drops(p, "ref") => WaitsFor(p) = None

(* Nobody waits for himself, and no two processes for each other, although *)
(* create, unlink and link each hold two inodes; and put does not wait.    *)
NoLockCycle ==
    /\ PutNeverWaits
    /\ \A p, q \in Procs : ~(WaitsFor(p) = q /\ WaitsFor(q) = p)

(* A put that is no longer inside of any operation writes to the log. *)
LateDrop == /\ panicked = "log"
            /\ \E p \in late : ~inop[p] /\ \E i \in Slots : Freeing(p, i)

(* The panics of the inode layer and of LOG.write stay silent, but where   *)
(* sys_link drops a handle after end_op, where the parent of a removed     *)
(* directory is gone, where an inode was reused too early (then it may be  *)
(* found empty, or without links, or with entries), and when the disk has  *)
(* no inode left.  So does put's debug_assert_eq!(refs, 0) but for such a  *)
(* parent or inode.                                                        *)
NoPanic ==
    /\ asserted => slips # {}
    /\ \/ panicked = None
       \/ LateDrop
       \/ "haunt" \in slips /\ panicked = "empty inode"
       \/ "reuse" \in slips /\ panicked \in {"empty inode", "link is zero", "dir link"}
       \/ panicked = "no inode" /\ \A n \in Inums : dino[n].itype # "Empty"
=============================================================================
