------------------------------ MODULE UserMem ------------------------------
(***************************************************************************)
(* The memory of processes: the frames that fork, exec, sbrk, page faults, *)
(* exit and wait take from the buddy allocator (Buddy) and give back, and  *)
(* the page tables that refer to them.                                     *)
(*                                                                         *)
(* An address space is a record of the frames it refers to: the trap       *)
(* frame, the shared system call page and the alarm frame of ProcData and  *)
(* ProcAlarm, the kernel stack and trap frame of its one Task, the page    *)
(* table and the user pages mapped by it.  User memory lies in the range   *)
(* of one lowest-level table, so that the table is its root, the tables    *)
(* below the root for the top of the address space (hi, one frame for both *)
(* levels) and for user memory (lo), and map, the user pages.              *)
(*                                                                         *)
(* space[p] is the address space of slot p and build[p] what a call of p   *)
(* is building or about to free: the child's space of a fork, the new and  *)
(* then the old table of an exec.  Each allocation of a call is a step of  *)
(* its own, since any of them can fail while other processors use the      *)
(* heap; what a call frees at one point it frees in one step.              *)
(***************************************************************************)
EXTENDS Buddy, Integers, SequencesExt

CONSTANTS Slots,        \* 1 .. NPROC; slot 1 runs init
          PAGE_SIZE,    \* units of user memory in a page
          MAX_PAGES,    \* pages of user memory addresses range over
          IMAGE,        \* pages of the program exec loads
          USTACK,       \* pages of the user stacks, the guard page first
          KCLASS,       \* size class of a kernel stack
          Increments,   \* arguments of sbrk
          Others,       \* frames that the rest of the system may hold
          MAX_OPS,      \* bound on the calls and faults of a behaviour
          MAX_KOBJ      \* bound on the other kernel objects alive at a time

ASSUME UserMemAssumption ==
    /\ Slots \in SUBSET (Nat \ {0}) /\ 1 \in Slots
    /\ {PAGE_SIZE, MAX_PAGES, IMAGE, USTACK} \subseteq Nat \ {0}
    /\ IMAGE + USTACK <= MAX_PAGES /\ USTACK >= 2
    /\ KCLASS \in Classes /\ Increments \subseteq Int
    /\ {MAX_OPS, MAX_KOBJ} \cup Others \subseteq Nat

VARIABLES heap,      \* the buddy system
          space,     \* the address space of each slot
          build,     \* the address space a call is working on
          state,     \* UNUSED, ALLOCATED, LIVE or ZOMBIE
          killed,
          call,      \* where the call of each slot is, and its locals
          kobj,      \* other objects on the kernel heap
          lost,      \* blocks that nothing here refers to, and why
          panicked,  \* what the kernel panicked about
          ops

vars == <<heap, space, build, state, killed, call, kobj, lost, panicked, ops>>

Null == End             \* no frame: an address outside the heap
Pages == 0 .. MAX_PAGES - 1

NoSpace == [tf |-> Null, up |-> Null, af |-> Null, root |-> Null, hi |-> Null, lo |-> Null,
            map |-> <<>>, guard |-> {}, size |-> 0, ks |-> Null, ttf |-> Null, mem |-> Null,
            arg |-> Null]
Idle == [at |-> "user", kind |-> "none", child |-> 1, from |-> 0, to |-> 0]

pg_round_up(n) == (n + PAGE_SIZE - 1) \div PAGE_SIZE

-----------------------------------------------------------------------------
(* Giving back a sequence of blocks of class k.  A block that dealloc      *)
(* refuses makes the kernel panic.                                         *)
Freed(s, k) ==
    FoldLeft(LAMBDA r, a : IF CanDealloc(r.heap, a, k) THEN [r EXCEPT !.heap = Dealloc(r.heap, a)]
                           ELSE [r EXCEPT !.bad = TRUE],
             [heap |-> heap, bad |-> FALSE], s)
FreeBlocksOf(s, k) == /\ heap' = Freed(s, k).heap
                      /\ panicked' = IF Freed(s, k).bad THEN "dealloc" ELSE "no"
Free(s) == FreeBlocksOf(s, 0)

(* Fault: cleanup without its tests for null. *)
HeldUnchecked(s) == s

(* The frames of a cleanup that are not null. *)
Held(s) == SelectSeq(s, LAMBDA f : f # Null)

(* uvm_unmap from page a to page b - 1: it returns at the first page that  *)
(* is not mapped.                                                          *)
Unmapped(m, a, b) == {v \in a .. b - 1 : \A w \in a .. v : w \in DOMAIN m}
FramesOf(m, vs) == [i \in 1 .. Cardinality(vs) |-> m[SetToSortSeq(vs, LAMBDA x, y : x < y)[i]]]

Without(m, vs) == [v \in DOMAIN m \ vs |-> m[v]]

(* Drop for PageTable: the tables below the root, then the root.  The      *)
(* frames of pages that are still mapped are not freed.                    *)
Tables(s) == Held(<<s.lo, s.hi, s.root>>)

(* dealloc_proc_pagetable and the drop of the table. *)
TableFrames(s) == FramesOf(s.map, Unmapped(s.map, 0, pg_round_up(s.size))) \o Tables(s)
LostPages(s) == {<<s.map[v], 0, "page">> :
                    v \in {w \in DOMAIN s.map \ Unmapped(s.map, 0, pg_round_up(s.size)) :
                              s.map[w] # Null}}
LostTask(s) == {<<s.ks, KCLASS, "task">>, <<s.ttf, 0, "task">>}

-----------------------------------------------------------------------------
(* Boot: user_init takes the frames of the first process one by one:       *)
(* alloc_proc, uvm_init (one page of initcode), Task::new.                 *)
BootFields == <<"tf", "up", "af", "root", "hi", "mem", "lo", "ks", "ttf">>
Boot ==
    FoldLeft(LAMBDA r, f : LET k == IF f = "ks" THEN KCLASS ELSE 0
                           IN [heap |-> Alloc(r.heap, k), s |-> [r.s EXCEPT ![f] = AllocAddr(r.heap, k)]],
             [heap |-> InitHeap, s |-> NoSpace], BootFields)

(* The heap when the rest of the system has taken a frame n times. *)
Taken(n) == FoldLeft(LAMBDA r, i : [heap |-> Alloc(r.heap, 0),
                                    held |-> r.held \cup {<<AllocAddr(r.heap, 0), 0, "others">>}],
                     [heap |-> Boot.heap, held |-> {}], [i \in 1 .. n |-> i])

Init ==
    /\ \E n \in Others : heap = Taken(n).heap /\ lost = Taken(n).held
    /\ space = [p \in Slots |-> IF p = 1 THEN [Boot.s EXCEPT !.map = (0 :> Boot.s.mem), !.mem = Null,
                                                            !.size = PAGE_SIZE]
                                ELSE NoSpace]
    /\ build = [p \in Slots |-> NoSpace]
    /\ state = [p \in Slots |-> IF p = 1 THEN "LIVE" ELSE "UNUSED"]
    /\ killed = [p \in Slots |-> FALSE]
    /\ call = [p \in Slots |-> Idle]
    /\ kobj = {} /\ panicked = "no" /\ ops = 0

At(p, at) == panicked = "no" /\ call[p].at = at
Goto(p, at) == call' = [call EXCEPT ![p].at = at]
Return(p) == call' = [call EXCEPT ![p] = Idle]

(* A process that executes user code; a system call first looks at killed. *)
User(p) == At(p, "user") /\ state[p] = "LIVE" /\ ops < MAX_OPS /\ ops' = ops + 1
Syscall(p) == User(p) /\ ~killed[p]

(* An allocation: Take when it succeeds, Fail when alloc returns null. *)
Take(k) == CanAlloc(heap, k) /\ heap' = Alloc(heap, k)
Fail(k) == ~CanAlloc(heap, k)

-----------------------------------------------------------------------------
(* fork: the first UNUSED slot; its excl lock, and then the state          *)
(* ALLOCATED, keep others away from it.                                    *)
Fork(p) ==
    LET unused == {c \in Slots : state[c] = "UNUSED"}
    IN /\ Syscall(p) /\ unused # {}
       /\ state' = [state EXCEPT ![Min(unused)] = "ALLOCATED"]
       /\ call' = [call EXCEPT ![p] = [at |-> "tf", kind |-> "fork", child |-> Min(unused), from |-> 0,
                                       to |-> pg_round_up(space[p].size)]]
       /\ UNCHANGED <<heap, space, build, killed, kobj, lost, panicked>>

(* find_pa: page v is mapped, and for the user.                            *)
UserPage(s, v) == v \in DOMAIN s.map /\ v \notin s.guard

(* The pages copy_in and copy_out look up for count units at an address:   *)
(* when the buffer ends at the end of a page, the next page as well.       *)
LookedUp(addr, count) == addr \div PAGE_SIZE .. (addr + count) \div PAGE_SIZE
CopyIn(s, src, count) == \A v \in LookedUp(src, count) : UserPage(s, v)

(* fetch_addr of a pointer (a unit), copy_in_str of a string within a page. *)
FetchAddr(s, addr) == addr + 1 <= s.size /\ CopyIn(s, addr, 1)
CopyInStr(s, addr) == UserPage(s, addr \div PAGE_SIZE)
Addresses == 0 .. MAX_PAGES * PAGE_SIZE - 1

(* sys_exec: first the argument vector, here of one argument at most.  The *)
(* string is copied to a box on the kernel heap, dropped when sys_exec     *)
(* returns.                                                                *)
Exec(p) ==
    /\ Syscall(p)
    /\ call' = [call EXCEPT ![p] = [at |-> "argv", kind |-> "exec", child |-> p, from |-> 0, to |-> IMAGE]]
    /\ UNCHANGED <<heap, space, build, state, killed, kobj, lost, panicked>>
FetchArg(p) ==
    /\ At(p, "argv") /\ (\E a \in Addresses : FetchAddr(space[p], a)) /\ Take(0)
    /\ build' = [build EXCEPT ![p].arg = AllocAddr(heap, 0)]
    /\ Goto(p, "str")
    /\ UNCHANGED <<space, state, killed, kobj, lost, panicked, ops>>

(* elf::load starts: the vector has ended or the string is copied, and the *)
(* file is found and is a program.  It begins with a new page table.       *)
Load(p) ==
    /\ \/ At(p, "argv") /\ \E a \in Addresses : FetchAddr(space[p], a)
       \/ At(p, "str") /\ \E a \in Addresses : CopyInStr(space[p], a)
    /\ Goto(p, "root")
    /\ UNCHANGED <<heap, space, build, state, killed, kobj, lost, panicked, ops>>

(* ... or the vector, the string or the file is refused, or there is no    *)
(* memory for the box.                                                     *)
ExecRefused(p) ==
    /\ \/ At(p, "argv") /\ Fail(0)
       \/ At(p, "argv") \/ At(p, "str")
    /\ Free(Held(<<build[p].arg>>))
    /\ build' = [build EXCEPT ![p] = NoSpace]
    /\ Return(p)
    /\ UNCHANGED <<space, state, killed, kobj, lost, ops>>

(* alloc_proc and alloc_proc_pagetable, a frame at a time. *)
Fields == <<"tf", "up", "af", "root", "hi", "page">>
After(f) == Fields[1 + CHOOSE i \in 1 .. 5 : Fields[i] = f]
AllocFrame(p) ==
    \E f \in {"tf", "up", "af", "root", "hi"} :
        /\ At(p, f) /\ Take(0)
        /\ build' = [build EXCEPT ![p][f] = AllocAddr(heap, 0)]
        /\ Goto(p, After(f))
        /\ UNCHANGED <<space, state, killed, kobj, lost, panicked, ops>>

(* ... and out of memory.  A table that was begun is dropped.  alloc_proc  *)
(* frees the trap frame when there is no table; the other frames, and all  *)
(* of them when one of the first three is missing, stay behind in the      *)
(* slot, which is still UNUSED: the next alloc_proc overwrites them.       *)
AllocFail(p) ==
    LET b == build[p]
        orphans == IF call[p].at \in {"root", "hi"} THEN <<b.up, b.af>> ELSE <<b.tf, b.up>>
        dropped == IF call[p].at \in {"root", "hi"} THEN <<b.root, b.tf, b.arg>> ELSE <<>>
    IN /\ \E f \in {"tf", "up", "af", "root", "hi"} : At(p, f)
       /\ Fail(0) /\ Free(Held(dropped))
       /\ lost' = lost \cup {<<Held(orphans)[i], 0, "alloc_proc">> : i \in 1 .. Len(Held(orphans))}
       /\ state' = [state EXCEPT ![call[p].child] = IF call[p].kind = "fork" THEN "UNUSED" ELSE @]
       /\ build' = [build EXCEPT ![p] = NoSpace]
       /\ Return(p)
       /\ UNCHANGED <<space, killed, kobj, ops>>

-----------------------------------------------------------------------------
(* The loops of uvm_copy (fork) and uvm_alloc (exec) over the pages from   *)
(* .. to - 1, of which those below next are done.                          *)
NextPage(p) == CHOOSE v \in call[p].from .. call[p].to : 
                  v \notin DOMAIN build[p].map /\ \A w \in call[p].from .. v - 1 : w \in DOMAIN build[p].map
Going(p) == At(p, "page") /\ NextPage(p) < call[p].to

(* try_clone of a page of the parent, or a zeroed page for exec. *)
Source(p) == call[p].kind = "fork" => NextPage(p) \in DOMAIN space[p].map
TakePage(p) ==
    /\ Going(p) /\ Source(p) /\ Take(0)
    /\ build' = [build EXCEPT ![p].mem = AllocAddr(heap, 0)]
    /\ Goto(p, "map")
    /\ UNCHANGED <<space, state, killed, kobj, lost, panicked, ops>>

(* map_pages: the lowest table is allocated when it is missing.  The page  *)
(* of a child keeps its permissions (read_perm).                           *)
MapPage(p) ==
    LET fresh == build[p].lo = Null
    IN /\ At(p, "map")
       /\ IF fresh THEN Take(0) ELSE UNCHANGED heap
       /\ build' = [build EXCEPT ![p].map = (NextPage(p) :> build[p].mem) @@ @,
                                 ![p].lo = IF fresh THEN AllocAddr(heap, 0) ELSE @,
                                 ![p].guard = IF call[p].kind = "fork"
                                              THEN @ \cup (space[p].guard \cap {NextPage(p)}) ELSE @,
                                 ![p].mem = Null]
       /\ Goto(p, "page")
       /\ UNCHANGED <<space, state, killed, kobj, lost, panicked, ops>>

(* Everything a failing call has built is freed.  uvm_copy frees the page  *)
(* it could not map, then fork cleans the child up (its size is still 0);  *)
(* uvm_alloc frees the pages of its own range and load the rest.           *)
Discard(p) ==
    LET b == build[p]
        own == {v \in DOMAIN b.map : v >= call[p].from}
    IN /\ Free(Held(<<b.mem, b.tf, b.up>> \o FramesOf(b.map, own) \o FramesOf(b.map, DOMAIN b.map \ own)
                    \o Tables(b) \o <<b.af, b.arg>>))
       /\ build' = [build EXCEPT ![p] = NoSpace]
       /\ state' = [state EXCEPT ![call[p].child] = IF call[p].kind = "fork" THEN "UNUSED" ELSE @]
       /\ Return(p)
       /\ UNCHANGED <<space, killed, kobj, lost, ops>>

(* uvm_copy ends: after the last page, at a page the parent has not        *)
(* mapped, or when there is no memory for the copy; it returns Ok in all   *)
(* three cases.  It fails if the parent has no table for user memory.      *)
Copied(p) == /\ Goto(p, "ks")
             /\ build' = [build EXCEPT ![p].size = space[p].size]
             /\ UNCHANGED <<heap, space, state, killed, kobj, lost, panicked, ops>>
CopyEnds(p) ==
    /\ call[p].kind = "fork" /\ At(p, "page") /\ (NextPage(p) = call[p].to \/ ~Source(p))
    /\ IF Going(p) /\ space[p].lo = Null THEN Discard(p) ELSE Copied(p)
CopyStops(p) == call[p].kind = "fork" /\ Going(p) /\ Source(p) /\ Fail(0) /\ Copied(p)

(* map_pages or uvm_alloc finds no memory. *)
MapFail(p) == At(p, "map") /\ build[p].lo = Null /\ Fail(0) /\ Discard(p)
PageFail(p) == call[p].kind = "exec" /\ Going(p) /\ Fail(0) /\ Discard(p)

-----------------------------------------------------------------------------
(* exec, the segments allocated: they are read from the file, then the     *)
(* user stacks are allocated; or the file cannot be read.                  *)
AllPages(p) == call[p].kind = "exec" /\ At(p, "page") /\ NextPage(p) = call[p].to
Loaded(p) ==
    /\ AllPages(p) /\ call[p].from = 0
    /\ call' = [call EXCEPT ![p].from = IMAGE, ![p].to = IMAGE + USTACK]
    /\ UNCHANGED <<heap, space, build, state, killed, kobj, lost, panicked, ops>>
LoadFail(p) == AllPages(p) /\ call[p].from = 0 /\ Discard(p)

(* copy_out, unlike copy_in, panics when a page is missing. *)
CopyPanics(s, dst, count) == count > 0 /\ \E v \in LookedUp(dst, count) : ~UserPage(s, v)

(* uvm_clear: a page is closed to the user. *)
UvmClear(s, v) == [s EXCEPT !.guard = @ \cup {v}]

(* exec, the stacks allocated: the guard page is closed to the user and    *)
(* the arguments are copied out to the stack page behind it; they may not  *)
(* fit, or end exactly at its end.  Then the tasks of the process are      *)
(* dropped (their frames are not freed) and the tables are exchanged.      *)
ArgsFail(p) == AllPages(p) /\ call[p].from = IMAGE /\ Discard(p)
Commit(p) ==
    LET b == UvmClear([build[p] EXCEPT !.size = (IMAGE + USTACK) * PAGE_SIZE, !.arg = Null], IMAGE)
        s == space[p]
    IN \E count \in 1 .. PAGE_SIZE :
        /\ AllPages(p) /\ call[p].from = IMAGE
        /\ panicked' = IF CopyPanics(b, (IMAGE + 1) * PAGE_SIZE, count) THEN "copy_out" ELSE "no"
        /\ space' = [space EXCEPT ![p] = [b EXCEPT !.tf = s.tf, !.up = s.up, !.af = s.af]]
        /\ build' = [build EXCEPT ![p] = [s EXCEPT !.tf = Null, !.up = Null, !.af = Null,
                                                   !.ks = Null, !.ttf = Null, !.arg = build[p].arg]]
        /\ lost' = lost \cup LostTask(s)
        /\ Goto(p, "ks")
        /\ UNCHANGED <<heap, state, killed, kobj, ops>>

(* Task::from and Task::new: a kernel stack and a trap frame for the task; *)
(* without memory the kernel panics.                                       *)
TaskFrame(p, f, k, next) ==
    /\ At(p, f)
    /\ \/ /\ Take(k) /\ UNCHANGED panicked
          /\ IF call[p].kind = "fork"
             THEN build' = [build EXCEPT ![p][f] = AllocAddr(heap, k)] /\ UNCHANGED space
             ELSE space' = [space EXCEPT ![p][f] = AllocAddr(heap, k)] /\ UNCHANGED build
       \/ Fail(k) /\ panicked' = "task" /\ UNCHANGED <<heap, space, build>>
    /\ Goto(p, next)
    /\ UNCHANGED <<state, killed, kobj, lost, ops>>
TaskStack(p) == TaskFrame(p, "ks", KCLASS, "ttf")
TaskTrapframe(p) == TaskFrame(p, "ttf", 0, "end")

(* fork returns: the child runs.  exec returns: the old table is freed. *)
ForkReturn(p) ==
    /\ call[p].kind = "fork" /\ At(p, "end")
    /\ space' = [space EXCEPT ![call[p].child] = build[p]]
    /\ state' = [state EXCEPT ![call[p].child] = "LIVE"]
    /\ build' = [build EXCEPT ![p] = NoSpace]
    /\ Return(p)
    /\ UNCHANGED <<heap, killed, kobj, lost, panicked, ops>>
ExecReturn(p) ==
    /\ call[p].kind = "exec" /\ At(p, "end")
    /\ Free(TableFrames(build[p]) \o Held(<<build[p].arg>>))
    /\ lost' = lost \cup LostPages(build[p])
    /\ build' = [build EXCEPT ![p] = NoSpace]
    /\ Return(p)
    /\ UNCHANGED <<space, state, killed, kobj, ops>>

-----------------------------------------------------------------------------
(* sbrk: growing only changes the size; shrinking frees (uvm_dealloc).     *)
(* The subtraction overflows below zero.                                   *)
Sbrk(p) ==
    \E n \in Increments :
        LET size == space[p].size + n
            gone == IF n < 0 THEN Unmapped(space[p].map, pg_round_up(size), pg_round_up(space[p].size))
                    ELSE {}
        IN /\ Syscall(p) /\ pg_round_up(size) <= MAX_PAGES
           /\ \/ /\ size >= 0
                 /\ Free(FramesOf(space[p].map, gone))
                 /\ space' = [space EXCEPT ![p].size = size, ![p].map = Without(@, gone),
                                          ![p].guard = @ \ gone]
              \/ size < 0 /\ panicked' = "sbrk" /\ UNCHANGED <<heap, space>>
           /\ UNCHANGED <<build, state, killed, call, kobj, lost>>

(* user_trap, a page fault on a page that is not mapped or closed to the   *)
(* user: a page is allocated, whatever the size of the process.  Without   *)
(* memory the process is killed, and goes on with address 0.               *)
PageFault(p) ==
    \E v \in Pages :
        /\ User(p) /\ ~UserPage(space[p], v)
        /\ \/ /\ Take(0) /\ UNCHANGED killed
              /\ build' = [build EXCEPT ![p].mem = AllocAddr(heap, 0)]
           \/ /\ Fail(0) /\ killed' = [killed EXCEPT ![p] = TRUE]
              /\ UNCHANGED <<heap, build>>
        /\ call' = [call EXCEPT ![p].at = "fault", ![p].from = v]
        /\ UNCHANGED <<space, state, kobj, lost, panicked>>

(* Then map_pages, whose result nobody looks at: the lowest table is       *)
(* allocated when it is missing.  If there is no memory for it, or the     *)
(* page was mapped already, the new page is forgotten.                     *)
FaultMap(p) ==
    LET v == call[p].from
        frame == build[p].mem
        remap == v \in DOMAIN space[p].map
        fresh == space[p].lo = Null
    IN /\ At(p, "fault")
       /\ \/ /\ ~remap /\ (IF fresh THEN Take(0) ELSE UNCHANGED heap)
             /\ space' = [space EXCEPT ![p].map = @ @@ (v :> frame),
                                      ![p].lo = IF fresh THEN AllocAddr(heap, 0) ELSE @]
             /\ UNCHANGED lost
          \/ /\ remap \/ (fresh /\ Fail(0))
             /\ lost' = lost \cup {<<Held(<<frame>>)[i], 0, "fault">> : i \in 1 .. Len(Held(<<frame>>))}
             /\ UNCHANGED <<heap, space>>
       /\ build' = [build EXCEPT ![p].mem = Null]
       /\ Return(p)
       /\ UNCHANGED <<state, killed, kobj, panicked, ops>>

(* A system call copies a result out to the user's buffer (copy_out). *)
CopyOut(p) ==
    \E v \in Pages, count \in {1, PAGE_SIZE} :
        /\ Syscall(p) /\ v * PAGE_SIZE + count <= space[p].size
        /\ panicked' = IF CopyPanics(space[p], v * PAGE_SIZE, count) THEN "copy_out" ELSE "no"
        /\ UNCHANGED <<heap, space, build, state, killed, call, kobj, lost>>

(* exiting: the tasks are dropped. *)
Exit(p) ==
    /\ p # 1 /\ At(p, "user") /\ state[p] = "LIVE"
    /\ state' = [state EXCEPT ![p] = "ZOMBIE"]
    /\ lost' = lost \cup LostTask(space[p])
    /\ space' = [space EXCEPT ![p].ks = Null, ![p].ttf = Null]
    /\ UNCHANGED <<heap, build, killed, call, kobj, panicked, ops>>

(* ProcAlarm::cleanup. *)
AlarmFrame(s) == Held(<<s.af>>)

(* ProcData::cleanup, and after waiting also ProcAlarm::cleanup, which     *)
(* waiting_pid leaves out.                                                 *)
Cleanup(p, alarm) ==
    LET s == space[p]
    IN /\ Free(<<s.tf, s.up>> \o TableFrames(s) \o (IF alarm THEN AlarmFrame(s) ELSE <<>>))
       /\ lost' = lost \cup LostPages(s) \cup (IF alarm THEN {} ELSE {<<s.af, 0, "waitpid">>})
       /\ space' = [space EXCEPT ![p] = IF panicked' = "no" THEN NoSpace ELSE @]
Wait(p, alarm) ==
    \E c \in Slots :
        /\ At(p, "user") /\ state[p] = "LIVE" /\ ~killed[p]
        /\ state[c] = "ZOMBIE" /\ c # p
        /\ Cleanup(c, alarm)
        /\ state' = [state EXCEPT ![c] = "UNUSED"]
        /\ killed' = [killed EXCEPT ![c] = FALSE]
        /\ UNCHANGED <<build, call, kobj, ops>>
Waiting(p) == Wait(p, TRUE)
WaitingPid(p) == Wait(p, FALSE)

(* Pipes, files and other boxes come and go on the same heap. *)
KernelAlloc ==
    \E k \in 0 .. 1 :
        /\ panicked = "no" /\ Cardinality(kobj) < MAX_KOBJ /\ Take(k)
        /\ ops < MAX_OPS /\ ops' = ops + 1
        /\ kobj' = kobj \cup {<<AllocAddr(heap, k), k>>}
        /\ UNCHANGED <<space, build, state, killed, call, lost, panicked>>
KernelFree ==
    \E o \in kobj :
        /\ panicked = "no" /\ FreeBlocksOf(<<o[1]>>, o[2])
        /\ kobj' = kobj \ {o}
        /\ UNCHANGED <<space, build, state, killed, call, lost, ops>>

Next ==
    \/ KernelAlloc \/ KernelFree
    \/ \E p \in Slots :
         \/ Fork(p) \/ Exec(p) \/ FetchArg(p) \/ Load(p) \/ ExecRefused(p) \/ AllocFrame(p) \/ AllocFail(p)
         \/ TakePage(p) \/ MapPage(p) \/ CopyEnds(p) \/ CopyStops(p) \/ MapFail(p) \/ PageFail(p)
         \/ Loaded(p) \/ LoadFail(p) \/ ArgsFail(p) \/ Commit(p)
         \/ TaskStack(p) \/ TaskTrapframe(p) \/ ForkReturn(p) \/ ExecReturn(p)
         \/ Sbrk(p) \/ PageFault(p) \/ FaultMap(p) \/ CopyOut(p) \/ Exit(p) \/ Waiting(p) \/ WaitingPid(p)

Spec == Init /\ [][Next]_vars

-----------------------------------------------------------------------------
(* Every reference to a block, with its place: what the address spaces,    *)
(* the calls in progress and the rest of the kernel hold.                  *)
Single == {"tf", "up", "af", "root", "hi", "lo", "ttf", "mem", "arg"}
References(s) ==
    {r \in {<<f, 0, s[f], 0>> : f \in Single} \cup {<<"ks", 0, s.ks, KCLASS>>}
           \cup {<<"map", v, s.map[v], 0>> : v \in DOMAIN s.map} : r[3] # Null}
AllReferences ==
    UNION {{<<"space", p>> \o r : r \in References(space[p])} : p \in Slots}
      \cup UNION {{<<"build", p>> \o r : r \in References(build[p])} : p \in Slots}
      \cup {<<"kobj", 0, "kobj", 0, o[1], o[2]>> : o \in kobj}
      \cup {<<"lost", 0, l[3], 0, l[1], l[2]>> : l \in lost}
Block(r) == <<r[5], r[6]>>

(* The allocator and its users agree on every block of memory: the blocks  *)
(* on the free lists and the blocks that are referred to (or were lost at  *)
(* one of the places the code is known to lose them) cover the heap once,  *)
(* and free buddies have been merged.  A path of fork, exec, sbrk, a fault *)
(* or wait that forgets a frame, or a split or merge gone wrong at an end  *)
(* of the heap, would break it.  No frame is referred to from two places:  *)
(* what fork copies, exec replaces and a fault maps is private, and a      *)
(* freed frame is not mapped.                                              *)
HeapSound ==
    panicked = "no" =>
        /\ Sound(heap, {Block(r) : r \in AllReferences})
        /\ Cardinality({r[5] : r \in AllReferences}) = Cardinality(AllReferences)

(* No block is freed twice, with a foreign address or as null, whatever    *)
(* the order of forks, execs, faults, shrinking and waits and wherever     *)
(* memory runs out ("子进程资源清理确保不产生内存泄漏和悬挂指针": the cleanup  *)
(* leaves no dangling pointers), but for the page of a process that a      *)
(* fault without memory has mapped to address 0: waiting for that process  *)
(* frees it.                                                               *)
FreesOnce == panicked = "dealloc" =>
    \E c \in Slots : Null \in {space[c].map[v] : v \in DOMAIN space[c].map}
=============================================================================
