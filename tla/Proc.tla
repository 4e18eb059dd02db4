-------------------------------- MODULE Proc --------------------------------
(***************************************************************************)
(* Processes and scheduling: the process table, the per-process lock excl, *)
(* the parent map, the ready queue PROCFIFO and the CPUs of                *)
(* kernel/src/process/{mod,cpu}.rs and process/proc/{mod,manager,pid}.rs.  *)
(*                                                                         *)
(* A step is one critical section.  The locks that are held from one step  *)
(* to the next are explicit: excl across a context switch, the parent map  *)
(* through exiting() and waiting(), TICKS through clock_intr() and         *)
(* clock_sleep().  A process that holds a lock runs with interrupts off    *)
(* and is not preempted.                                                   *)
(***************************************************************************)
EXTENDS Naturals, Sequences, FiniteSets

CONSTANTS CPUs,
          NPROC,     \* slots of the process table; slot 0 is init
          MaxPid,    \* bound on fresh pids
          Killers    \* slots whose process may call kill

ASSUME ProcAssumption == /\ NPROC \in Nat \ {0}
                         /\ MaxPid \in Nat \ {0}
                         /\ Killers \subseteq 0 .. (NPROC - 1)

VARIABLES state,     \* ProcExcl.state of each slot
          chan,      \* ProcExcl.channel
          pid,       \* ProcExcl.pid, 0 when unused
          killed,    \* Process.killed
          parent,    \* ProcManager.parents
          excl,      \* slots whose excl lock is held across a switch
          parentsLk, \* slot whose process holds the lock of the parent map
          fifo,      \* PROCFIFO.ready_queue
          cpu,       \* per CPU: at = where its loop is, proc = Cpu.process
          kpc,       \* where each process is in the kernel
          child,     \* the slot fork() is setting up, for each process
          ticksLk,   \* slot whose process holds TICKS
          tick,      \* next slot clock_intr() will wake, NPROC when not running
          current,   \* PID_ALLOCATOR.current
          recycled   \* PID_ALLOCATOR.recycled, a stack

excls == <<state, chan, pid>>
locks == <<excl, parentsLk, ticksLk>>
pids == <<current, recycled>>
vars == <<state, chan, pid, killed, parent, excl, parentsLk, fifo, cpu, kpc,
          child, ticksLk, tick, current, recycled>>

Slots == 0 .. (NPROC - 1)
None == NPROC                 \* no slot, and no channel
TICKS == NPROC + 1            \* the channel of clock_sleep
States == {"UNUSED", "SLEEPING", "RUNNABLE", "RUNNING", "ALLOCATED", "ZOMBIE"}

Least(S) == CHOOSE s \in S : \A t \in S : s <= t
Queued == {fifo[i] : i \in 1 .. Len(fifo)}

(* user_init: init is allocated with pid 0 and queued; nobody runs yet. *)
Init == /\ state = [s \in Slots |-> IF s = 0 THEN "RUNNABLE" ELSE "UNUSED"]
        /\ chan = [s \in Slots |-> None]
        /\ pid = [s \in Slots |-> 0]
        /\ killed = [s \in Slots |-> FALSE]
        /\ parent = [s \in Slots |-> None]
        /\ excl = {}
        /\ parentsLk = None
        /\ fifo = <<0>>
        /\ cpu = [c \in CPUs |-> [at |-> "idle", proc |-> None]]
        /\ kpc = [s \in Slots |-> "user"]
        /\ child = [s \in Slots |-> None]
        /\ ticksLk = None
        /\ tick = NPROC
        /\ current = 1
        /\ recycled = <<>>

(* Fault: the queue is a stack. *)
EnqueueFront(q, s) == <<s>> \o q

(* PROCFIFO.add. *)
Enqueue(q, s) == Append(q, s)

-----------------------------------------------------------------------------
(***************************************************************************)
(* CpuManager::scheduler.                                                  *)
(***************************************************************************)

(* PROCFIFO.fetch, and cpu.process = Some(p) before p's lock is taken. *)
Fetch(c) ==
    /\ cpu[c].at = "idle"
    /\ fifo # <<>>
    /\ fifo' = Tail(fifo)
    /\ cpu' = [cpu EXCEPT ![c] = [at |-> "fetched", proc |-> Head(fifo)]]
    /\ UNCHANGED <<excls, killed, parent, locks, kpc, child, tick, pids>>

(* Fault: the scheduler does not wait for the lock of the process. *)
DispatchUnlocked(c) ==
    LET p == cpu[c].proc IN
    /\ cpu[c].at = "fetched"
    /\ excl' = excl \cup {p}
    /\ state' = [state EXCEPT ![p] = "RUNNING"]
    /\ cpu' = [cpu EXCEPT ![c].at = "resume"]
    /\ UNCHANGED <<chan, pid, killed, parent, parentsLk, fifo, kpc, child,
                   ticksLk, tick, pids>>

(* excl.lock(), state = RUNNING, and the switch to the process. *)
Dispatch(c) ==
    LET p == cpu[c].proc IN
    /\ cpu[c].at = "fetched"
    /\ p \notin excl
    /\ excl' = excl \cup {p}
    /\ state' = [state EXCEPT ![p] = "RUNNING"]
    /\ cpu' = [cpu EXCEPT ![c].at = "resume"]
    /\ UNCHANGED <<chan, pid, killed, parent, parentsLk, fifo, kpc, child,
                   ticksLk, tick, pids>>

(* The process comes out of sched() or into fork_ret(): a sleeper clears   *)
(* its channel, and excl is released.                                      *)
Resume(c) ==
    LET p == cpu[c].proc IN
    /\ cpu[c].at = "resume"
    /\ chan' = [chan EXCEPT ![p] = None]
    /\ excl' = excl \ {p}
    /\ cpu' = [cpu EXCEPT ![c].at = "run"]
    /\ UNCHANGED <<state, pid, killed, parent, parentsLk, fifo, kpc, child,
                   ticksLk, tick, pids>>

(* Back in the scheduler's context: cpu.process = None, drop(guard). *)
SwitchBack(c) ==
    /\ cpu[c].at = "switch"
    /\ excl' = excl \ {cpu[c].proc}
    /\ cpu' = [cpu EXCEPT ![c] = [at |-> "idle", proc |-> None]]
    /\ UNCHANGED <<excls, killed, parent, parentsLk, fifo, kpc, child,
                   ticksLk, tick, pids>>

-----------------------------------------------------------------------------
(***************************************************************************)
(* What a process p does while a CPU c runs it.                            *)
(***************************************************************************)
On(c, p) == cpu[c].at = "run" /\ cpu[c].proc = p

(* user_trap lets a process into syscall() when it has not been killed. *)
Enters(c, p) == On(c, p) /\ kpc[p] = "user" /\ ~killed[p]

(* sched() with excl held: leave the CPU in state st on channel ch, and go *)
(* on at `next` when scheduled again.                                      *)
Sched(c, p, st, ch, next) ==
    /\ p \notin excl
    /\ excl' = excl \cup {p}
    /\ state' = [state EXCEPT ![p] = st]
    /\ chan' = [chan EXCEPT ![p] = ch]
    /\ cpu' = [cpu EXCEPT ![c].at = "switch"]
    /\ kpc' = [kpc EXCEPT ![p] = next]

(* No lock is held: a timer interrupt may preempt. *)
Preemptible == {"user", "fork_copy", "fork_parent", "fork_ready", "fork_queue",
                "wait_again", "tick_again"}

(* Fault: the preempted process is not put back into the queue. *)
YieldUnqueued(c, p) ==
    /\ On(c, p)
    /\ kpc[p] \in Preemptible
    /\ Sched(c, p, "RUNNABLE", chan[p], kpc[p])
    /\ UNCHANGED <<pid, killed, parent, parentsLk, fifo, child, ticksLk, tick, pids>>

(* yielding(), from the timer interrupt in user or kernel mode. *)
Yield(c, p) ==
    /\ On(c, p)
    /\ kpc[p] \in Preemptible
    /\ Sched(c, p, "RUNNABLE", chan[p], kpc[p])
    /\ fifo' = Enqueue(fifo, p)
    /\ UNCHANGED <<pid, killed, parent, parentsLk, child, ticksLk, tick, pids>>

(* The body of wakeup's loop at slot s. *)
WakeSlot(s, ch) ==
    /\ s \notin excl
    /\ \/ /\ state[s] = "SLEEPING" /\ chan[s] = ch
          /\ state' = [state EXCEPT ![s] = "RUNNABLE"]
          /\ fifo' = Enqueue(fifo, s)
       \/ /\ ~(state[s] = "SLEEPING" /\ chan[s] = ch)
          /\ UNCHANGED <<state, fifo>>

(* Fault: a recycled pid is taken and stays in the list. *)
PidAllocPeek(s) ==
    \/ /\ recycled # <<>>
       /\ pid' = [pid EXCEPT ![s] = recycled[Len(recycled)]]
       /\ UNCHANGED <<current, recycled>>
    \/ /\ recycled = <<>>
       /\ current < MaxPid
       /\ pid' = [pid EXCEPT ![s] = current]
       /\ current' = current + 1
       /\ UNCHANGED recycled

(* pid_alloc: the last recycled pid, or a fresh one. *)
PidAlloc(s) ==
    \/ /\ recycled # <<>>
       /\ pid' = [pid EXCEPT ![s] = recycled[Len(recycled)]]
       /\ recycled' = SubSeq(recycled, 1, Len(recycled) - 1)
       /\ UNCHANGED current
    \/ /\ recycled = <<>>
       /\ current < MaxPid
       /\ pid' = [pid EXCEPT ![s] = current]
       /\ current' = current + 1
       /\ UNCHANGED recycled

(***************************************************************************)
(* fork.  alloc_proc scans the table locking one slot at a time, so that   *)
(* slots may become unused behind it: any unused slot may be the one.      *)
(***************************************************************************)
ForkAlloc(c, p) ==
    /\ Enters(c, p)
    /\ \E s \in Slots :
         /\ state[s] = "UNUSED"
         /\ s \notin excl
         /\ state' = [state EXCEPT ![s] = "ALLOCATED"]
         /\ PidAlloc(s)
         /\ child' = [child EXCEPT ![p] = s]
         /\ kpc' = [kpc EXCEPT ![p] = "fork_copy", ![s] = "user"]
    /\ UNCHANGED <<chan, killed, parent, locks, fifo, cpu, tick>>

(* uvm_copy fails: the child is cleaned up, its pid is not given back. *)
ForkFail(c, p) ==
    LET s == child[p] IN
    /\ On(c, p)
    /\ kpc[p] = "fork_copy"
    /\ s \notin excl
    /\ killed' = [killed EXCEPT ![s] = FALSE]
    /\ state' = [state EXCEPT ![s] = "UNUSED"]
    /\ pid' = [pid EXCEPT ![s] = 0]
    /\ child' = [child EXCEPT ![p] = None]
    /\ kpc' = [kpc EXCEPT ![p] = "user"]
    /\ UNCHANGED <<chan, parent, locks, fifo, cpu, tick, pids>>

ForkCopy(c, p) ==
    /\ On(c, p)
    /\ kpc[p] = "fork_copy"
    /\ child[p] \notin excl
    /\ kpc' = [kpc EXCEPT ![p] = "fork_parent"]
    /\ UNCHANGED <<excls, killed, parent, locks, fifo, cpu, child, tick, pids>>

(* set_parent. *)
ForkParent(c, p) ==
    /\ On(c, p)
    /\ kpc[p] = "fork_parent"
    /\ parentsLk = None
    /\ parent' = [parent EXCEPT ![child[p]] = p]
    /\ kpc' = [kpc EXCEPT ![p] = "fork_ready"]
    /\ UNCHANGED <<excls, killed, locks, fifo, cpu, child, tick, pids>>

(* The child becomes RUNNABLE before it is queued. *)
ForkReady(c, p) ==
    /\ On(c, p)
    /\ kpc[p] = "fork_ready"
    /\ child[p] \notin excl
    /\ state' = [state EXCEPT ![child[p]] = "RUNNABLE"]
    /\ kpc' = [kpc EXCEPT ![p] = "fork_queue"]
    /\ UNCHANGED <<chan, pid, killed, parent, locks, fifo, cpu, child, tick, pids>>

ForkQueue(c, p) ==
    /\ On(c, p)
    /\ kpc[p] = "fork_queue"
    /\ fifo' = Enqueue(fifo, child[p])
    /\ child' = [child EXCEPT ![p] = None]
    /\ kpc' = [kpc EXCEPT ![p] = "user"]
    /\ UNCHANGED <<excls, killed, parent, locks, cpu, tick, pids>>

(***************************************************************************)
(* exiting, called by sys_exit or by check_abondon of a killed process.    *)
(* close_files has come first.  The parent map stays locked up to the      *)
(* switch.                                                                 *)
(***************************************************************************)
Children(p) == {s \in Slots : parent[s] = p}

(* Lock the parent map and hand the children over to init. *)
ExitLock(c, p) ==
    /\ On(c, p)
    /\ p # 0
    /\ kpc[p] = "user"
    /\ parentsLk = None
    /\ parentsLk' = p
    /\ parent' = [s \in Slots |-> IF parent[s] = p THEN 0 ELSE parent[s]]
    /\ kpc' = [kpc EXCEPT ![p] = IF Children(p) # {} THEN "exit_init" ELSE "exit_parent"]
    /\ UNCHANGED <<excls, killed, excl, ticksLk, fifo, cpu, child, tick, pids>>

(* wakeup(init).  Only a process itself ever sleeps on its own address, so *)
(* of wakeup's loop over the table one slot matters.                       *)
ExitWakeInit(c, p) ==
    /\ On(c, p)
    /\ kpc[p] = "exit_init"
    /\ WakeSlot(0, 0)
    /\ kpc' = [kpc EXCEPT ![p] = "exit_parent"]
    /\ UNCHANGED <<chan, pid, killed, parent, locks, cpu, child, tick, pids>>

(* Fault: the parent is not woken. *)
ExitSkipParent(c, p) ==
    /\ On(c, p)
    /\ kpc[p] = "exit_parent"
    /\ kpc' = [kpc EXCEPT ![p] = "exit_zombie"]
    /\ UNCHANGED <<excls, killed, parent, locks, fifo, cpu, child, tick, pids>>

(* wakeup(parent), while this process is not a zombie yet. *)
ExitWakeParent(c, p) ==
    /\ On(c, p)
    /\ kpc[p] = "exit_parent"
    /\ WakeSlot(parent[p], parent[p])
    /\ kpc' = [kpc EXCEPT ![p] = "exit_zombie"]
    /\ UNCHANGED <<chan, pid, killed, parent, locks, cpu, child, tick, pids>>

(* ZOMBIE, pid_dealloc, unlock the parent map, and sched() for good. *)
ExitZombie(c, p) ==
    /\ On(c, p)
    /\ kpc[p] = "exit_zombie"
    /\ Sched(c, p, "ZOMBIE", chan[p], "user")
    /\ recycled' = Append(recycled, pid[p])
    /\ parentsLk' = None
    /\ UNCHANGED <<pid, killed, parent, fifo, child, ticksLk, tick, current>>

-----------------------------------------------------------------------------
(***************************************************************************)
(* waiting.                                                                *)
(***************************************************************************)
Zombies(p) == {s \in Children(p) : state[s] = "ZOMBIE"}

WaitLock(c, p) ==
    /\ Enters(c, p) \/ (On(c, p) /\ kpc[p] = "wait_again")
    /\ parentsLk = None
    /\ parentsLk' = p
    /\ kpc' = [kpc EXCEPT ![p] = "wait"]
    /\ UNCHANGED <<excls, killed, parent, excl, ticksLk, fifo, cpu, child, tick, pids>>

(* Return from waiting: the parent map is unlocked. *)
WaitReturn(p) == /\ parentsLk' = None
                 /\ kpc' = [kpc EXCEPT ![p] = "user"]

(* waiting takes the child's excl before it looks at its state. *)
Reapable(s) == s \notin excl

(* Fault: the reaped child keeps its entry in the parent map. *)
OrphanedNot(s) == parent

(* waiting clears the parent of the child it has collected. *)
Orphaned(s) == [parent EXCEPT ![s] = None]

(* The first zombie in table order is cleaned up; or copy_out fails and    *)
(* everything stays.                                                       *)
WaitReap(c, p) ==
    LET s == Least(Zombies(p)) IN
    /\ On(c, p)
    /\ kpc[p] = "wait"
    /\ Zombies(p) # {}
    /\ Reapable(s)
    /\ \/ /\ parent' = Orphaned(s)
          /\ killed' = [killed EXCEPT ![s] = FALSE]
          /\ state' = [state EXCEPT ![s] = "UNUSED"]
          /\ chan' = [chan EXCEPT ![s] = None]
          /\ pid' = [pid EXCEPT ![s] = 0]
       \/ UNCHANGED <<parent, killed, state, chan, pid>>
    /\ WaitReturn(p)
    /\ UNCHANGED <<excl, ticksLk, fifo, cpu, child, tick, pids>>

(* No zombie: give up without children or when killed, otherwise sleep. *)
WaitCheck(c, p) ==
    /\ On(c, p)
    /\ kpc[p] = "wait"
    /\ Zombies(p) = {}
    /\ \/ /\ Children(p) = {} \/ killed[p]
          /\ WaitReturn(p)
       \/ /\ Children(p) # {} /\ ~killed[p]
          /\ kpc' = [kpc EXCEPT ![p] = "wait_sleep"]
          /\ UNCHANGED parentsLk
    /\ UNCHANGED <<excls, killed, parent, excl, ticksLk, fifo, cpu, child, tick, pids>>

(* sleep: take excl, unlock the parent map, SLEEPING, sched(). *)
WaitSleep(c, p) ==
    /\ On(c, p)
    /\ kpc[p] = "wait_sleep"
    /\ Sched(c, p, "SLEEPING", p, "wait_again")
    /\ parentsLk' = None
    /\ UNCHANGED <<pid, killed, parent, fifo, child, ticksLk, tick, pids>>

-----------------------------------------------------------------------------
(***************************************************************************)
(* The clock: clock_sleep and clock_intr share TICKS and its lock.         *)
(***************************************************************************)

(* One turn of clock_sleep's loop: the time may have come, or the process  *)
(* gives up when killed, or it goes on to sleep with TICKS locked.         *)
TickCheck(c, p) ==
    /\ Enters(c, p) \/ (On(c, p) /\ kpc[p] = "tick_again")
    /\ ticksLk = None /\ tick = NPROC
    /\ \/ /\ kpc' = [kpc EXCEPT ![p] = "user"]
          /\ UNCHANGED ticksLk
       \/ /\ ~killed[p]
          /\ kpc' = [kpc EXCEPT ![p] = "tick_sleep"]
          /\ ticksLk' = p
    /\ UNCHANGED <<excls, killed, parent, excl, parentsLk, fifo, cpu, child, tick, pids>>

TickSleep(c, p) ==
    /\ On(c, p)
    /\ kpc[p] = "tick_sleep"
    /\ Sched(c, p, "SLEEPING", TICKS, "tick_again")
    /\ ticksLk' = None
    /\ UNCHANGED <<pid, killed, parent, fifo, child, parentsLk, tick, pids>>

(* clock_intr locks TICKS and starts wakeup's loop over the table. *)
ClockIntr ==
    /\ ticksLk = None /\ tick = NPROC
    /\ tick' = 0
    /\ UNCHANGED <<excls, killed, parent, locks, fifo, cpu, kpc, child, pids>>

(* One turn of the loop; TICKS is unlocked after the last. *)
ClockWake ==
    /\ tick < NPROC
    /\ WakeSlot(tick, TICKS)
    /\ tick' = tick + 1
    /\ UNCHANGED <<chan, pid, killed, parent, locks, cpu, kpc, child, pids>>

(* kill(x): the first slot with that pid, whatever its state.  init, whose *)
(* exit panics the kernel, is not among the targets.                       *)
Kill(c, p, x) ==
    LET T == {s \in Slots : pid[s] = x}
        t == Least(T) IN
    /\ Enters(c, p)
    /\ p \in Killers
    /\ T # {}
    /\ t \notin excl
    /\ killed' = [killed EXCEPT ![t] = TRUE]
    /\ state' = [state EXCEPT ![t] = IF @ = "SLEEPING" THEN "RUNNABLE" ELSE @]
    /\ UNCHANGED <<chan, pid, parent, locks, fifo, cpu, kpc, child, tick, pids>>

-----------------------------------------------------------------------------
Scheduler(c) == Fetch(c) \/ Dispatch(c) \/ Resume(c) \/ SwitchBack(c)

(* Steps a process takes on its own once it is inside fork, exit or wait. *)
InKernel(c, p) ==
    \/ ForkCopy(c, p) \/ ForkParent(c, p) \/ ForkReady(c, p) \/ ForkQueue(c, p)
    \/ ExitWakeInit(c, p) \/ ExitWakeParent(c, p) \/ ExitZombie(c, p)
    \/ WaitReap(c, p) \/ WaitCheck(c, p) \/ WaitSleep(c, p) \/ TickSleep(c, p)

Syscall(c, p) ==
    \/ ForkAlloc(c, p) \/ ForkFail(c, p) \/ ExitLock(c, p)
    \/ WaitLock(c, p) \/ TickCheck(c, p)
    \/ \E x \in 1 .. (MaxPid - 1) : Kill(c, p, x)

Next ==
    \/ \E c \in CPUs : \/ Scheduler(c)
                       \/ \E p \in Slots : Yield(c, p) \/ InKernel(c, p) \/ Syscall(c, p)
    \/ ClockIntr
    \/ ClockWake

Spec == Init /\ [][Next]_vars

(***************************************************************************)
(* Fairness: every CPU executes and a process inside a system call goes    *)
(* on.  A timer interrupt that comes while interrupts are off stays        *)
(* pending until they are on, hence strong fairness of Yield.  Nobody has  *)
(* to make a system call, except that a killed process exits at its next   *)
(* trap.                                                                   *)
(***************************************************************************)
Fairness ==
    /\ \A c \in CPUs : /\ WF_vars(Scheduler(c))
                       /\ SF_vars(\E p \in Slots : Yield(c, p))
                       /\ WF_vars(\E p \in Slots : InKernel(c, p))
                       /\ WF_vars(\E p \in Slots : killed[p] /\ ExitLock(c, p))
    /\ WF_vars(ClockWake)

FairSpec == Spec /\ Fairness

-----------------------------------------------------------------------------
(***************************************************************************)
(* Properties.                                                             *)
(***************************************************************************)

(* Every variable has its type. *)
TypeOK ==
    /\ state \in [Slots -> States]
    /\ chan \in [Slots -> 0 .. TICKS]
    /\ pid \in [Slots -> Nat]
    /\ killed \in [Slots -> BOOLEAN]
    /\ parent \in [Slots -> 0 .. None]
    /\ excl \subseteq Slots
    /\ parentsLk \in 0 .. None /\ ticksLk \in 0 .. None /\ tick \in 0 .. NPROC
    /\ fifo \in Seq(Slots)
    /\ cpu \in [CPUs -> [at : {"idle", "fetched", "resume", "run", "switch"},
                        proc : 0 .. None]]
    /\ kpc \in [Slots -> Preemptible \cup {"exit_init", "exit_parent", "exit_zombie",
                                          "wait", "wait_sleep", "tick_sleep"}]
    /\ child \in [Slots -> 0 .. None]
    /\ current \in Nat /\ recycled \in Seq(Nat)

(* The CPU is executing on the kernel stack of its process. *)
Busy(c) == cpu[c].at \in {"resume", "run", "switch"}
Fetched == {cpu[c].proc : c \in {d \in CPUs : cpu[d].at = "fetched"}}

(* A kernel stack is in use by one CPU.  A process never runs on two,      *)
(* although yielding() queues it before it has left its own: excl keeps    *)
(* the CPU that fetches it waiting.  And a slot that waiting() has freed   *)
(* for the next fork is off every CPU and will not be dispatched, although *)
(* its ZOMBIE is visible while the last of its stack is still running.     *)
ExclusiveRun ==
    /\ \A c, d \in CPUs : c # d /\ Busy(c) /\ Busy(d) => cpu[c].proc # cpu[d].proc
    /\ \A s \in Slots : state[s] = "UNUSED" =>
          s \notin Queued /\ \A c \in CPUs : cpu[c].proc # s

(* scheduler() sets RUNNING without looking at the state and only takes    *)
(* from PROCFIFO: right only when whoever is queued or fetched is RUNNABLE *)
(* and is so once, and when whoever is RUNNABLE is queued, fetched, or     *)
(* about to be queued by the fork that made it.  A killed process may not  *)
(* be: KilledRuns below.                                                   *)
ReadyOnce ==
    /\ \A s \in Queued \cup Fetched : state[s] = "RUNNABLE"
    /\ \A i, j \in 1 .. Len(fifo) : fifo[i] = fifo[j] => i = j
    /\ Queued \cap Fetched = {}
    /\ \A c, d \in CPUs : c # d /\ cpu[c].at = "fetched" /\ cpu[d].at = "fetched"
                             => cpu[c].proc # cpu[d].proc
    /\ \A s \in Slots : state[s] = "RUNNABLE" /\ ~killed[s] =>
          \/ s \in Queued \cup Fetched
          \/ \E p \in Slots : kpc[p] = "fork_queue" /\ child[p] = s

(* exiting() wakes the parent before it becomes a zombie.  The parent map  *)
(* makes that safe: whenever it is unlocked, a parent asleep in waiting()  *)
(* has no zombie to collect, and has a child that will wake it.            *)
NoLostChild ==
    \A p \in Slots :
        parentsLk = None /\ state[p] = "SLEEPING" /\ chan[p] = p =>
            Zombies(p) = {} /\ Children(p) # {}

(* The assertions of the code hold where they are evaluated: set_parent    *)
(* finds no old parent, exiting finds a parent, pid_dealloc gets a pid     *)
(* that is in use, yielding and sleep are called by a RUNNING process, and *)
(* try_yield_proc between fetch and excl.lock() finds nothing to preempt.  *)
AssertsHold ==
    /\ \A p \in Slots : kpc[p] = "fork_parent" => parent[child[p]] = None
    /\ \A p \in Slots : kpc[p] \in {"exit_parent", "exit_zombie"} =>
          /\ parent[p] # None
          /\ pid[p] < current
          /\ \A i \in 1 .. Len(recycled) : recycled[i] # pid[p]
    /\ \A c \in CPUs : cpu[c].at = "run" => state[cpu[c].proc] = "RUNNING"
    /\ \A c \in CPUs : cpu[c].at = "fetched" => state[cpu[c].proc] # "RUNNING"

(* A pid names one process that is no zombie.  exiting() gives the pid     *)
(* back while the zombie still carries it, so that a fork on another CPU   *)
(* can have it at once: kill and waitpid, which look for the first slot    *)
(* with a pid, never confuse two processes that both still run, and no pid *)
(* is handed out twice.                                                    *)
Alive(s) == state[s] \notin {"UNUSED", "ZOMBIE"}
PidsOfLive ==
    /\ \A s, t \in Slots : s # t /\ Alive(s) /\ Alive(t) => pid[s] # pid[t]
    /\ \A i \in 1 .. Len(recycled) :
          /\ \A s \in Slots : Alive(s) => recycled[i] # pid[s]
          /\ \A j \in 1 .. Len(recycled) : recycled[i] = recycled[j] => i = j

(* Whoever is queued runs eventually: the queue is first in, first out and *)
(* the timer preempts.                                                     *)
QueuedRuns == \A s \in Slots : s \in Queued ~> state[s] = "RUNNING"

(* mod.rs on PIDs: processes have distinct pids. *)
UniquePids ==
    \A s, t \in Slots : s # t /\ state[s] # "UNUSED" /\ state[t] # "UNUSED" => pid[s] # pid[t]

(* kill's doc: a sleeper becomes RUNNABLE in order to respond soon. *)
KilledRuns ==
    \A s \in Slots : killed[s] /\ state[s] = "RUNNABLE" ~> state[s] = "RUNNING"

(* fork's assertion on the path where uvm_copy fails. *)
ForkChildNotKilled ==
    \A p \in Slots : kpc[p] = "fork_copy" => ~killed[child[p]]
=============================================================================
