------------------------------ MODULE SpinLock ------------------------------
(***************************************************************************)
(* Spin locks (kernel/src/spinlock.rs) and the interrupt state of the CPUs *)
(* (push_off, pop_off and sched of kernel/src/process/cpu.rs) under the    *)
(* code that stresses them: processes that sleep and yield with a lock     *)
(* held across the context switch, and interrupts that take the same locks *)
(* and switch processes (kernel/src/trap.rs).                              *)
(*                                                                         *)
(* A context is a process or the scheduler of a CPU.  todo[x] is what      *)
(* context x still has to do: the operations of its call and, in front of  *)
(* them, those of a trap that interrupted it.  A process with nothing to   *)
(* do is in user mode.  An operation is one step, and the acquisition of a *)
(* lock two: push_off, and the loop that spins with interrupts off.        *)
(*                                                                         *)
(* The locks are TICKS, which stands for every lock that calls and         *)
(* interrupt handlers share, and the excl of each process, named by the    *)
(* process.  The lock of PROCFIFO is held for one access and takes no      *)
(* other lock: its sections are one step each.                             *)
(***************************************************************************)
EXTENDS Naturals, Sequences, FiniteSets, SequencesExt

CONSTANTS CPUs, Procs,
          CPU0,         \* the CPU that counts the ticks
          None,
          MaxDepth      \* bound on the traps of a context within each other

ASSUME SpinLockAssumption ==
    /\ CPU0 \in CPUs /\ CPUs \cap Procs = {} /\ None \notin CPUs \cup Procs
    /\ IsFiniteSet(Procs) /\ MaxDepth \in Nat

Locks == {"TICKS"} \cup Procs

VARIABLES sie,       \* sstatus.SIE of each CPU: interrupts are on
          noff,      \* Cpu: depth of push_off
          intena,    \* Cpu: whether interrupts were on before
          proc,      \* Cpu: the process
          lk,        \* the CPU that holds each lock
          cur,       \* the context that each CPU executes
          todo,
          saved,     \* sched: self, and its local intena
          state,     \* of the processes
          fifo,      \* PROCFIFO
          moved,     \* a process has been resumed on another CPU
          panicked

irq == <<sie, noff, intena>>
table == <<state, fifo>>
vars == <<irq, proc, lk, cur, todo, saved, table, moved, panicked>>

-----------------------------------------------------------------------------
(* Operations, and the calls put together from them. *)
Op(name, l) == <<[op |-> name, on |-> l]>>
Do(name) == Op(name, None)
Acquire(l) == Op("push_off", l) \o Op("spin", l)
Release(l) == Op("release", l)

yielding(p) == Acquire(p) \o Op("runnable", p) \o Op("add", p) \o Op("sched", p)
                 \o Op("restore", p) \o Release(p)

(* Fault: the caller's lock is dropped after the switch. *)
SleepHolding(p, l) == Acquire(p) \o Op("sleeping", p) \o Op("sched", p)
                        \o Op("restore", p) \o Release(l) \o Release(p)

sleep(p, l) == Acquire(p) \o Release(l) \o Op("sleeping", p) \o Op("sched", p)
                 \o Op("restore", p) \o Release(p)

wakeup == FoldLeft(LAMBDA s, p : s \o Acquire(p) \o Op("wake", p) \o Release(p),
                   <<>>, SetToSeq(Procs))

clock_intr(c) == IF c = CPU0 THEN Acquire("TICKS") \o wakeup \o Release("TICKS") ELSE <<>>

(* A system call, here sleep for one tick: clock_sleep goes to sleep under *)
(* TICKS and takes it again to look at the clock.  (The look at the pid    *)
(* under excl after the call is left out.)                                 *)
clock_sleep(p) == Acquire("TICKS") \o sleep(p, "TICKS") \o Acquire("TICKS") \o Release("TICKS")
syscall(p) == Do("intr_on") \o clock_sleep(p) \o Do("user_trap_ret")

kerneltrap(c) == clock_intr(c) \o Do("try_yield_proc") \o Do("sret")

scheduler == Do("intr_on") \o Do("fetch")

(* No sched is under way. *)
NotSaved == [cpu |-> None, intena |-> FALSE]

(* Boot: the schedulers start; the processes are queued, and a new one     *)
(* begins in fork_ret, with its excl locked by the scheduler.              *)
Init ==
    /\ sie = [c \in CPUs |-> FALSE] /\ noff = [c \in CPUs |-> 0] /\ intena = [c \in CPUs |-> FALSE]
    /\ proc = [c \in CPUs |-> None] /\ lk = [l \in Locks |-> None]
    /\ cur = [c \in CPUs |-> c]
    /\ todo = [x \in CPUs \cup Procs |-> IF x \in CPUs THEN scheduler
                                         ELSE Release(x) \o Do("user_trap_ret")]
    /\ saved = [p \in Procs |-> NotSaved]
    /\ state = [p \in Procs |-> "RUNNABLE"] /\ fifo = SetToSeq(Procs)
    /\ moved = FALSE /\ panicked = FALSE

-----------------------------------------------------------------------------
(* The next operation of the context on CPU c, and what follows it. *)
Ctx(c) == cur[c]
Next1(c) == Head(todo[cur[c]])
Rest(c) == Tail(todo[cur[c]])
At(c, name) == ~panicked /\ todo[cur[c]] # <<>> /\ Next1(c).op = name
On(c) == Next1(c).on
Then(c, s) == todo' = [todo EXCEPT ![cur[c]] = s]
Panic(p) == panicked' = (panicked \/ p)

holding(c, l) == lk[l] = c

(* Fault: push_off leaves interrupts on. *)
PushStaysOn(c) ==
    /\ At(c, "push_off") /\ Panic(holding(c, On(c)))
    /\ intena' = [intena EXCEPT ![c] = IF noff[c] = 0 THEN sie[c] ELSE @]
    /\ noff' = [noff EXCEPT ![c] = @ + 1]
    /\ Then(c, Rest(c))
    /\ UNCHANGED <<sie, proc, lk, cur, saved, table, moved>>

(* acquire: push_off, and the panic when this CPU holds the lock already; *)
PushOff(c) ==
    /\ At(c, "push_off") /\ Panic(holding(c, On(c)))
    /\ sie' = [sie EXCEPT ![c] = FALSE]
    /\ intena' = [intena EXCEPT ![c] = IF noff[c] = 0 THEN sie[c] ELSE @]
    /\ noff' = [noff EXCEPT ![c] = @ + 1]
    /\ Then(c, Rest(c))
    /\ UNCHANGED <<proc, lk, cur, saved, table, moved>>

(* then it spins until the lock is free. *)
Spin(c) ==
    /\ At(c, "spin") /\ lk[On(c)] = None
    /\ lk' = [lk EXCEPT ![On(c)] = c]
    /\ Then(c, Rest(c))
    /\ UNCHANGED <<irq, proc, cur, saved, table, moved, panicked>>

(* release, the drop of a guard: the lock is freed, then pop_off. *)
ReleaseLock(c) ==
    /\ At(c, "release")
    /\ Panic(~holding(c, On(c)) \/ sie[c] \/ noff[c] = 0)
    /\ lk' = [lk EXCEPT ![On(c)] = None]
    /\ noff' = [noff EXCEPT ![c] = IF @ = 0 THEN 0 ELSE @ - 1]
    /\ sie' = [sie EXCEPT ![c] = IF noff'[c] = 0 /\ intena[c] THEN TRUE ELSE @]
    /\ Then(c, Rest(c))
    /\ UNCHANGED <<intena, proc, cur, saved, table, moved>>

-----------------------------------------------------------------------------
(* sched: it checks what it relies on, remembers intena and switches to    *)
(* the scheduler of this CPU, excl still locked.                           *)
Sched(c) ==
    LET p == On(c)
    IN /\ At(c, "sched")
       /\ Panic(~holding(c, p) \/ noff[c] # 1 \/ state[p] = "RUNNING" \/ sie[c])
       /\ saved' = [saved EXCEPT ![p] = [cpu |-> c, intena |-> intena[c]]]
       /\ cur' = [cur EXCEPT ![c] = c]
       /\ Then(c, Rest(c))
       /\ UNCHANGED <<irq, proc, lk, table, moved>>

(* Fault: sched does not restore intena. *)
NotRestored(c) == intena

(* sched writes intena back through self, the Cpu it was called on. *)
Restored(c) == [intena EXCEPT ![saved[On(c)].cpu] = saved[On(c)].intena]

(* The process is back: the rest of sched. *)
Restore(c) ==
    /\ At(c, "restore")
    /\ intena' = Restored(c)
    /\ moved' = (moved \/ saved[On(c)].cpu # c)
    /\ saved' = [saved EXCEPT ![On(c)] = NotSaved]
    /\ Then(c, Rest(c))
    /\ UNCHANGED <<sie, noff, proc, lk, cur, table, panicked>>

(* scheduler: PROCFIFO is empty, and it looks again; or a process is       *)
(* fetched, its excl locked, and it runs until it switches back.  excl was *)
(* locked here and is released by the process, or the other way round.     *)
(* The push_off of PROCFIFO's lock leaves its mark in intena.              *)
Fetch(c) ==
    /\ At(c, "fetch")
    /\ proc' = [proc EXCEPT ![c] = IF fifo = <<>> THEN None ELSE Head(fifo)]
    /\ fifo' = IF fifo = <<>> THEN fifo ELSE Tail(fifo)
    /\ intena' = [intena EXCEPT ![c] = sie[c]]
    /\ Then(c, IF fifo = <<>> THEN scheduler
               ELSE Acquire(Head(fifo)) \o Op("dispatch", Head(fifo))
                      \o Op("back", Head(fifo)) \o Release(Head(fifo)) \o scheduler)
    /\ UNCHANGED <<sie, noff, lk, cur, saved, state, moved, panicked>>
Dispatch(c) ==
    /\ At(c, "dispatch")
    /\ state' = [state EXCEPT ![On(c)] = "RUNNING"]
    /\ cur' = [cur EXCEPT ![c] = On(c)]
    /\ Then(c, Rest(c))
    /\ UNCHANGED <<irq, proc, lk, saved, fifo, moved, panicked>>
Back(c) ==
    /\ At(c, "back") /\ Panic(proc[c] = None)
    /\ proc' = [proc EXCEPT ![c] = None]
    /\ Then(c, Rest(c))
    /\ UNCHANGED <<irq, lk, cur, saved, table, moved>>

(* Changes of a process under its excl: yielding, sleep, wakeup and the    *)
(* add to PROCFIFO.                                                        *)
SetState(c) ==
    LET p == On(c)
    IN /\ \/ At(c, "runnable") /\ Panic(state[p] # "RUNNING")
             /\ state' = [state EXCEPT ![p] = "RUNNABLE"] /\ Then(c, Rest(c))
          \/ At(c, "sleeping") /\ Panic(FALSE)
             /\ state' = [state EXCEPT ![p] = "SLEEPING"] /\ Then(c, Rest(c))
          \/ At(c, "wake") /\ Panic(FALSE)
             /\ state' = [state EXCEPT ![p] = IF @ = "SLEEPING" THEN "RUNNABLE" ELSE @]
             /\ Then(c, IF state[p] = "SLEEPING" THEN Op("add", p) \o Rest(c) ELSE Rest(c))
       /\ UNCHANGED <<irq, proc, lk, cur, saved, fifo, moved>>
Add(c) ==
    /\ At(c, "add")
    /\ fifo' = Append(fifo, On(c))
    /\ Then(c, Rest(c))
    /\ UNCHANGED <<irq, proc, lk, cur, saved, state, moved, panicked>>

-----------------------------------------------------------------------------
(* user_trap: a system call, or the timer. *)
UserTrap(c) ==
    /\ ~panicked /\ todo[cur[c]] = <<>>
    /\ sie' = [sie EXCEPT ![c] = FALSE]
    /\ \/ Then(c, syscall(cur[c]))
       \/ Then(c, clock_intr(c) \o yielding(cur[c]) \o Do("user_trap_ret"))
    /\ UNCHANGED <<noff, intena, proc, lk, cur, saved, table, moved, panicked>>

IntrOn(c) ==
    /\ At(c, "intr_on")
    /\ sie' = [sie EXCEPT ![c] = TRUE]
    /\ Then(c, Rest(c))
    /\ UNCHANGED <<noff, intena, proc, lk, cur, saved, table, moved, panicked>>

(* user_trap_ret turns interrupts off; sret turns them on in user mode. *)
UserTrapRet(c) ==
    /\ At(c, "user_trap_ret")
    /\ sie' = [sie EXCEPT ![c] = TRUE]
    /\ Then(c, Rest(c))
    /\ UNCHANGED <<noff, intena, proc, lk, cur, saved, table, moved, panicked>>

(* The traps a context is in the middle of. *)
Depth(x) == Len(SelectSeq(todo[x], LAMBDA o : o.op = "sret"))

(* A timer interrupt in the kernel: interrupts go off and kerneltrap runs. *)
Interrupt(c) ==
    /\ ~panicked /\ sie[c] /\ todo[cur[c]] # <<>> /\ Depth(cur[c]) < MaxDepth
    /\ sie' = [sie EXCEPT ![c] = FALSE]
    /\ Then(c, kerneltrap(c) \o todo[cur[c]])
    /\ UNCHANGED <<noff, intena, proc, lk, cur, saved, table, moved, panicked>>

(* try_yield_proc: under excl it looks whether the process runs; if so it  *)
(* locks excl once more (the guard is dropped at once) and yields.         *)
TryYieldProc(c) ==
    /\ At(c, "try_yield_proc")
    /\ Then(c, IF proc[c] = None THEN Rest(c)
               ELSE Acquire(proc[c]) \o Op("try", proc[c]) \o Release(proc[c]) \o Rest(c))
    /\ UNCHANGED <<irq, proc, lk, cur, saved, table, moved, panicked>>
Try(c) ==
    LET p == On(c)
    IN /\ At(c, "try")
       /\ Then(c, Release(p) \o (IF state[p] = "RUNNING" THEN Acquire(p) \o Release(p) \o yielding(p)
                                 ELSE <<>>) \o Tail(Rest(c)))
       /\ UNCHANGED <<irq, proc, lk, cur, saved, table, moved, panicked>>

(* kerneltrap ends: sstatus as it was when the trap came, on. *)
Sret(c) ==
    /\ At(c, "sret")
    /\ sie' = [sie EXCEPT ![c] = TRUE]
    /\ Then(c, Rest(c))
    /\ UNCHANGED <<noff, intena, proc, lk, cur, saved, table, moved, panicked>>

Next == \E c \in CPUs :
    \/ PushOff(c) \/ Spin(c) \/ ReleaseLock(c)
    \/ Sched(c) \/ Restore(c) \/ Fetch(c) \/ Dispatch(c) \/ Back(c) \/ SetState(c) \/ Add(c)
    \/ UserTrap(c) \/ IntrOn(c) \/ UserTrapRet(c)
    \/ Interrupt(c) \/ TryYieldProc(c) \/ Try(c) \/ Sret(c)

Spec == Init /\ [][Next]_vars

-----------------------------------------------------------------------------
(* Context x is inside the critical section of l: the next it does with l  *)
(* is to release it.                                                       *)
Uses(x, l) == {i \in 1 .. Len(todo[x]) : todo[x][i].on = l /\ todo[x][i].op \in {"spin", "release"}}
Inside(x, l) == \E i \in Uses(x, l) : todo[x][i].op = "release" /\ \A j \in Uses(x, l) : i <= j

(* A CPU holds a lock exactly while what it executes is inside the lock's  *)
(* critical section, although excl is passed over a switch from process to *)
(* scheduler and back, on any CPU; noff counts the locks held; and while   *)
(* one is held interrupts are off, so that no handler meets a lock of the  *)
(* code it interrupted.                                                    *)
LocksExclude ==
    ~panicked => \A c \in CPUs :
        /\ \A l \in Locks : lk[l] = c <=> Inside(cur[c], l)
        /\ noff[c] = Cardinality({l \in Locks : lk[l] = c}) + (IF At(c, "spin") THEN 1 ELSE 0)
        /\ noff[c] > 0 => ~sie[c]

(* The panics of acquire, release, pop_off, sched and the scheduler and    *)
(* the assertion of yielding stay silent.                                  *)
NoPanic == ~panicked

(* "内核陷阱处理期间应禁用中断" (trap.rs: interrupts are to be off while a  *)
(* kernel trap is handled), as long as every process is resumed on the CPU *)
(* it left: locks taken and released in the handler, and a switch to other *)
(* processes and back, leave them off.  See HandlerIsOff.                  *)
HandlerStaysOff ==
    ~moved => \A c \in CPUs : Depth(cur[c]) > 0 => ~sie[c]

(* The same without the condition: sched restores intena of the wrong CPU. *)
HandlerIsOff == \A c \in CPUs : Depth(cur[c]) > 0 => ~sie[c]
=============================================================================
