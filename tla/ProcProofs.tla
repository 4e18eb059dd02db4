----------------------------- MODULE ProcProofs -----------------------------
(***************************************************************************)
(* Proofs about processes and scheduling for any number of CPUs, slots and *)
(* pids: a kernel stack is in use by one CPU, whoever is queued is queued  *)
(* once and may run, waiting() loses no zombie, and the assertions of the  *)
(* code hold.                                                              *)
(***************************************************************************)
EXTENDS Proc, WellFoundedInduction, SequenceTheorems, TLAPS

-----------------------------------------------------------------------------
(***************************************************************************)
(* The inductive invariant.                                                *)
(***************************************************************************)

(* What a CPU's loop knows of its process: between fetch and switch only   *)
(* the state of the process says who may run it.                           *)
CpuInv == \A c \in CPUs :
    /\ cpu[c].at # "idle" => cpu[c].proc \in Slots
    /\ cpu[c].at = "idle" => cpu[c].proc = None
    /\ cpu[c].at = "fetched" => state[cpu[c].proc] = "RUNNABLE"
    /\ cpu[c].at \in {"resume", "run"} => state[cpu[c].proc] = "RUNNING"
    /\ cpu[c].at = "switch" => state[cpu[c].proc] \in {"RUNNABLE", "SLEEPING", "ZOMBIE"}
    /\ cpu[c].at \in {"resume", "switch"} => cpu[c].proc \in excl

ForkPcs == {"fork_copy", "fork_parent", "fork_ready", "fork_queue"}

(* fork() has its child to itself until it has queued it. *)
ForkInv ==
    /\ \A p \in Slots : kpc[p] \in ForkPcs =>
          /\ child[p] \in Slots
          /\ kpc[child[p]] = "user"
          /\ kpc[p] # "fork_queue" => state[child[p]] = "ALLOCATED"
          /\ kpc[p] = "fork_queue" => state[child[p]] = "RUNNABLE"
                                      /\ child[p] \notin Queued \cup Fetched
    /\ \A p, q \in Slots : p # q /\ kpc[p] \in ForkPcs /\ kpc[q] \in ForkPcs =>
          child[p] # child[q]

ParentPcs == {"exit_init", "exit_parent", "exit_zombie", "wait", "wait_sleep"}

(* Where a process is in the kernel, and what it holds there. *)
KernelInv ==
    /\ \A p \in Slots : state[p] \in {"UNUSED", "ALLOCATED", "ZOMBIE"} => kpc[p] = "user"
    /\ \A p \in Slots : kpc[p] \in ParentPcs => parentsLk = p /\ state[p] = "RUNNING"
    /\ \A p \in Slots : kpc[p] \in {"exit_init", "exit_parent", "exit_zombie"} => p # 0

(* The parent map: a slot gets a parent in fork() and loses it when it is  *)
(* collected.                                                              *)
ParentInv ==
    /\ \A s \in Slots : state[s] = "UNUSED" => parent[s] = None
    /\ \A p \in Slots : kpc[p] \in {"fork_copy", "fork_parent"} => parent[child[p]] = None
    /\ \A p \in Slots : kpc[p] = "fork_ready" => parent[child[p]] # None
    /\ \A s \in Slots \ {0} : state[s] \notin {"UNUSED", "ALLOCATED"} => parent[s] # None

WaitsFor(p) == state[p] = "SLEEPING" /\ chan[p] = p

(* A parent asleep in waiting() has a child and no zombie, or somebody who *)
(* has just handed a zombie over to init is about to wake it.              *)
WaitInv ==
    /\ \A p \in Slots : WaitsFor(p) =>
          /\ Children(p) # {}
          /\ Zombies(p) = {} \/ (p = 0 /\ \E x \in Slots : kpc[x] = "exit_init")
    /\ \A p \in Slots : kpc[p] = "wait_sleep" => Children(p) # {} /\ Zombies(p) = {}
    /\ \A q \in Slots : kpc[q] = "exit_zombie" => ~WaitsFor(parent[q])

(* A pid belongs to one process that is no zombie yet, or is recycled. *)
PidInv ==
    /\ \A s \in Slots : pid[s] < current
    /\ \A i \in 1 .. Len(recycled) : recycled[i] < current
    /\ \A i, j \in 1 .. Len(recycled) : recycled[i] = recycled[j] => i = j
    /\ \A s \in Slots : state[s] \notin {"UNUSED", "ZOMBIE"} =>
          \A i \in 1 .. Len(recycled) : recycled[i] # pid[s]
    /\ \A s, t \in Slots : s # t /\ state[s] \notin {"UNUSED", "ZOMBIE"}
                              /\ state[t] \notin {"UNUSED", "ZOMBIE"} => pid[s] # pid[t]

(* A kernel stack is in use by one CPU. *)
StackInv == \A c, d \in CPUs : c # d /\ Busy(c) /\ Busy(d) => cpu[c].proc # cpu[d].proc

ProcInv == /\ TypeOK /\ CpuInv /\ StackInv /\ ReadyOnce
           /\ ForkInv /\ KernelInv /\ ParentInv /\ WaitInv /\ PidInv

-----------------------------------------------------------------------------
(* Least picks an element: the first zombie in table order is a zombie. *)
LEMMA LeastIn == ASSUME NEW S, S \subseteq Slots, S # {} PROVE Least(S) \in S
<1>1. S \subseteq Nat  BY ProcAssumption DEF Slots
<1>2. \E x \in S : \A y \in S : ~(<<y, x>> \in OpToRel(<, Nat))
  BY <1>1, NatLessThanWellFounded, WFMin
<1>3. \E x \in S : \A y \in S : x <= y
  <2>1. PICK x \in S : \A y \in S : ~(<<y, x>> \in OpToRel(<, Nat))  BY <1>2
  <2>2. ASSUME NEW y \in S PROVE x <= y
    <3>1. <<y, x>> \in Nat \X Nat /\ x \in Nat /\ y \in Nat  BY <1>1
    <3>2. ~(y < x)  BY <2>1, <3>1 DEF OpToRel
    <3> QED  BY <3>1, <3>2
  <2> QED  BY <2>2
<1> QED  BY <1>3 DEF Least

(* PROCFIFO.add of a process that is not queued. *)
LEMMA EnqueueIs ==
  ASSUME TypeOK, ReadyOnce, NEW s \in Slots, fifo' = Enqueue(fifo, s), s \notin Queued
  PROVE  /\ fifo' \in Seq(Slots)
         /\ Queued' = Queued \cup {s}
         /\ \A i, j \in 1 .. Len(fifo') : fifo'[i] = fifo'[j] => i = j
<1>1. /\ fifo \in Seq(Slots) /\ Len(fifo) \in Nat
      /\ fifo' \in Seq(Slots) /\ Len(fifo') = Len(fifo) + 1
      /\ \A i \in 1 .. Len(fifo) : fifo'[i] = fifo[i]
      /\ fifo'[Len(fifo) + 1] = s
  BY DEF TypeOK, Enqueue
<1>2. \A i \in 1 .. Len(fifo') : i \in 1 .. Len(fifo) \/ i = Len(fifo) + 1  BY <1>1
<1>3. Queued' = Queued \cup {s}
  <2>1. ASSUME NEW x \in Queued' PROVE x \in Queued \cup {s}
    BY <1>1, <1>2, <2>1 DEF Queued
  <2>2. ASSUME NEW x \in Queued PROVE x \in Queued'
    <3>1. PICK i \in 1 .. Len(fifo) : x = fifo[i]  BY <2>2 DEF Queued
    <3>2. i \in 1 .. Len(fifo') /\ x = fifo'[i]  BY <1>1, <3>1
    <3> QED  BY <3>2 DEF Queued
  <2>3. s \in Queued'
    <3>1. Len(fifo) + 1 \in 1 .. Len(fifo')  BY <1>1
    <3> QED  BY <1>1, <3>1 DEF Queued
  <2> QED  BY <2>1, <2>2, <2>3
<1>4. ASSUME NEW i \in 1 .. Len(fifo'), NEW j \in 1 .. Len(fifo'), fifo'[i] = fifo'[j]
      PROVE  i = j
  <2>1. \A k \in 1 .. Len(fifo) : fifo'[k] # s  BY <1>1 DEF Queued
  <2> QED  BY <1>1, <1>2, <1>4, <2>1 DEF ReadyOnce
<1> QED  BY <1>1, <1>3, <1>4

(* PROCFIFO.fetch: the first of the queue leaves it. *)
LEMMA DequeueIs ==
  ASSUME TypeOK, ReadyOnce, fifo # <<>>, fifo' = Tail(fifo)
  PROVE  /\ fifo' \in Seq(Slots)
         /\ Head(fifo) \in Queued /\ Head(fifo) \in Slots
         /\ Queued' = Queued \ {Head(fifo)}
         /\ \A i, j \in 1 .. Len(fifo') : fifo'[i] = fifo'[j] => i = j
<1>1. /\ fifo \in Seq(Slots) /\ Len(fifo) \in Nat /\ Len(fifo) >= 1
      /\ fifo' \in Seq(Slots) /\ Len(fifo') = Len(fifo) - 1
      /\ \A i \in 1 .. Len(fifo') : fifo'[i] = fifo[i + 1]
      /\ Head(fifo) = fifo[1] /\ Head(fifo) \in Slots
  BY DEF TypeOK
<1>2. Head(fifo) \in Queued  BY <1>1 DEF Queued
<1>3. Queued' = Queued \ {Head(fifo)}
  <2>1. ASSUME NEW x \in Queued' PROVE x \in Queued /\ x # Head(fifo)
    <3>1. PICK i \in 1 .. Len(fifo') : x = fifo'[i]  BY <2>1 DEF Queued
    <3>2. i + 1 \in 1 .. Len(fifo) /\ x = fifo[i + 1] /\ 1 \in 1 .. Len(fifo) /\ i + 1 # 1
      BY <1>1, <3>1
    <3> QED  BY <1>1, <3>2 DEF Queued, ReadyOnce
  <2>2. ASSUME NEW x \in Queued, x # Head(fifo) PROVE x \in Queued'
    <3>1. PICK i \in 1 .. Len(fifo) : x = fifo[i]  BY <2>2 DEF Queued
    <3>2. i - 1 \in 1 .. Len(fifo')  BY <1>1, <2>2, <3>1
    <3>3. fifo'[i - 1] = fifo[(i - 1) + 1] /\ (i - 1) + 1 = i  BY <1>1, <3>1, <3>2
    <3> QED  BY <3>1, <3>2, <3>3 DEF Queued
  <2> QED  BY <2>1, <2>2
<1>4. ASSUME NEW i \in 1 .. Len(fifo'), NEW j \in 1 .. Len(fifo'), fifo'[i] = fifo'[j]
      PROVE  i = j
  <2>1. i + 1 \in 1 .. Len(fifo) /\ j + 1 \in 1 .. Len(fifo) /\ fifo[i + 1] = fifo[j + 1]
    BY <1>1, <1>4
  <2> QED  BY <2>1 DEF ReadyOnce
<1> QED  BY <1>1, <1>2, <1>3, <1>4

-----------------------------------------------------------------------------
(***************************************************************************)
(* What keeps each part of the invariant when a step does not concern it.  *)
(***************************************************************************)

(* The CPUs do not move, and no process changes that a CPU fetched, runs   *)
(* or is switching from.                                                   *)
LEMMA CpuFrame ==
  ASSUME CpuInv, StackInv, UNCHANGED <<cpu, excl>>,
         \A s \in Slots : state'[s] # state[s] =>
            s \notin excl /\ state[s] \notin {"RUNNABLE", "RUNNING"}
  PROVE  CpuInv' /\ StackInv'
<1>1. CpuInv'
  <2> SUFFICES ASSUME NEW c \in CPUs
               PROVE  /\ cpu[c].at # "idle" => cpu[c].proc \in Slots
                      /\ cpu[c].at = "idle" => cpu[c].proc = None
                      /\ cpu[c].at = "fetched" => state'[cpu[c].proc] = "RUNNABLE"
                      /\ cpu[c].at \in {"resume", "run"} => state'[cpu[c].proc] = "RUNNING"
                      /\ cpu[c].at = "switch" =>
                            state'[cpu[c].proc] \in {"RUNNABLE", "SLEEPING", "ZOMBIE"}
                      /\ cpu[c].at \in {"resume", "switch"} => cpu[c].proc \in excl
    BY DEF CpuInv
  <2> QED  BY DEF CpuInv
<1>2. StackInv'  BY DEF StackInv, Busy
<1> QED  BY <1>1, <1>2

(* No CPU fetches, the queue does not move, nobody ready stops being so,   *)
(* and whoever becomes RUNNABLE has been killed or is about to be queued.  *)
LEMMA ReadyFrame ==
  ASSUME ReadyOnce, UNCHANGED fifo,
         \A c \in CPUs : cpu'[c].at = "fetched" <=> cpu[c].at = "fetched",
         \A c \in CPUs : cpu[c].at = "fetched" => cpu'[c].proc = cpu[c].proc,
         \A s \in Slots : state[s] = "RUNNABLE" => state'[s] = "RUNNABLE",
         \A s \in Slots : state[s] = "RUNNABLE" /\ killed[s] => killed'[s],
         \A s \in Slots : state'[s] = "RUNNABLE" /\ state[s] # "RUNNABLE" =>
            killed'[s] \/ \E p \in Slots : kpc'[p] = "fork_queue" /\ child'[p] = s,
         \A p \in Slots : kpc[p] = "fork_queue" =>
            kpc'[p] = "fork_queue" /\ child'[p] = child[p],
         \A s \in Queued \cup Fetched : s \in Slots
  PROVE  ReadyOnce' /\ Queued' = Queued /\ Fetched' = Fetched
<1>1. Queued' = Queued /\ Fetched' = Fetched
  <2>1. \A d \in CPUs : d \in {e \in CPUs : cpu'[e].at = "fetched"} <=>
                        d \in {e \in CPUs : cpu[e].at = "fetched"}
    OBVIOUS
  <2> QED  BY <2>1 DEF Queued, Fetched
<1>2. \A s \in Queued' \cup Fetched' : state'[s] = "RUNNABLE"  BY <1>1 DEF ReadyOnce
<1>3. ASSUME NEW s \in Slots, state'[s] = "RUNNABLE", ~killed'[s]
      PROVE  \/ s \in Queued' \cup Fetched'
             \/ \E p \in Slots : kpc'[p] = "fork_queue" /\ child'[p] = s
  <2>1. CASE state[s] # "RUNNABLE"  BY <1>3, <2>1
  <2>2. CASE state[s] = "RUNNABLE"  BY <1>1, <1>3, <2>2 DEF ReadyOnce
  <2> QED  BY <2>1, <2>2
<1>4. \A c, d \in CPUs : c # d /\ cpu'[c].at = "fetched" /\ cpu'[d].at = "fetched"
                            => cpu'[c].proc # cpu'[d].proc
  BY DEF ReadyOnce
<1> QED  BY <1>1, <1>2, <1>3, <1>4 DEF ReadyOnce

(* One process becomes RUNNABLE and is queued; no CPU fetches.             *)
LEMMA ReadyAdd ==
  ASSUME TypeOK, ReadyOnce, NEW s \in Slots, fifo' = Enqueue(fifo, s),
         s \notin Queued \cup Fetched, state'[s] = "RUNNABLE",
         \A c \in CPUs : cpu'[c].at = "fetched" <=> cpu[c].at = "fetched",
         \A c \in CPUs : cpu[c].at = "fetched" => cpu'[c].proc = cpu[c].proc,
         \A t \in Slots \ {s} : state'[t] = "RUNNABLE" <=> state[t] = "RUNNABLE",
         UNCHANGED killed,
         \A p \in Slots : kpc[p] = "fork_queue" /\ child[p] # s =>
            kpc'[p] = "fork_queue" /\ child'[p] = child[p],
         \A t \in Queued \cup Fetched : t \in Slots
  PROVE  ReadyOnce' /\ Queued' = Queued \cup {s} /\ Fetched' = Fetched
<1>1. /\ Queued' = Queued \cup {s}
      /\ \A i, j \in 1 .. Len(fifo') : fifo'[i] = fifo'[j] => i = j
  BY EnqueueIs
<1>2. Fetched' = Fetched
  <2>1. \A d \in CPUs : d \in {e \in CPUs : cpu'[e].at = "fetched"} <=>
                        d \in {e \in CPUs : cpu[e].at = "fetched"}
    OBVIOUS
  <2> QED  BY <2>1 DEF Fetched
<1>3. \A t \in Queued' \cup Fetched' : state'[t] = "RUNNABLE"
  BY <1>1, <1>2 DEF ReadyOnce
<1>4. Queued' \cap Fetched' = {}  BY <1>1, <1>2 DEF ReadyOnce
<1>5. \A c, d \in CPUs : c # d /\ cpu'[c].at = "fetched" /\ cpu'[d].at = "fetched"
                            => cpu'[c].proc # cpu'[d].proc
  BY DEF ReadyOnce
<1>6. ASSUME NEW t \in Slots, state'[t] = "RUNNABLE", ~killed'[t]
      PROVE  \/ t \in Queued' \cup Fetched'
             \/ \E p \in Slots : kpc'[p] = "fork_queue" /\ child'[p] = t
  <2>1. CASE t = s  BY <1>1, <2>1
  <2>2. CASE t # s  BY <1>1, <1>2, <1>6, <2>2 DEF ReadyOnce
  <2> QED  BY <2>1, <2>2
<1> QED  BY <1>1, <1>2, <1>3, <1>4, <1>5, <1>6 DEF ReadyOnce

(* Nobody enters fork or moves on in it, and the slots forks own stay as   *)
(* they are.                                                               *)
LEMMA ForkFrame ==
  ASSUME ForkInv,
         \A p \in Slots : kpc'[p] \in ForkPcs => kpc[p] = kpc'[p] /\ child'[p] = child[p],
         \A s \in Slots : kpc[s] = "user" /\ state[s] # "RUNNING" => kpc'[s] = "user",
         \A s \in Slots : state[s] = "ALLOCATED" => state'[s] = "ALLOCATED",
         \A s \in Slots : state[s] = "RUNNABLE" /\ s \notin Fetched => state'[s] = "RUNNABLE",
         \A s \in Slots : s \in Queued' \cup Fetched' =>
            s \in Queued \cup Fetched \/ state[s] # "RUNNABLE"
  PROVE  ForkInv'
<1>1. ASSUME NEW p \in Slots, kpc'[p] \in ForkPcs
      PROVE  /\ child'[p] \in Slots
             /\ kpc'[child'[p]] = "user"
             /\ kpc'[p] # "fork_queue" => state'[child'[p]] = "ALLOCATED"
             /\ kpc'[p] = "fork_queue" => state'[child'[p]] = "RUNNABLE"
                                          /\ child'[p] \notin Queued' \cup Fetched'
  <2>1. kpc[p] = kpc'[p] /\ child'[p] = child[p] /\ kpc[p] \in ForkPcs  BY <1>1
  <2>2. child[p] \in Slots /\ kpc[child[p]] = "user"  BY <2>1 DEF ForkInv
  <2>3. CASE kpc[p] # "fork_queue"
    <3>1. state[child[p]] = "ALLOCATED"  BY <2>1, <2>3 DEF ForkInv
    <3> QED  BY <2>1, <2>2, <2>3, <3>1
  <2>4. CASE kpc[p] = "fork_queue"
    <3>1. state[child[p]] = "RUNNABLE" /\ child[p] \notin Queued \cup Fetched
      BY <2>1, <2>4 DEF ForkInv
    <3> QED  BY <2>1, <2>2, <2>4, <3>1
  <2> QED  BY <2>3, <2>4
<1>2. \A p, q \in Slots : p # q /\ kpc'[p] \in ForkPcs /\ kpc'[q] \in ForkPcs =>
         child'[p] # child'[q]
  BY DEF ForkInv
<1> QED  BY <1>1, <1>2 DEF ForkInv

(* The parent map is untouched, no slot is taken or freed, and nobody      *)
(* enters fork or moves on in it.                                          *)
LEMMA ParentFrame ==
  ASSUME ParentInv, UNCHANGED parent,
         \A s \in Slots : state'[s] = "UNUSED" <=> state[s] = "UNUSED",
         \A s \in Slots : state'[s] = "ALLOCATED" <=> state[s] = "ALLOCATED",
         \A p \in Slots : kpc'[p] \in {"fork_copy", "fork_parent", "fork_ready"} =>
            kpc[p] = kpc'[p] /\ child'[p] = child[p]
  PROVE  ParentInv'
BY DEF ParentInv

(* The parent map is untouched, nobody becomes a zombie and nobody falls   *)
(* asleep in waiting().                                                    *)
LEMMA WaitFrame ==
  ASSUME WaitInv, UNCHANGED parent,
         \A s \in Slots : state'[s] = "ZOMBIE" <=> state[s] = "ZOMBIE",
         \A s \in Slots : state'[s] = "SLEEPING" /\ chan'[s] = s =>
            state[s] = "SLEEPING" /\ chan[s] = s,
         \A s \in Slots : kpc[s] = "exit_init" => kpc'[s] = "exit_init",
         \A s \in Slots : kpc'[s] \in {"wait_sleep", "exit_zombie"} => kpc[s] = kpc'[s],
         \A s \in Slots : kpc[s] = "exit_zombie" => parent[s] \in Slots
  PROVE  WaitInv'
<1>1. \A p : Children(p)' = Children(p)  BY DEF Children
<1>2. \A p : Zombies(p)' = Zombies(p)  BY <1>1 DEF Zombies, Children
<1>3. \A p \in Slots : WaitsFor(p)' => WaitsFor(p)  BY DEF WaitsFor
<1>4. ASSUME NEW p \in Slots, WaitsFor(p)'
      PROVE  /\ Children(p)' # {}
             /\ Zombies(p)' = {} \/ (p = 0 /\ \E x \in Slots : kpc'[x] = "exit_init")
  <2>1. WaitsFor(p)  BY <1>3, <1>4
  <2>2. /\ Children(p) # {}
        /\ Zombies(p) = {} \/ (p = 0 /\ \E x \in Slots : kpc[x] = "exit_init")
    BY <2>1 DEF WaitInv
  <2> QED  BY <1>1, <1>2, <2>2
<1>5. \A p \in Slots : kpc'[p] = "wait_sleep" => Children(p)' # {} /\ Zombies(p)' = {}
  BY <1>1, <1>2 DEF WaitInv
<1>6. ASSUME NEW q \in Slots, kpc'[q] = "exit_zombie" PROVE ~WaitsFor(parent[q])'
  <2>1. kpc[q] = "exit_zombie" /\ parent[q] \in Slots  BY <1>6
  <2>2. ~WaitsFor(parent[q])  BY <2>1 DEF WaitInv
  <2> QED  BY <1>3, <2>1, <2>2 DEF WaitsFor
<1>7. UNCHANGED parent  OBVIOUS
<1> QED  BY <1>4, <1>5, <1>6, <1>7 DEF WaitInv, WaitsFor

(* Pids are untouched, and no process gets one by its state alone. *)
LEMMA PidFrame ==
  ASSUME PidInv, UNCHANGED <<pid, current, recycled>>,
         \A s \in Slots : state'[s] \notin {"UNUSED", "ZOMBIE"} =>
            state[s] \notin {"UNUSED", "ZOMBIE"}
  PROVE  PidInv'
BY DEF PidInv

-----------------------------------------------------------------------------
(***************************************************************************)
(* Facts about a state that satisfies the invariant.                       *)
(***************************************************************************)

(* The ranges of slots and channels. *)
LEMMA Ranges ==
  /\ 0 \in Slots /\ None \notin Slots
  /\ \A s \in Slots : s \in 0 .. None /\ s \in 0 .. TICKS /\ s # TICKS
  /\ \A s \in 0 .. None : s # None => s \in Slots
  /\ None \in 0 .. None /\ None \in 0 .. TICKS /\ TICKS \in 0 .. TICKS
  /\ NPROC \in 0 .. NPROC /\ 0 \in 0 .. NPROC
BY ProcAssumption DEF Slots, None, TICKS

(* Whoever is queued or fetched is a RUNNABLE slot, and whoever exits has  *)
(* a parent.                                                               *)
LEMMA Ready ==
  ASSUME ProcInv
  PROVE  /\ \A s \in Queued \cup Fetched : s \in Slots /\ state[s] = "RUNNABLE"
         /\ \A s \in Slots : kpc[s] \in {"exit_init", "exit_parent", "exit_zombie"} =>
               parent[s] \in Slots
<1>1. \A s \in Queued : s \in Slots  BY DEF ProcInv, TypeOK, Queued
<1>2. \A s \in Fetched : s \in Slots  BY DEF ProcInv, CpuInv, Fetched
<1>3. \A s \in Queued \cup Fetched : state[s] = "RUNNABLE"  BY DEF ProcInv, ReadyOnce
<1>4. ASSUME NEW s \in Slots, kpc[s] \in {"exit_init", "exit_parent", "exit_zombie"}
      PROVE  parent[s] \in Slots
  <2>1. state[s] = "RUNNING" /\ s # 0  BY <1>4 DEF ProcInv, KernelInv, ParentPcs
  <2>2. parent[s] # None  BY <2>1 DEF ProcInv, ParentInv
  <2>3. parent[s] \in 0 .. None  BY DEF ProcInv, TypeOK
  <2> QED  BY <2>2, <2>3, Ranges
<1> QED  BY <1>1, <1>2, <1>3, <1>4

(* A process on a CPU is RUNNING, and neither queued nor fetched. *)
LEMMA Running ==
  ASSUME ProcInv, NEW c \in CPUs, NEW p \in Slots, On(c, p)
  PROVE  /\ cpu[c].at = "run" /\ cpu[c].proc = p
         /\ state[p] = "RUNNING" /\ p \notin Queued \cup Fetched
         /\ p \notin Queued /\ p \notin Fetched
<1>1. cpu[c].at = "run" /\ cpu[c].proc = p  BY DEF On
<1>2. state[p] = "RUNNING"  BY <1>1 DEF ProcInv, CpuInv
<1> QED  BY <1>1, <1>2, Ready

CpuType == [CPUs -> [at : {"idle", "fetched", "resume", "run", "switch"}, proc : 0 .. None]]

(* A CPU moves on with the process it has, or with another or none. *)
LEMMA CpuGoes ==
  ASSUME TypeOK, NEW c \in CPUs, NEW a \in {"idle", "fetched", "resume", "run", "switch"},
         cpu' = [cpu EXCEPT ![c].at = a]
  PROVE  /\ cpu' \in CpuType
         /\ cpu'[c].at = a /\ cpu'[c].proc = cpu[c].proc
         /\ \A d \in CPUs \ {c} : cpu'[d] = cpu[d]
BY DEF TypeOK, CpuType

LEMMA CpuGets ==
  ASSUME TypeOK, NEW c \in CPUs, NEW a \in {"idle", "fetched", "resume", "run", "switch"},
         NEW x \in 0 .. None, cpu' = [cpu EXCEPT ![c] = [at |-> a, proc |-> x]]
  PROVE  /\ cpu' \in CpuType
         /\ cpu'[c].at = a /\ cpu'[c].proc = x
         /\ \A d \in CPUs \ {c} : cpu'[d] = cpu[d]
BY DEF TypeOK, CpuType

USE DEF excls, locks, pids

-----------------------------------------------------------------------------
(***************************************************************************)
(* The scheduler.                                                          *)
(***************************************************************************)

(* fetch: the process leaves the queue and is fetched by this CPU alone. *)
LEMMA FetchInv == ASSUME ProcInv, NEW c \in CPUs, Fetch(c) PROVE ProcInv'
<1> DEFINE h == Head(fifo)
<1>0. TypeOK /\ CpuInv /\ StackInv /\ ReadyOnce  BY DEF ProcInv
<1>1. /\ fifo' \in Seq(Slots) /\ h \in Queued /\ h \in Slots /\ Queued' = Queued \ {h}
      /\ \A i, j \in 1 .. Len(fifo') : fifo'[i] = fifo'[j] => i = j
      /\ cpu[c].at = "idle"
  BY <1>0, DequeueIs DEF Fetch
<1>2. cpu' = [cpu EXCEPT ![c] = [at |-> "fetched", proc |-> h]]  BY DEF Fetch
<1>3. UNCHANGED <<state, chan, pid, killed, parent, excl, parentsLk, ticksLk, kpc, child,
                  tick, current, recycled>>
  BY DEF Fetch
<1> HIDE DEF h
<1>4. /\ cpu' \in CpuType /\ cpu'[c].at = "fetched" /\ cpu'[c].proc = h
      /\ \A d \in CPUs \ {c} : cpu'[d] = cpu[d]
  BY <1>0, <1>1, <1>2, CpuGets, Ranges
<1>5. state[h] = "RUNNABLE"  BY <1>1, Ready
<1>6. Fetched' = Fetched \cup {h}
  <2>1. ASSUME NEW x \in Fetched' PROVE x \in Fetched \cup {h}
    BY <1>4, <2>1 DEF Fetched
  <2>2. ASSUME NEW x \in Fetched PROVE x \in Fetched'
    <3>1. PICK d \in CPUs : cpu[d].at = "fetched" /\ cpu[d].proc = x  BY DEF Fetched
    <3>2. cpu'[d].at = "fetched" /\ cpu'[d].proc = x  BY <1>1, <1>4, <3>1
    <3> QED  BY <3>2 DEF Fetched
  <2>3. h \in Fetched'  BY <1>4 DEF Fetched
  <2> QED  BY <2>1, <2>2, <2>3
<1>7. TypeOK'  BY <1>0, <1>1, <1>3, <1>4 DEF TypeOK, CpuType
<1>8. CpuInv'  BY <1>0, <1>1, <1>3, <1>4, <1>5 DEF CpuInv
<1>9. StackInv'  BY <1>0, <1>1, <1>4 DEF StackInv, Busy
<1>10. ReadyOnce'
  <2>1. h \notin Fetched  BY <1>0, <1>1 DEF ReadyOnce
  <2>2. \A d \in CPUs : cpu[d].at = "fetched" => cpu[d].proc # h  BY <2>1 DEF Fetched
  <2>3. \A d, e \in CPUs : d # e /\ cpu'[d].at = "fetched" /\ cpu'[e].at = "fetched"
                              => cpu'[d].proc # cpu'[e].proc
    BY <1>0, <1>4, <2>2 DEF ReadyOnce
  <2>4. Queued' \cup Fetched' = Queued \cup Fetched  BY <1>1, <1>6
  <2>5. Queued' \cap Fetched' = {}  BY <1>0, <1>1, <1>6 DEF ReadyOnce
  <2> QED  BY <1>0, <1>1, <1>3, <2>3, <2>4, <2>5 DEF ReadyOnce
<1>11. ForkInv'
  <2>1. ForkInv /\ Queued' \cup Fetched' = Queued \cup Fetched
    BY <1>1, <1>6 DEF ProcInv
  <2> QED  BY <1>3, <2>1, ForkFrame
<1>12. KernelInv' /\ ParentInv' /\ PidInv'
  BY <1>3 DEF ProcInv, KernelInv, ParentInv, PidInv
<1>13. WaitInv'  BY <1>3, Ready, WaitFrame DEF ProcInv
<1> QED  BY <1>7, <1>8, <1>9, <1>10, <1>11, <1>12, <1>13 DEF ProcInv

(* The scheduler has the lock of the process and runs it: nobody else can  *)
(* be using its stack, or would hold the lock or find it RUNNING.          *)
LEMMA DispatchInv == ASSUME ProcInv, NEW c \in CPUs, Dispatch(c) PROVE ProcInv'
<1> DEFINE p == cpu[c].proc
<1>0. TypeOK /\ CpuInv /\ StackInv /\ ReadyOnce  BY DEF ProcInv
<1>1. /\ cpu[c].at = "fetched" /\ p \notin excl /\ excl' = excl \cup {p}
      /\ state' = [state EXCEPT ![p] = "RUNNING"]
      /\ cpu' = [cpu EXCEPT ![c].at = "resume"]
      /\ UNCHANGED <<chan, pid, killed, parent, parentsLk, fifo, kpc, child, ticksLk,
                     tick, current, recycled>>
  BY DEF Dispatch
<1>2. p \in Slots /\ state[p] = "RUNNABLE"  BY <1>0, <1>1 DEF CpuInv
<1>3. /\ cpu' \in CpuType /\ cpu'[c].at = "resume" /\ cpu'[c].proc = p
      /\ \A d \in CPUs \ {c} : cpu'[d] = cpu[d]
  BY <1>0, <1>1, CpuGoes
<1>4. p \in Fetched /\ p \notin Queued
  <2>1. p \in Fetched  BY <1>1 DEF Fetched
  <2> QED  BY <1>0, <2>1 DEF ReadyOnce
<1>5. \A d \in CPUs \ {c} : cpu[d].at # "idle" => cpu[d].proc # p
  <2> SUFFICES ASSUME NEW d \in CPUs \ {c}, cpu[d].at # "idle", cpu[d].proc = p
               PROVE  FALSE
    OBVIOUS
  <2>1. cpu[d].at # "fetched"  BY <1>0, <1>1 DEF ReadyOnce
  <2>2. cpu[d].at \notin {"resume", "run", "switch"}
    BY <1>0, <1>1, <1>2 DEF CpuInv
  <2>3. cpu[d].at \in {"idle", "fetched", "resume", "run", "switch"}
    BY <1>0 DEF TypeOK
  <2> QED  BY <2>1, <2>2, <2>3
<1> HIDE DEF p
<1>6. /\ state' \in [Slots -> States] /\ state'[p] = "RUNNING"
      /\ \A s \in Slots \ {p} : state'[s] = state[s]
  BY <1>0, <1>1, <1>2 DEF TypeOK, States
<1>7. Fetched' = Fetched \ {p} /\ Queued' = Queued
  <2>1. ASSUME NEW x \in Fetched' PROVE x \in Fetched /\ x # p
    <3>1. PICK d \in CPUs : cpu'[d].at = "fetched" /\ cpu'[d].proc = x  BY DEF Fetched
    <3>2. d # c /\ cpu[d].at = "fetched" /\ cpu[d].proc = x  BY <1>3, <3>1
    <3> QED  BY <1>5, <3>2 DEF Fetched
  <2>2. ASSUME NEW x \in Fetched, x # p PROVE x \in Fetched'
    <3>1. PICK d \in CPUs : cpu[d].at = "fetched" /\ cpu[d].proc = x  BY DEF Fetched
    <3>2. cpu'[d].at = "fetched" /\ cpu'[d].proc = x  BY <1>3, <2>2, <3>1 DEF p
    <3> QED  BY <3>2 DEF Fetched
  <2>3. Queued' = Queued  BY <1>1 DEF Queued
  <2> QED  BY <2>1, <2>2, <2>3
<1>8. TypeOK'  BY <1>0, <1>1, <1>2, <1>3, <1>6 DEF TypeOK, CpuType
<1>9. CpuInv'
  <2>1. ASSUME NEW d \in CPUs, d # c
        PROVE  /\ cpu'[d] = cpu[d]
               /\ cpu[d].at # "idle" => cpu[d].proc \in Slots /\ cpu[d].proc # p
    BY <1>0, <1>3, <1>5, <2>1 DEF CpuInv
  <2> QED  BY <1>0, <1>1, <1>2, <1>3, <1>6, <2>1 DEF CpuInv
<1>10. StackInv'  BY <1>0, <1>3, <1>5 DEF StackInv, Busy
<1>11. ReadyOnce'
  <2>1. \A s \in Queued' \cup Fetched' : state'[s] = "RUNNABLE"
    BY <1>4, <1>6, <1>7, Ready
  <2>2. Queued' \cap Fetched' = {}  BY <1>0, <1>7 DEF ReadyOnce
  <2>3. \A d, e \in CPUs : d # e /\ cpu'[d].at = "fetched" /\ cpu'[e].at = "fetched"
                              => cpu'[d].proc # cpu'[e].proc
    BY <1>0, <1>3 DEF ReadyOnce
  <2>4. \A s \in Slots : state'[s] = "RUNNABLE" /\ ~killed'[s] =>
           \/ s \in Queued' \cup Fetched'
           \/ \E q \in Slots : kpc'[q] = "fork_queue" /\ child'[q] = s
    BY <1>0, <1>1, <1>6, <1>7 DEF ReadyOnce
  <2> QED  BY <1>0, <1>1, <2>1, <2>2, <2>3, <2>4 DEF ReadyOnce
<1>12. ForkInv'
  <2>1. ForkInv  BY DEF ProcInv
  <2>2. \A s \in Slots : state[s] = "RUNNABLE" /\ s \notin Fetched => state'[s] = "RUNNABLE"
    BY <1>4, <1>6
  <2>3. \A s \in Slots : state[s] = "ALLOCATED" => state'[s] = "ALLOCATED"
    BY <1>2, <1>6
  <2> QED  BY <1>1, <1>7, <2>1, <2>2, <2>3, ForkFrame
<1>13. KernelInv'  BY <1>1, <1>2, <1>6 DEF ProcInv, KernelInv
<1>14. ParentInv'  BY <1>1, <1>2, <1>6, ParentFrame DEF ProcInv
<1>15. WaitInv'  BY <1>1, <1>2, <1>6, Ready, WaitFrame DEF ProcInv
<1>16. PidInv'  BY <1>1, <1>2, <1>6, PidFrame DEF ProcInv
<1> QED  BY <1>8, <1>9, <1>10, <1>11, <1>12, <1>13, <1>14, <1>15, <1>16 DEF ProcInv

(* The process releases its own lock and goes on; a sleeper clears its     *)
(* channel.                                                                *)
LEMMA ResumeInv == ASSUME ProcInv, NEW c \in CPUs, Resume(c) PROVE ProcInv'
<1> DEFINE p == cpu[c].proc
<1>0. TypeOK /\ CpuInv /\ StackInv /\ ReadyOnce  BY DEF ProcInv
<1>1. /\ cpu[c].at = "resume" /\ excl' = excl \ {p}
      /\ chan' = [chan EXCEPT ![p] = None]
      /\ cpu' = [cpu EXCEPT ![c].at = "run"]
      /\ UNCHANGED <<state, pid, killed, parent, parentsLk, fifo, kpc, child, ticksLk,
                     tick, current, recycled>>
  BY DEF Resume
<1>2. p \in Slots /\ state[p] = "RUNNING"  BY <1>0, <1>1 DEF CpuInv
<1>3. /\ cpu' \in CpuType /\ cpu'[c].at = "run" /\ cpu'[c].proc = p
      /\ \A d \in CPUs \ {c} : cpu'[d] = cpu[d]
  BY <1>0, <1>1, CpuGoes
<1>4. \A d \in CPUs \ {c} : cpu[d].at \in {"resume", "switch"} => cpu[d].proc # p
  BY <1>0, <1>1 DEF StackInv, Busy
<1> HIDE DEF p
<1>5. /\ chan' \in [Slots -> 0 .. TICKS] /\ chan'[p] = None
      /\ \A s \in Slots \ {p} : chan'[s] = chan[s]
  BY <1>0, <1>1, <1>2, Ranges DEF TypeOK
<1>6. Fetched' = Fetched /\ Queued' = Queued
  <2>1. \A d \in CPUs : /\ cpu'[d].at = "fetched" <=> cpu[d].at = "fetched"
                        /\ cpu'[d].proc = cpu[d].proc
    BY <1>1, <1>3 DEF p
  <2> QED  BY <1>1, <2>1 DEF Fetched, Queued
<1>7. TypeOK'  BY <1>0, <1>1, <1>3, <1>5 DEF TypeOK, CpuType
<1>8. CpuInv'  BY <1>0, <1>1, <1>2, <1>3, <1>4 DEF CpuInv
<1>9. StackInv'  BY <1>0, <1>1, <1>3 DEF StackInv, Busy, p
<1>10. ReadyOnce'
  <2>1. \A d, e \in CPUs : d # e /\ cpu'[d].at = "fetched" /\ cpu'[e].at = "fetched"
                              => cpu'[d].proc # cpu'[e].proc
    BY <1>0, <1>3 DEF ReadyOnce
  <2> QED  BY <1>0, <1>1, <1>6, <2>1 DEF ReadyOnce
<1>11. ForkInv'  BY <1>1, <1>6, ForkFrame DEF ProcInv
<1>12. KernelInv' /\ ParentInv' /\ PidInv'
  BY <1>1 DEF ProcInv, KernelInv, ParentInv, PidInv
<1>13. WaitInv'
  <2>1. \A s \in Slots : state'[s] = "SLEEPING" /\ chan'[s] = s =>
           state[s] = "SLEEPING" /\ chan[s] = s
    BY <1>1, <1>2, <1>5
  <2> QED  BY <1>1, <2>1, Ready, WaitFrame DEF ProcInv
<1> QED  BY <1>7, <1>8, <1>9, <1>10, <1>11, <1>12, <1>13 DEF ProcInv

(* The scheduler releases the lock of the process that has left. *)
LEMMA SwitchBackInv == ASSUME ProcInv, NEW c \in CPUs, SwitchBack(c) PROVE ProcInv'
<1> DEFINE p == cpu[c].proc
<1>0. TypeOK /\ CpuInv /\ StackInv /\ ReadyOnce  BY DEF ProcInv
<1>1. /\ cpu[c].at = "switch" /\ excl' = excl \ {p}
      /\ cpu' = [cpu EXCEPT ![c] = [at |-> "idle", proc |-> None]]
      /\ UNCHANGED <<state, chan, pid, killed, parent, parentsLk, fifo, kpc, child, ticksLk,
                     tick, current, recycled>>
  BY DEF SwitchBack
<1>2. /\ cpu' \in CpuType /\ cpu'[c].at = "idle" /\ cpu'[c].proc = None
      /\ \A d \in CPUs \ {c} : cpu'[d] = cpu[d]
  BY <1>0, <1>1, CpuGets, Ranges
<1>3. \A d \in CPUs \ {c} : cpu[d].at \in {"resume", "switch"} => cpu[d].proc # p
  BY <1>0, <1>1 DEF StackInv, Busy
<1> HIDE DEF p
<1>4. Fetched' = Fetched /\ Queued' = Queued
  <2>1. \A d \in CPUs : /\ cpu'[d].at = "fetched" <=> cpu[d].at = "fetched"
                        /\ cpu[d].at = "fetched" => cpu'[d].proc = cpu[d].proc
    BY <1>1, <1>2
  <2> QED  BY <1>1, <2>1 DEF Fetched, Queued
<1>5. TypeOK'  BY <1>0, <1>1, <1>2 DEF TypeOK, CpuType
<1>6. CpuInv'  BY <1>0, <1>1, <1>2, <1>3 DEF CpuInv
<1>7. StackInv'  BY <1>0, <1>1, <1>2 DEF StackInv, Busy
<1>8. ReadyOnce'
  <2>1. \A d, e \in CPUs : d # e /\ cpu'[d].at = "fetched" /\ cpu'[e].at = "fetched"
                              => cpu'[d].proc # cpu'[e].proc
    BY <1>0, <1>2 DEF ReadyOnce
  <2> QED  BY <1>0, <1>1, <1>4, <2>1 DEF ReadyOnce
<1>9. ForkInv'  BY <1>1, <1>4, ForkFrame DEF ProcInv
<1>10. KernelInv' /\ ParentInv' /\ PidInv'
  BY <1>1 DEF ProcInv, KernelInv, ParentInv, PidInv
<1>11. WaitInv'  BY <1>1, Ready, WaitFrame DEF ProcInv
<1> QED  BY <1>5, <1>6, <1>7, <1>8, <1>9, <1>10, <1>11 DEF ProcInv

-----------------------------------------------------------------------------
(***************************************************************************)
(* The steps that leave the CPU through sched().                           *)
(***************************************************************************)
KernelPcs == Preemptible \cup {"exit_init", "exit_parent", "exit_zombie",
                               "wait", "wait_sleep", "tick_sleep"}

(* What sched() does to the CPU and to the process. *)
LEMMA SchedIs ==
  ASSUME ProcInv, NEW c \in CPUs, NEW p \in Slots, On(c, p),
         NEW st \in {"RUNNABLE", "SLEEPING", "ZOMBIE"}, NEW ch \in 0 .. TICKS,
         NEW next \in KernelPcs, Sched(c, p, st, ch, next)
  PROVE  /\ CpuInv' /\ StackInv' /\ cpu' \in CpuType /\ excl' \subseteq Slots
         /\ state' \in [Slots -> States] /\ state'[p] = st
         /\ \A s \in Slots \ {p} : state'[s] = state[s]
         /\ chan' \in [Slots -> 0 .. TICKS] /\ chan'[p] = ch
         /\ \A s \in Slots \ {p} : chan'[s] = chan[s]
         /\ kpc' \in [Slots -> KernelPcs] /\ kpc'[p] = next
         /\ \A s \in Slots \ {p} : kpc'[s] = kpc[s]
         /\ \A d \in CPUs : cpu'[d].at = "fetched" <=> cpu[d].at = "fetched"
         /\ \A d \in CPUs : cpu[d].at = "fetched" => cpu'[d].proc = cpu[d].proc
         /\ Fetched' = Fetched
<1>0. TypeOK /\ CpuInv /\ StackInv  BY DEF ProcInv
<1>1. /\ cpu[c].at = "run" /\ cpu[c].proc = p /\ state[p] = "RUNNING"
  BY Running
<1>2. /\ p \notin excl /\ excl' = excl \cup {p}
      /\ state' = [state EXCEPT ![p] = st]
      /\ chan' = [chan EXCEPT ![p] = ch]
      /\ cpu' = [cpu EXCEPT ![c].at = "switch"]
      /\ kpc' = [kpc EXCEPT ![p] = next]
  BY DEF Sched
<1>3. /\ cpu' \in CpuType /\ cpu'[c].at = "switch" /\ cpu'[c].proc = p
      /\ \A d \in CPUs \ {c} : cpu'[d] = cpu[d]
  BY <1>0, <1>1, <1>2, CpuGoes
<1>4. /\ state' \in [Slots -> States] /\ state'[p] = st
      /\ \A s \in Slots \ {p} : state'[s] = state[s]
  BY <1>0, <1>2 DEF TypeOK, States
<1>5. /\ chan' \in [Slots -> 0 .. TICKS] /\ chan'[p] = ch
      /\ \A s \in Slots \ {p} : chan'[s] = chan[s]
  BY <1>0, <1>2 DEF TypeOK
<1>6. /\ kpc' \in [Slots -> KernelPcs] /\ kpc'[p] = next
      /\ \A s \in Slots \ {p} : kpc'[s] = kpc[s]
  BY <1>0, <1>2 DEF TypeOK, KernelPcs
<1>7. \A d \in CPUs \ {c} : cpu[d].at # "idle" => cpu[d].proc # p
  <2> SUFFICES ASSUME NEW d \in CPUs \ {c}, cpu[d].at # "idle", cpu[d].proc = p
               PROVE  FALSE
    OBVIOUS
  <2>1. cpu[d].at \notin {"resume", "run", "switch"}
    BY <1>0, <1>1 DEF StackInv, Busy
  <2>2. cpu[d].at # "fetched"  BY <1>0, <1>1 DEF CpuInv
  <2>3. cpu[d].at \in {"idle", "fetched", "resume", "run", "switch"}
    BY <1>0 DEF TypeOK
  <2> QED  BY <2>1, <2>2, <2>3
<1>8. CpuInv'
  <2>1. ASSUME NEW d \in CPUs, d # c
        PROVE  /\ cpu'[d] = cpu[d]
               /\ cpu[d].at # "idle" => cpu[d].proc \in Slots /\ cpu[d].proc # p
    BY <1>0, <1>3, <1>7, <2>1 DEF CpuInv
  <2> QED  BY <1>0, <1>2, <1>3, <1>4, <2>1 DEF CpuInv
<1>9. StackInv'  BY <1>0, <1>3, <1>7 DEF StackInv, Busy
<1>10. excl' \subseteq Slots  BY <1>0, <1>2 DEF TypeOK
<1>11. /\ \A d \in CPUs : cpu'[d].at = "fetched" <=> cpu[d].at = "fetched"
       /\ \A d \in CPUs : cpu[d].at = "fetched" => cpu'[d].proc = cpu[d].proc
  BY <1>1, <1>3
<1>12. Fetched' = Fetched  BY <1>11 DEF Fetched
<1> QED  BY <1>3, <1>4, <1>5, <1>6, <1>8, <1>9, <1>10, <1>11, <1>12

(* The timer preempts: the process is queued before it has left its stack, *)
(* with the lock that keeps others from it.                                *)
LEMMA YieldInv == ASSUME ProcInv, NEW c \in CPUs, NEW p \in Slots, Yield(c, p) PROVE ProcInv'
<1>0. TypeOK /\ CpuInv /\ StackInv /\ ReadyOnce  BY DEF ProcInv
<1>1. /\ On(c, p) /\ kpc[p] \in Preemptible /\ Sched(c, p, "RUNNABLE", chan[p], kpc[p])
      /\ fifo' = Enqueue(fifo, p)
      /\ UNCHANGED <<pid, killed, parent, parentsLk, child, ticksLk, tick, current, recycled>>
  BY DEF Yield
<1>2. state[p] = "RUNNING" /\ p \notin Queued \cup Fetched  BY <1>1, Running
<1>3. chan[p] \in 0 .. TICKS /\ kpc[p] \in KernelPcs /\ "RUNNABLE" \in {"RUNNABLE", "SLEEPING", "ZOMBIE"}
  BY <1>0, <1>1 DEF TypeOK, KernelPcs
<1>4. /\ CpuInv' /\ StackInv' /\ cpu' \in CpuType /\ excl' \subseteq Slots
      /\ state' \in [Slots -> States] /\ state'[p] = "RUNNABLE"
      /\ \A s \in Slots \ {p} : state'[s] = state[s]
      /\ chan' \in [Slots -> 0 .. TICKS] /\ \A s \in Slots : chan'[s] = chan[s]
      /\ kpc' \in [Slots -> KernelPcs] /\ \A s \in Slots : kpc'[s] = kpc[s]
      /\ \A d \in CPUs : cpu'[d].at = "fetched" <=> cpu[d].at = "fetched"
      /\ \A d \in CPUs : cpu[d].at = "fetched" => cpu'[d].proc = cpu[d].proc
      /\ Fetched' = Fetched
  BY <1>1, <1>3, SchedIs
<1>5. ReadyOnce' /\ Queued' = Queued \cup {p}
  BY <1>0, <1>1, <1>2, <1>4, Ready, ReadyAdd
<1>6. fifo' \in Seq(Slots)  BY <1>0, <1>1, <1>2, EnqueueIs
<1>7. TypeOK'  BY <1>0, <1>1, <1>4, <1>6 DEF TypeOK, CpuType, KernelPcs
<1>8. ForkInv'  BY <1>1, <1>2, <1>4, <1>5, ForkFrame DEF ProcInv
<1>9. KernelInv'
  BY <1>1, <1>2, <1>4 DEF ProcInv, KernelInv, ParentPcs, Preemptible
<1>10. ParentInv'  BY <1>1, <1>2, <1>4, ParentFrame DEF ProcInv
<1>11. WaitInv'  BY <1>1, <1>2, <1>4, Ready, WaitFrame DEF ProcInv
<1>12. PidInv'  BY <1>1, <1>2, <1>4, PidFrame DEF ProcInv
<1> QED  BY <1>4, <1>5, <1>7, <1>8, <1>9, <1>10, <1>11, <1>12 DEF ProcInv

(* sched() without a place in the queue: the parts of the invariant that   *)
(* do not depend on why the process leaves.                                *)
LEMMA SchedAway ==
  ASSUME ProcInv, NEW c \in CPUs, NEW p \in Slots, On(c, p),
         NEW st \in {"SLEEPING", "ZOMBIE"}, NEW ch \in 0 .. TICKS,
         NEW next \in {"user", "wait_again", "tick_again"}, Sched(c, p, st, ch, next),
         st = "ZOMBIE" => next = "user",
         kpc[p] \in {"exit_zombie", "wait_sleep", "tick_sleep"},
         UNCHANGED <<killed, fifo, child>>
  PROVE  ReadyOnce' /\ ForkInv' /\ Queued' = Queued
<1>1. state[p] = "RUNNING" /\ p \notin Queued \cup Fetched  BY Running
<1>2. next \in KernelPcs /\ st \in {"RUNNABLE", "SLEEPING", "ZOMBIE"}
  BY DEF KernelPcs, Preemptible
<1>3. /\ state'[p] = st /\ \A s \in Slots \ {p} : state'[s] = state[s]
      /\ kpc'[p] = next /\ \A s \in Slots \ {p} : kpc'[s] = kpc[s]
      /\ \A d \in CPUs : cpu'[d].at = "fetched" <=> cpu[d].at = "fetched"
      /\ \A d \in CPUs : cpu[d].at = "fetched" => cpu'[d].proc = cpu[d].proc
  BY <1>2, SchedIs
<1>4. ReadyOnce' /\ Queued' = Queued /\ Fetched' = Fetched
  <2>1. \A s \in Slots : state[s] = "RUNNABLE" => state'[s] = "RUNNABLE"  BY <1>1, <1>3
  <2>2. \A s \in Slots : ~(state'[s] = "RUNNABLE" /\ state[s] # "RUNNABLE")  BY <1>3
  <2>3. \A q \in Slots : kpc[q] = "fork_queue" =>
           kpc'[q] = "fork_queue" /\ child'[q] = child[q]
    BY <1>3
  <2>4. ReadyOnce  BY DEF ProcInv
  <2> QED  BY <1>3, <2>1, <2>2, <2>3, <2>4, Ready, ReadyFrame
<1>5. ForkInv'
  <2>1. \A q \in Slots : kpc'[q] \in ForkPcs => kpc[q] = kpc'[q] /\ child'[q] = child[q]
    BY <1>3 DEF ForkPcs
  <2>2. \A s \in Slots : kpc[s] = "user" /\ state[s] # "RUNNING" => kpc'[s] = "user"
    BY <1>1, <1>3
  <2>3. \A s \in Slots : state[s] \in {"ALLOCATED", "RUNNABLE"} => state'[s] = state[s]
    BY <1>1, <1>3
  <2> QED  BY <1>4, <2>1, <2>2, <2>3, ForkFrame DEF ProcInv
<1> QED  BY <1>4, <1>5

(* exit ends: the parent, which it has woken, is not asleep, and init has  *)
(* been woken if it has become a parent of zombies.                        *)
LEMMA ExitZombieInv ==
  ASSUME ProcInv, NEW c \in CPUs, NEW p \in Slots, ExitZombie(c, p) PROVE ProcInv'
<1>0. TypeOK /\ CpuInv /\ StackInv /\ ReadyOnce  BY DEF ProcInv
<1>1. /\ On(c, p) /\ kpc[p] = "exit_zombie" /\ Sched(c, p, "ZOMBIE", chan[p], "user")
      /\ recycled' = Append(recycled, pid[p]) /\ parentsLk' = None
      /\ UNCHANGED <<pid, killed, parent, fifo, child, ticksLk, tick, current>>
  BY DEF ExitZombie
<1>2. state[p] = "RUNNING" /\ p \notin Queued \cup Fetched  BY <1>1, Running
<1>3. chan[p] \in 0 .. TICKS /\ "user" \in KernelPcs  BY <1>0 DEF TypeOK, KernelPcs, Preemptible
<1>4. /\ CpuInv' /\ StackInv' /\ cpu' \in CpuType /\ excl' \subseteq Slots
      /\ state' \in [Slots -> States] /\ state'[p] = "ZOMBIE"
      /\ \A s \in Slots \ {p} : state'[s] = state[s]
      /\ chan' \in [Slots -> 0 .. TICKS] /\ \A s \in Slots : chan'[s] = chan[s]
      /\ kpc' \in [Slots -> KernelPcs] /\ kpc'[p] = "user"
      /\ \A s \in Slots \ {p} : kpc'[s] = kpc[s]
  BY <1>1, <1>3, SchedIs
<1>5. ReadyOnce' /\ ForkInv'
  BY <1>1, <1>3, SchedAway
<1>6. parentsLk = p /\ p # 0 /\ \A q \in Slots \ {p} : kpc[q] \notin ParentPcs
  BY <1>1 DEF ProcInv, KernelInv, ParentPcs
<1>7. TypeOK'
  <2>1. recycled' \in Seq(Nat)  BY <1>0, <1>1 DEF TypeOK
  <2> QED  BY <1>0, <1>1, <1>4, <2>1, Ranges DEF TypeOK, CpuType, KernelPcs
<1>8. KernelInv'
  BY <1>4, <1>6 DEF ProcInv, KernelInv, ParentPcs
<1>9. ParentInv'  BY <1>1, <1>2, <1>4, ParentFrame DEF ProcInv
<1>10. WaitInv'
  <2>1. parent[p] \in Slots /\ ~WaitsFor(parent[p])
    BY <1>1, Ready DEF ProcInv, WaitInv
  <2>2. \A q \in Slots : WaitsFor(q)' => WaitsFor(q)  BY <1>2, <1>4 DEF WaitsFor
  <2>3. ASSUME NEW q \in Slots, WaitsFor(q)' PROVE Children(q)' # {} /\ Zombies(q)' = {}
    <3>1. WaitsFor(q) /\ q # parent[p]  BY <2>1, <2>2, <2>3
    <3>2. ~\E x \in Slots : kpc[x] = "exit_init"  BY <1>1, <1>6 DEF ParentPcs
    <3>3. Children(q) # {} /\ Zombies(q) = {}  BY <3>1, <3>2 DEF ProcInv, WaitInv
    <3>4. Children(q)' = Children(q)  BY <1>1 DEF Children
    <3>5. Zombies(q)' = {}  BY <1>1, <1>4, <3>1, <3>3 DEF Zombies, Children
    <3> QED  BY <3>3, <3>4, <3>5
  <2>4. \A q \in Slots : kpc'[q] \notin {"wait_sleep", "exit_zombie"}
    BY <1>4, <1>6 DEF ParentPcs
  <2> QED  BY <2>3, <2>4 DEF WaitInv
<1>11. PidInv'
  <2>1. PidInv  BY DEF ProcInv
  <2>2. /\ recycled \in Seq(Nat) /\ pid[p] \in Nat /\ Len(recycled) \in Nat
        /\ Len(recycled') = Len(recycled) + 1
        /\ \A i \in 1 .. Len(recycled) : recycled'[i] = recycled[i]
        /\ recycled'[Len(recycled) + 1] = pid[p]
    BY <1>0, <1>1 DEF TypeOK
  <2>3. \A i \in 1 .. Len(recycled') : i \in 1 .. Len(recycled) \/ i = Len(recycled) + 1
    BY <2>2
  <2>4. \A i \in 1 .. Len(recycled) : recycled[i] # pid[p]  BY <1>2, <2>1 DEF PidInv
  <2>5. \A i, j \in 1 .. Len(recycled') : recycled'[i] = recycled'[j] => i = j
    BY <2>1, <2>2, <2>3, <2>4 DEF PidInv
  <2>6. \A i \in 1 .. Len(recycled') : recycled'[i] < current
    BY <2>1, <2>2, <2>3 DEF PidInv
  <2>7. ASSUME NEW s \in Slots, state'[s] \notin {"UNUSED", "ZOMBIE"}
        PROVE  \A i \in 1 .. Len(recycled') : recycled'[i] # pid[s]
    <3>1. s # p /\ state[s] \notin {"UNUSED", "ZOMBIE"}  BY <1>4, <2>7
    <3>2. pid[s] # pid[p] /\ \A i \in 1 .. Len(recycled) : recycled[i] # pid[s]
      BY <1>2, <2>1, <3>1 DEF PidInv
    <3> QED  BY <2>2, <2>3, <3>2
  <2>8. \A s, t \in Slots : s # t /\ state'[s] \notin {"UNUSED", "ZOMBIE"}
                               /\ state'[t] \notin {"UNUSED", "ZOMBIE"} => pid[s] # pid[t]
    BY <1>4, <2>1 DEF PidInv
  <2>9. \A s \in Slots : pid[s] < current  BY <2>1 DEF PidInv
  <2> QED  BY <1>1, <2>5, <2>6, <2>7, <2>8, <2>9 DEF PidInv
<1> QED  BY <1>4, <1>5, <1>7, <1>8, <1>9, <1>10, <1>11 DEF ProcInv

(* wait sleeps, with a child and no zombie. *)
LEMMA WaitSleepInv ==
  ASSUME ProcInv, NEW c \in CPUs, NEW p \in Slots, WaitSleep(c, p) PROVE ProcInv'
<1>0. TypeOK /\ CpuInv /\ StackInv /\ ReadyOnce  BY DEF ProcInv
<1>1. /\ On(c, p) /\ kpc[p] = "wait_sleep" /\ Sched(c, p, "SLEEPING", p, "wait_again")
      /\ parentsLk' = None
      /\ UNCHANGED <<pid, killed, parent, fifo, child, ticksLk, tick, current, recycled>>
  BY DEF WaitSleep
<1>2. state[p] = "RUNNING" /\ p \notin Queued \cup Fetched  BY <1>1, Running
<1>3. p \in 0 .. TICKS /\ "wait_again" \in KernelPcs  BY Ranges DEF KernelPcs, Preemptible
<1>4. /\ CpuInv' /\ StackInv' /\ cpu' \in CpuType /\ excl' \subseteq Slots
      /\ state' \in [Slots -> States] /\ state'[p] = "SLEEPING"
      /\ \A s \in Slots \ {p} : state'[s] = state[s]
      /\ chan' \in [Slots -> 0 .. TICKS] /\ \A s \in Slots \ {p} : chan'[s] = chan[s]
      /\ kpc' \in [Slots -> KernelPcs] /\ kpc'[p] = "wait_again"
      /\ \A s \in Slots \ {p} : kpc'[s] = kpc[s]
  BY <1>1, <1>3, SchedIs
<1>5. ReadyOnce' /\ ForkInv'
  BY <1>1, <1>3, SchedAway
<1>6. parentsLk = p /\ \A q \in Slots \ {p} : kpc[q] \notin ParentPcs
  BY <1>1 DEF ProcInv, KernelInv, ParentPcs
<1>7. TypeOK'  BY <1>0, <1>1, <1>4, Ranges DEF TypeOK, CpuType, KernelPcs
<1>8. KernelInv'
  BY <1>4, <1>6 DEF ProcInv, KernelInv, ParentPcs
<1>9. ParentInv'  BY <1>1, <1>2, <1>4, ParentFrame DEF ProcInv
<1>10. WaitInv'
  <2>1. \A q : Children(q)' = Children(q) /\ Zombies(q)' = Zombies(q)
    BY <1>1, <1>2, <1>4 DEF Zombies, Children
  <2>2. Children(p) # {} /\ Zombies(p) = {}  BY <1>1 DEF ProcInv, WaitInv
  <2>3. ~\E x \in Slots : kpc[x] = "exit_init"  BY <1>1, <1>6 DEF ParentPcs
  <2>4. ASSUME NEW q \in Slots, WaitsFor(q)' PROVE Children(q)' # {} /\ Zombies(q)' = {}
    <3>1. CASE q = p  BY <2>1, <2>2, <3>1
    <3>2. CASE q # p
      <4>1. WaitsFor(q)  BY <1>4, <2>4, <3>2 DEF WaitsFor
      <4> QED  BY <2>1, <2>3, <4>1 DEF ProcInv, WaitInv
    <3> QED  BY <3>1, <3>2
  <2>5. \A q \in Slots : kpc'[q] \notin {"wait_sleep", "exit_zombie"}
    BY <1>4, <1>6 DEF ParentPcs
  <2> QED  BY <2>4, <2>5 DEF WaitInv
<1>11. PidInv'  BY <1>1, <1>2, <1>4, PidFrame DEF ProcInv
<1> QED  BY <1>4, <1>5, <1>7, <1>8, <1>9, <1>10, <1>11 DEF ProcInv

(* clock_sleep sleeps. *)
LEMMA TickSleepInv ==
  ASSUME ProcInv, NEW c \in CPUs, NEW p \in Slots, TickSleep(c, p) PROVE ProcInv'
<1>0. TypeOK /\ CpuInv /\ StackInv /\ ReadyOnce  BY DEF ProcInv
<1>1. /\ On(c, p) /\ kpc[p] = "tick_sleep" /\ Sched(c, p, "SLEEPING", TICKS, "tick_again")
      /\ ticksLk' = None
      /\ UNCHANGED <<pid, killed, parent, fifo, child, parentsLk, tick, current, recycled>>
  BY DEF TickSleep
<1>2. state[p] = "RUNNING" /\ p \notin Queued \cup Fetched  BY <1>1, Running
<1>3. TICKS \in 0 .. TICKS /\ "tick_again" \in KernelPcs  BY Ranges DEF KernelPcs, Preemptible
<1>4. /\ CpuInv' /\ StackInv' /\ cpu' \in CpuType /\ excl' \subseteq Slots
      /\ state' \in [Slots -> States] /\ state'[p] = "SLEEPING"
      /\ \A s \in Slots \ {p} : state'[s] = state[s]
      /\ chan' \in [Slots -> 0 .. TICKS] /\ chan'[p] = TICKS
      /\ \A s \in Slots \ {p} : chan'[s] = chan[s]
      /\ kpc' \in [Slots -> KernelPcs] /\ kpc'[p] = "tick_again"
      /\ \A s \in Slots \ {p} : kpc'[s] = kpc[s]
  BY <1>1, <1>3, SchedIs
<1>5. ReadyOnce' /\ ForkInv'
  BY <1>1, <1>3, SchedAway
<1>6. TypeOK'  BY <1>0, <1>1, <1>4, Ranges DEF TypeOK, CpuType, KernelPcs
<1>7. KernelInv'
  BY <1>1, <1>4 DEF ProcInv, KernelInv, ParentPcs
<1>8. ParentInv'  BY <1>1, <1>2, <1>4, ParentFrame DEF ProcInv
<1>9. WaitInv'
  <2>1. p # TICKS  BY Ranges
  <2> QED  BY <1>1, <1>2, <1>4, <2>1, Ready, WaitFrame DEF ProcInv
<1>10. PidInv'  BY <1>1, <1>2, <1>4, PidFrame DEF ProcInv
<1> QED  BY <1>4, <1>5, <1>6, <1>7, <1>8, <1>9, <1>10 DEF ProcInv

-----------------------------------------------------------------------------
(***************************************************************************)
(* fork.                                                                   *)
(***************************************************************************)

(* A process moves on in the kernel. *)
LEMMA KpcIs ==
  ASSUME TypeOK, NEW p \in Slots, NEW next \in KernelPcs, kpc' = [kpc EXCEPT ![p] = next]
  PROVE  /\ kpc' \in [Slots -> KernelPcs] /\ kpc'[p] = next
         /\ \A s \in Slots \ {p} : kpc'[s] = kpc[s]
BY DEF TypeOK, KernelPcs

(* The slot a fork owns is not the slot of a running process, and not      *)
(* unused.                                                                 *)
LEMMA ForkOwns ==
  ASSUME ProcInv, NEW q \in Slots, kpc[q] \in ForkPcs
  PROVE  /\ child[q] \in Slots /\ kpc[child[q]] = "user"
         /\ state[child[q]] \in {"ALLOCATED", "RUNNABLE"}
         /\ kpc[q] # "fork_queue" => state[child[q]] = "ALLOCATED"
         /\ kpc[q] = "fork_queue" => /\ state[child[q]] = "RUNNABLE"
                                     /\ child[q] \notin Queued \cup Fetched
BY DEF ProcInv, ForkInv

(* pid_alloc pops the last of the recycled pids. *)
LEMMA PopIs ==
  ASSUME NEW q \in Seq(Nat), q # <<>>
  PROVE  /\ SubSeq(q, 1, Len(q) - 1) \in Seq(Nat)
         /\ Len(SubSeq(q, 1, Len(q) - 1)) = Len(q) - 1
         /\ \A i \in 1 .. Len(q) - 1 : SubSeq(q, 1, Len(q) - 1)[i] = q[i]
<1>1. Len(q) \in Nat /\ Len(q) >= 1 /\ \A i \in 1 .. Len(q) : q[i] \in Nat  OBVIOUS
<1> DEFINE k == Len(q) - 1
<1>2. k \in Int /\ 1 \in Int /\ k >= 0 /\ Len(q) = k + 1  BY <1>1
<1> HIDE DEF k
<1>3. \A i \in 1 .. k : q[i] \in Nat  BY <1>1, <1>2
<1>4. /\ SubSeq(q, 1, k) \in Seq(Nat)
      /\ Len(SubSeq(q, 1, k)) = IF 1 <= k THEN k - 1 + 1 ELSE 0
      /\ \A i \in 1 .. k - 1 + 1 : SubSeq(q, 1, k)[i] = q[1 + i - 1]
  BY <1>2, <1>3, SubSeqProperties
<1>5. Len(SubSeq(q, 1, k)) = k  BY <1>2, <1>4
<1>6. ASSUME NEW i \in 1 .. k PROVE SubSeq(q, 1, k)[i] = q[i]
  <2>1. i \in 1 .. k - 1 + 1 /\ 1 + i - 1 = i  BY <1>2
  <2> QED  BY <1>4, <2>1
<1> QED  BY <1>4, <1>5, <1>6 DEF k

(* alloc_proc and pid_alloc: the slot and the pid are nobody else's. *)
LEMMA ForkAllocInv ==
  ASSUME ProcInv, NEW c \in CPUs, NEW p \in Slots, ForkAlloc(c, p) PROVE ProcInv'
<1>0. TypeOK /\ CpuInv /\ StackInv /\ ReadyOnce  BY DEF ProcInv
<1>1. PICK s \in Slots :
         /\ state[s] = "UNUSED" /\ s \notin excl
         /\ state' = [state EXCEPT ![s] = "ALLOCATED"]
         /\ PidAlloc(s)
         /\ child' = [child EXCEPT ![p] = s]
         /\ kpc' = [kpc EXCEPT ![p] = "fork_copy", ![s] = "user"]
  BY DEF ForkAlloc
<1>2. /\ On(c, p) /\ kpc[p] = "user"
      /\ UNCHANGED <<chan, killed, parent, excl, parentsLk, ticksLk, fifo, cpu, tick>>
  BY DEF ForkAlloc, Enters
<1>3. state[p] = "RUNNING" /\ p # s  BY <1>1, <1>2, Running
<1>4. kpc[s] = "user" /\ parent[s] = None
  BY <1>1 DEF ProcInv, KernelInv, ParentInv
<1>5. /\ state' \in [Slots -> States] /\ state'[s] = "ALLOCATED"
      /\ \A t \in Slots \ {s} : state'[t] = state[t]
  BY <1>0, <1>1 DEF TypeOK, States
<1>6. /\ kpc' \in [Slots -> KernelPcs] /\ kpc'[p] = "fork_copy"
      /\ \A t \in Slots \ {p} : kpc'[t] = kpc[t]
  BY <1>0, <1>1, <1>3, <1>4 DEF TypeOK, KernelPcs, Preemptible
<1>7. /\ child' \in [Slots -> 0 .. None] /\ child'[p] = s
      /\ \A t \in Slots \ {p} : child'[t] = child[t]
  BY <1>0, <1>1, Ranges DEF TypeOK
<1> DEFINE n == pid'[s]
<1>8. /\ pid' \in [Slots -> Nat] /\ \A t \in Slots \ {s} : pid'[t] = pid[t]
      /\ n \in Nat /\ n < current' /\ current' \in Nat /\ current <= current'
      /\ recycled' \in Seq(Nat) /\ Len(recycled') <= Len(recycled)
      /\ \A i \in 1 .. Len(recycled') : recycled'[i] = recycled[i] /\ recycled'[i] # n
      /\ \A t \in Slots : state[t] \notin {"UNUSED", "ZOMBIE"} => pid[t] # n
  <2>0. /\ PidInv /\ recycled \in Seq(Nat) /\ current \in Nat /\ Len(recycled) \in Nat
        /\ pid \in [Slots -> Nat]
    BY <1>0 DEF ProcInv, TypeOK
  <2>1. CASE recycled # <<>> /\ UNCHANGED current
             /\ pid' = [pid EXCEPT ![s] = recycled[Len(recycled)]]
             /\ recycled' = SubSeq(recycled, 1, Len(recycled) - 1)
    <3>1. Len(recycled) \in 1 .. Len(recycled)  BY <2>0, <2>1
    <3>2. recycled[Len(recycled)] \in Nat  BY <2>0, <3>1
    <3>3. n = recycled[Len(recycled)] /\ pid' \in [Slots -> Nat]
          /\ \A t \in Slots \ {s} : pid'[t] = pid[t]
      BY <2>0, <2>1, <3>2
    <3>4. /\ recycled' \in Seq(Nat) /\ Len(recycled') = Len(recycled) - 1
          /\ \A i \in 1 .. Len(recycled') : recycled'[i] = recycled[i]
      BY <2>0, <2>1, PopIs
    <3>5. \A i \in 1 .. Len(recycled') : i \in 1 .. Len(recycled) /\ i # Len(recycled)
      BY <2>0, <3>4
    <3> HIDE DEF n
    <3>6. n < current /\ current <= current  BY <2>0, <3>1, <3>3 DEF PidInv
    <3>7. \A i \in 1 .. Len(recycled') : recycled'[i] # n
      BY <2>0, <3>1, <3>3, <3>4, <3>5 DEF PidInv
    <3>8. \A t \in Slots : state[t] \notin {"UNUSED", "ZOMBIE"} => pid[t] # n
      BY <2>0, <3>1, <3>3 DEF PidInv
    <3>9. Len(recycled') <= Len(recycled)  BY <2>0, <3>4
    <3> QED  BY <2>0, <2>1, <3>2, <3>3, <3>4, <3>6, <3>7, <3>8, <3>9
  <2>2. CASE pid' = [pid EXCEPT ![s] = current] /\ current' = current + 1
             /\ UNCHANGED recycled
    <3>1. n = current /\ pid' \in [Slots -> Nat]
          /\ \A t \in Slots \ {s} : pid'[t] = pid[t]
      BY <2>0, <2>2
    <3>2. current < current' /\ current' \in Nat /\ current <= current'  BY <2>0, <2>2
    <3>3. \A i \in 1 .. Len(recycled) : recycled[i] # current
      BY <2>0 DEF PidInv
    <3>4. \A t \in Slots : pid[t] # current
      BY <2>0 DEF PidInv
    <3>5. Len(recycled') <= Len(recycled)  BY <2>0, <2>2
    <3> HIDE DEF n
    <3> QED  BY <2>0, <2>2, <3>1, <3>2, <3>3, <3>4, <3>5
  <2> QED  BY <1>1, <2>1, <2>2 DEF PidAlloc
<1> HIDE DEF n
<1>9. pid'[s] = n  BY DEF n
<1>10. TypeOK'
  BY <1>0, <1>2, <1>5, <1>6, <1>7, <1>8, <1>9 DEF TypeOK, KernelPcs
<1>11. CpuInv' /\ StackInv'  BY <1>0, <1>1, <1>2, <1>5, CpuFrame
<1>12. ReadyOnce' /\ Queued' = Queued /\ Fetched' = Fetched
  <2>1. \A t \in Slots : state[t] = "RUNNABLE" <=> state'[t] = "RUNNABLE"  BY <1>1, <1>5
  <2>2. \A q \in Slots : kpc[q] = "fork_queue" =>
           kpc'[q] = "fork_queue" /\ child'[q] = child[q]
    BY <1>2, <1>6, <1>7
  <2> QED  BY <1>0, <1>2, <2>1, <2>2, Ready, ReadyFrame
<1>13. ForkInv'
  <2>1. ASSUME NEW q \in Slots, q # p, kpc'[q] \in ForkPcs
        PROVE  /\ kpc[q] = kpc'[q] /\ child'[q] = child[q]
               /\ child[q] \in Slots /\ child[q] # s /\ kpc'[child[q]] = "user"
               /\ state'[child[q]] = state[child[q]]
    <3>1. kpc[q] = kpc'[q] /\ child'[q] = child[q]  BY <1>6, <1>7, <2>1
    <3>2. /\ child[q] \in Slots /\ state[child[q]] \in {"ALLOCATED", "RUNNABLE"}
          /\ kpc[child[q]] = "user"
      BY <2>1, <3>1, ForkOwns
    <3>3. child[q] # s /\ child[q] # p  BY <1>1, <1>3, <3>2
    <3> QED  BY <1>5, <1>6, <3>1, <3>2, <3>3
  <2>2. ASSUME NEW q \in Slots, kpc'[q] \in ForkPcs
        PROVE  /\ child'[q] \in Slots
               /\ kpc'[child'[q]] = "user"
               /\ kpc'[q] # "fork_queue" => state'[child'[q]] = "ALLOCATED"
               /\ kpc'[q] = "fork_queue" => state'[child'[q]] = "RUNNABLE"
                                            /\ child'[q] \notin Queued' \cup Fetched'
    <3>1. CASE q = p  BY <1>3, <1>4, <1>5, <1>6, <1>7, <3>1
    <3>2. CASE q # p  BY <1>12, <2>1, <2>2, <3>2, ForkOwns
    <3> QED  BY <3>1, <3>2
  <2>3. ASSUME NEW q \in Slots, NEW r \in Slots, q # r, kpc'[q] \in ForkPcs, kpc'[r] \in ForkPcs
        PROVE  child'[q] # child'[r]
    <3>1. CASE q = p  BY <1>7, <2>1, <2>3, <3>1
    <3>2. CASE r = p  BY <1>7, <2>1, <2>3, <3>2
    <3>3. CASE q # p /\ r # p  BY <2>1, <2>3, <3>3 DEF ProcInv, ForkInv
    <3> QED  BY <3>1, <3>2, <3>3
  <2> QED  BY <2>2, <2>3 DEF ForkInv
<1>14. KernelInv'
  BY <1>2, <1>3, <1>4, <1>5, <1>6 DEF ProcInv, KernelInv, ParentPcs
<1>15. ParentInv'
  <2>1. ASSUME NEW q \in Slots, q # p, kpc'[q] \in ForkPcs
        PROVE  kpc[q] = kpc'[q] /\ child'[q] = child[q]
    BY <1>6, <1>7, <2>1
  <2> QED  BY <1>2, <1>4, <1>5, <1>6, <1>7, <2>1 DEF ProcInv, ParentInv, ForkPcs
<1>16. WaitInv'  BY <1>1, <1>2, <1>5, <1>6, Ready, WaitFrame DEF ProcInv
<1>17. PidInv'
  <2>10. PidInv /\ current \in Nat /\ recycled \in Seq(Nat) /\ pid \in [Slots -> Nat]
    BY <1>0 DEF ProcInv, TypeOK
  <2>11. Len(recycled) \in Nat  BY <2>10
  <2>12. recycled' \in Seq(Nat)  BY <1>8
  <2>13. Len(recycled') \in Nat  BY <2>12
  <2>0. PidInv /\ current \in Nat /\ recycled \in Seq(Nat) /\ pid \in [Slots -> Nat]
        /\ Len(recycled) \in Nat /\ Len(recycled') \in Nat
    BY <2>10, <2>11, <2>13
  <2>1. ASSUME NEW t \in Slots PROVE pid'[t] < current'
    <3>1. CASE t = s  BY <1>8, <1>9, <3>1
    <3>2. CASE t # s
      <4>1. pid'[t] = pid[t] /\ pid[t] \in Nat  BY <1>8, <2>0, <3>2
      <4>2. pid[t] < current  BY <2>0 DEF PidInv
      <4>3. current <= current' /\ current' \in Nat  BY <1>8
      <4> QED  BY <2>0, <4>1, <4>2, <4>3
    <3> QED  BY <3>1, <3>2
  <2>2. \A i \in 1 .. Len(recycled') : i \in 1 .. Len(recycled)  BY <1>8, <2>0
  <2>3. \A i \in 1 .. Len(recycled) : recycled[i] \in Nat  BY <2>0
  <2>4. ASSUME NEW i \in 1 .. Len(recycled') PROVE recycled'[i] < current'
    <3>1. recycled'[i] = recycled[i] /\ recycled[i] \in Nat  BY <1>8, <2>2, <2>3
    <3>2. recycled[i] < current  BY <2>0, <2>2 DEF PidInv
    <3>3. current <= current' /\ current' \in Nat /\ current \in Nat  BY <1>8, <2>0
    <3> QED  BY <3>1, <3>2, <3>3
  <2>5. \A i, j \in 1 .. Len(recycled') : recycled'[i] = recycled'[j] => i = j
    BY <1>8, <2>0, <2>2 DEF PidInv
  <2>6. ASSUME NEW t \in Slots, state'[t] \notin {"UNUSED", "ZOMBIE"}
        PROVE  \A i \in 1 .. Len(recycled') : recycled'[i] # pid'[t]
    <3>1. CASE t = s  BY <1>8, <1>9, <3>1
    <3>2. CASE t # s  BY <1>5, <1>8, <1>9, <2>0, <2>2, <2>6, <3>2 DEF PidInv
    <3> QED  BY <3>1, <3>2
  <2>7. ASSUME NEW t \in Slots, NEW u \in Slots, t # u,
               state'[t] \notin {"UNUSED", "ZOMBIE"}, state'[u] \notin {"UNUSED", "ZOMBIE"}
        PROVE  pid'[t] # pid'[u]
    <3>1. ASSUME NEW v \in Slots, v # s, state'[v] \notin {"UNUSED", "ZOMBIE"}
          PROVE  pid'[v] = pid[v] /\ pid[v] # n /\ state[v] \notin {"UNUSED", "ZOMBIE"}
      BY <1>5, <1>8, <3>1
    <3>2. CASE t = s  BY <1>9, <2>7, <3>1, <3>2
    <3>3. CASE u = s  BY <1>9, <2>7, <3>1, <3>3
    <3>4. CASE t # s /\ u # s  BY <2>0, <2>7, <3>1, <3>4 DEF PidInv
    <3> QED  BY <3>2, <3>3, <3>4
  <2> QED  BY <2>1, <2>4, <2>5, <2>6, <2>7 DEF PidInv
<1> QED  BY <1>10, <1>11, <1>12, <1>13, <1>14, <1>15, <1>16, <1>17 DEF ProcInv

(* The copy failed: the slot is unused again. *)
LEMMA ForkFailInv ==
  ASSUME ProcInv, NEW c \in CPUs, NEW p \in Slots, ForkFail(c, p) PROVE ProcInv'
<1> DEFINE s == child[p]
<1>0. TypeOK /\ CpuInv /\ StackInv /\ ReadyOnce  BY DEF ProcInv
<1>1. /\ On(c, p) /\ kpc[p] = "fork_copy" /\ s \notin excl
      /\ killed' = [killed EXCEPT ![s] = FALSE]
      /\ state' = [state EXCEPT ![s] = "UNUSED"]
      /\ pid' = [pid EXCEPT ![s] = 0]
      /\ child' = [child EXCEPT ![p] = None]
      /\ kpc' = [kpc EXCEPT ![p] = "user"]
      /\ UNCHANGED <<chan, parent, excl, parentsLk, ticksLk, fifo, cpu, tick, current, recycled>>
  BY DEF ForkFail
<1>2. state[p] = "RUNNING"  BY <1>1, Running
<1>3. s \in Slots /\ state[s] = "ALLOCATED" /\ kpc[s] = "user" /\ p # s
  BY <1>1, <1>2, ForkOwns DEF ForkPcs
<1>4. parent[s] = None  BY <1>1 DEF ProcInv, ParentInv
<1>5. \A q \in Slots \ {p} : kpc[q] \in ForkPcs => child[q] # s
  BY <1>1 DEF ProcInv, ForkInv, ForkPcs
<1> HIDE DEF s
<1>6. /\ state' \in [Slots -> States] /\ state'[s] = "UNUSED"
      /\ \A t \in Slots \ {s} : state'[t] = state[t]
  BY <1>0, <1>1, <1>3 DEF TypeOK, States
<1>7. /\ kpc' \in [Slots -> KernelPcs] /\ kpc'[p] = "user"
      /\ \A t \in Slots \ {p} : kpc'[t] = kpc[t]
  BY <1>0, <1>1 DEF TypeOK, KernelPcs, Preemptible
<1>8. /\ child' \in [Slots -> 0 .. None]
      /\ \A t \in Slots \ {p} : child'[t] = child[t]
  BY <1>0, <1>1, Ranges DEF TypeOK
<1>9. /\ pid' \in [Slots -> Nat] /\ pid'[s] = 0
      /\ \A t \in Slots \ {s} : pid'[t] = pid[t]
      /\ killed' \in [Slots -> BOOLEAN]
      /\ \A t \in Slots \ {s} : killed'[t] = killed[t]
  BY <1>0, <1>1, <1>3 DEF TypeOK
<1>10. TypeOK'
  BY <1>0, <1>1, <1>6, <1>7, <1>8, <1>9 DEF TypeOK, KernelPcs
<1>11. CpuInv' /\ StackInv'  BY <1>0, <1>1, <1>3, <1>6, CpuFrame
<1>12. ReadyOnce' /\ Queued' = Queued /\ Fetched' = Fetched
  <2>1. \A t \in Slots : state[t] = "RUNNABLE" <=> state'[t] = "RUNNABLE"  BY <1>3, <1>6
  <2>2. \A q \in Slots : kpc[q] = "fork_queue" =>
           kpc'[q] = "fork_queue" /\ child'[q] = child[q]
    BY <1>1, <1>7, <1>8
  <2>3. \A t \in Slots : state[t] = "RUNNABLE" /\ killed[t] => killed'[t]
    BY <1>3, <1>9
  <2> QED  BY <1>0, <1>1, <2>1, <2>2, <2>3, Ready, ReadyFrame
<1>13. ForkInv'
  <2>1. ASSUME NEW q \in Slots, kpc'[q] \in ForkPcs
        PROVE  /\ q # p /\ kpc[q] = kpc'[q] /\ child'[q] = child[q]
               /\ child[q] \in Slots /\ child[q] # s /\ child[q] # p
    <3>1. q # p  BY <1>7, <2>1 DEF ForkPcs
    <3>2. kpc[q] = kpc'[q] /\ child'[q] = child[q]  BY <1>7, <1>8, <3>1
    <3>3. child[q] \in Slots /\ kpc[child[q]] = "user"  BY <2>1, <3>2, ForkOwns
    <3> QED  BY <1>1, <1>5, <2>1, <3>1, <3>2, <3>3
  <2>2. ASSUME NEW q \in Slots, kpc'[q] \in ForkPcs
        PROVE  /\ child'[q] \in Slots
               /\ kpc'[child'[q]] = "user"
               /\ kpc'[q] # "fork_queue" => state'[child'[q]] = "ALLOCATED"
               /\ kpc'[q] = "fork_queue" => state'[child'[q]] = "RUNNABLE"
                                            /\ child'[q] \notin Queued' \cup Fetched'
    <3>1. /\ kpc[q] = kpc'[q] /\ child'[q] = child[q] /\ child[q] \in Slots
          /\ state'[child[q]] = state[child[q]] /\ kpc'[child[q]] = kpc[child[q]]
      BY <1>6, <1>7, <2>1, <2>2
    <3> QED  BY <1>12, <2>2, <3>1, ForkOwns
  <2>3. \A q, r \in Slots : q # r /\ kpc'[q] \in ForkPcs /\ kpc'[r] \in ForkPcs =>
           child'[q] # child'[r]
    BY <2>1 DEF ProcInv, ForkInv
  <2> QED  BY <2>2, <2>3 DEF ForkInv
<1>14. KernelInv'
  BY <1>1, <1>2, <1>3, <1>6, <1>7 DEF ProcInv, KernelInv, ParentPcs
<1>15. ParentInv'
  <2>1. \A q \in Slots : kpc'[q] \in {"fork_copy", "fork_parent", "fork_ready"} =>
           kpc[q] = kpc'[q] /\ child'[q] = child[q]
    BY <1>7, <1>8
  <2> QED  BY <1>1, <1>3, <1>4, <1>6, <2>1 DEF ProcInv, ParentInv
<1>16. WaitInv'  BY <1>1, <1>3, <1>6, <1>7, Ready, WaitFrame DEF ProcInv
<1>17. PidInv'
  <2>0. PidInv  BY DEF ProcInv
  <2>1. 0 < current
    <3>1. pid[s] \in Nat /\ pid[s] < current /\ current \in Nat
      BY <1>0, <1>3, <2>0 DEF PidInv, TypeOK
    <3> QED  BY <3>1
  <2> QED  BY <1>1, <1>6, <1>9, <2>0, <2>1 DEF PidInv
<1> QED  BY <1>10, <1>11, <1>12, <1>13, <1>14, <1>15, <1>16, <1>17 DEF ProcInv

(* A step that leaves states, queue, CPUs and pids alone. *)
LEMMA QuietFrame ==
  ASSUME ProcInv, UNCHANGED <<state, pid, killed, excl, fifo, cpu, current, recycled>>,
         \A q \in Slots : kpc[q] = "fork_queue" =>
            kpc'[q] = "fork_queue" /\ child'[q] = child[q]
  PROVE  /\ CpuInv' /\ StackInv' /\ PidInv' /\ ReadyOnce'
         /\ Queued' = Queued /\ Fetched' = Fetched
<1>0. CpuInv /\ StackInv /\ ReadyOnce /\ PidInv  BY DEF ProcInv
<1>1. CpuInv' /\ StackInv'  BY <1>0, CpuFrame
<1>2. PidInv'  BY <1>0, PidFrame
<1>3. ReadyOnce' /\ Queued' = Queued /\ Fetched' = Fetched  BY <1>0, Ready, ReadyFrame
<1> QED  BY <1>1, <1>2, <1>3

(* A fork goes on before its child is RUNNABLE. *)
LEMMA ForkMoves ==
  ASSUME ProcInv, NEW p \in Slots, kpc[p] \in {"fork_copy", "fork_parent"},
         kpc'[p] \in {"fork_parent", "fork_ready"},
         \A q \in Slots \ {p} : kpc'[q] = kpc[q],
         UNCHANGED <<state, child>>, Queued' = Queued, Fetched' = Fetched
  PROVE  ForkInv'
<1>1. \A q \in Slots : kpc'[q] \in ForkPcs <=> kpc[q] \in ForkPcs  BY DEF ForkPcs
<1>2. ASSUME NEW q \in Slots, kpc'[q] \in ForkPcs
      PROVE  /\ child'[q] \in Slots
             /\ kpc'[child'[q]] = "user"
             /\ kpc'[q] # "fork_queue" => state'[child'[q]] = "ALLOCATED"
             /\ kpc'[q] = "fork_queue" => state'[child'[q]] = "RUNNABLE"
                                          /\ child'[q] \notin Queued' \cup Fetched'
  <2>1. kpc[q] \in ForkPcs  BY <1>1, <1>2
  <2>2. child[q] \in Slots /\ kpc[child[q]] = "user"  BY <2>1, ForkOwns
  <2>3. kpc'[child[q]] = "user"  BY <2>2
  <2>4. kpc'[q] = "fork_queue" <=> kpc[q] = "fork_queue"  OBVIOUS
  <2> QED  BY <2>1, <2>2, <2>3, <2>4, ForkOwns
<1>3. \A q, r \in Slots : q # r /\ kpc'[q] \in ForkPcs /\ kpc'[r] \in ForkPcs =>
         child'[q] # child'[r]
  BY <1>1 DEF ProcInv, ForkInv
<1> QED  BY <1>2, <1>3 DEF ForkInv

(* uvm_copy succeeds. *)
LEMMA ForkCopyInv ==
  ASSUME ProcInv, NEW c \in CPUs, NEW p \in Slots, ForkCopy(c, p) PROVE ProcInv'
<1>0. TypeOK /\ ParentInv /\ WaitInv  BY DEF ProcInv
<1>1. /\ kpc[p] = "fork_copy" /\ kpc' = [kpc EXCEPT ![p] = "fork_parent"]
      /\ UNCHANGED <<state, chan, pid, killed, parent, excl, parentsLk, ticksLk, fifo, cpu,
                     child, tick, current, recycled>>
  BY DEF ForkCopy
<1>2. "fork_parent" \in KernelPcs  BY DEF KernelPcs, Preemptible
<1>3. /\ kpc' \in [Slots -> KernelPcs] /\ kpc'[p] = "fork_parent"
      /\ \A s \in Slots \ {p} : kpc'[s] = kpc[s]
  BY <1>0, <1>1, <1>2, KpcIs
<1>4. TypeOK'  BY <1>0, <1>1, <1>3 DEF TypeOK, KernelPcs
<1>5. /\ CpuInv' /\ StackInv' /\ PidInv' /\ ReadyOnce'
      /\ Queued' = Queued /\ Fetched' = Fetched
  BY <1>1, <1>3, QuietFrame
<1>6. ForkInv'  BY <1>1, <1>3, <1>5, ForkMoves
<1>7. KernelInv'
  <2>1. state[p] = "RUNNING"  BY Running DEF ForkCopy
  <2> QED  BY <1>1, <1>3, <2>1 DEF ProcInv, KernelInv, ParentPcs
<1>8. ParentInv'  BY <1>0, <1>1, <1>3 DEF ParentInv
<1>9. WaitInv'  BY <1>0, <1>1, <1>3, Ready, WaitFrame
<1> QED  BY <1>4, <1>5, <1>6, <1>7, <1>8, <1>9 DEF ProcInv

(* set_parent: the child had no parent, and is no zombie. *)
LEMMA ForkParentInv ==
  ASSUME ProcInv, NEW c \in CPUs, NEW p \in Slots, ForkParent(c, p) PROVE ProcInv'
<1> DEFINE s == child[p]
<1>0. TypeOK /\ ParentInv /\ WaitInv  BY DEF ProcInv
<1>1. /\ On(c, p) /\ kpc[p] = "fork_parent" /\ parentsLk = None
      /\ parent' = [parent EXCEPT ![s] = p]
      /\ kpc' = [kpc EXCEPT ![p] = "fork_ready"]
      /\ UNCHANGED <<state, chan, pid, killed, excl, parentsLk, ticksLk, fifo, cpu,
                     child, tick, current, recycled>>
  BY DEF ForkParent
<1>2. /\ s \in Slots /\ state[s] = "ALLOCATED" /\ parent[s] = None
      /\ state[p] = "RUNNING" /\ p # None
  <2>1. kpc[p] \in ForkPcs  BY <1>1 DEF ForkPcs
  <2>2. s \in Slots /\ state[s] = "ALLOCATED"  BY <1>1, <2>1, ForkOwns
  <2> QED  BY <1>0, <1>1, <2>2, Running, Ranges DEF ParentInv
<1>3. \A q \in Slots \ {p} : kpc[q] \in ForkPcs => child[q] # s
  BY <1>1 DEF ProcInv, ForkInv, ForkPcs
<1>4. \A q \in Slots : kpc[q] \notin ParentPcs
  BY <1>1, Ranges DEF ProcInv, KernelInv
<1> HIDE DEF s
<1>5. /\ parent' \in [Slots -> 0 .. None] /\ parent'[s] = p
      /\ \A t \in Slots \ {s} : parent'[t] = parent[t]
  BY <1>0, <1>1, <1>2, Ranges DEF TypeOK
<1>6. "fork_ready" \in KernelPcs  BY DEF KernelPcs, Preemptible
<1>7. /\ kpc' \in [Slots -> KernelPcs] /\ kpc'[p] = "fork_ready"
      /\ \A t \in Slots \ {p} : kpc'[t] = kpc[t]
  BY <1>0, <1>1, <1>6, KpcIs
<1>8. TypeOK'  BY <1>0, <1>1, <1>5, <1>7 DEF TypeOK, KernelPcs
<1>9. /\ CpuInv' /\ StackInv' /\ PidInv' /\ ReadyOnce'
      /\ Queued' = Queued /\ Fetched' = Fetched
  BY <1>1, <1>7, QuietFrame
<1>10. ForkInv'  BY <1>1, <1>7, <1>9, ForkMoves
<1>11. KernelInv'  BY <1>1, <1>2, <1>7 DEF ProcInv, KernelInv, ParentPcs
<1>12. ParentInv'
  <2>1. \A q \in Slots : kpc'[q] \in {"fork_copy", "fork_parent"} =>
           q # p /\ kpc[q] = kpc'[q] /\ child[q] # s /\ child[q] \in Slots
    BY <1>3, <1>7, ForkOwns DEF ForkPcs
  <2>2. \A q \in Slots : kpc'[q] = "fork_ready" =>
           q = p \/ (kpc[q] = kpc'[q] /\ child[q] # s /\ child[q] \in Slots)
    BY <1>3, <1>7, ForkOwns DEF ForkPcs
  <2>3. child[p] = s  BY DEF s
  <2> QED  BY <1>0, <1>1, <1>2, <1>5, <2>1, <2>2, <2>3 DEF ParentInv
<1>13. WaitInv'
  <2>1. \A q \in Slots : Children(q) \subseteq Children(q)'
    <3>1. \A q \in Slots : q # None  BY Ranges
    <3> QED  BY <1>2, <1>5, <3>1 DEF Children
  <2>2. \A q \in Slots : Zombies(q)' = Zombies(q)
    BY <1>1, <1>2, <1>5 DEF Zombies, Children
  <2>3. ASSUME NEW q \in Slots, WaitsFor(q)' PROVE Children(q)' # {} /\ Zombies(q)' = {}
    <3>1. WaitsFor(q)  BY <1>1, <2>3 DEF WaitsFor
    <3>2. Children(q) # {} /\ Zombies(q) = {}
      BY <1>0, <1>4, <3>1 DEF WaitInv, ParentPcs
    <3> QED  BY <2>1, <2>2, <3>2
  <2>4. \A q \in Slots : kpc'[q] \notin {"wait_sleep", "exit_zombie"}
    BY <1>4, <1>7 DEF ParentPcs
  <2> QED  BY <2>3, <2>4 DEF WaitInv
<1> QED  BY <1>8, <1>9, <1>10, <1>11, <1>12, <1>13 DEF ProcInv

(* The child becomes RUNNABLE, and this fork is about to queue it. *)
LEMMA ForkReadyInv ==
  ASSUME ProcInv, NEW c \in CPUs, NEW p \in Slots, ForkReady(c, p) PROVE ProcInv'
<1> DEFINE s == child[p]
<1>0. TypeOK /\ CpuInv /\ StackInv /\ ReadyOnce /\ ParentInv /\ WaitInv /\ PidInv  BY DEF ProcInv
<1>1. /\ On(c, p) /\ kpc[p] = "fork_ready" /\ s \notin excl
      /\ state' = [state EXCEPT ![s] = "RUNNABLE"]
      /\ kpc' = [kpc EXCEPT ![p] = "fork_queue"]
      /\ UNCHANGED <<chan, pid, killed, parent, excl, parentsLk, ticksLk, fifo, cpu,
                     child, tick, current, recycled>>
  BY DEF ForkReady
<1>2. /\ s \in Slots /\ state[s] = "ALLOCATED" /\ parent[s] # None /\ kpc[s] = "user"
      /\ state[p] = "RUNNING" /\ p # s /\ s \notin Queued \cup Fetched
  <2>1. kpc[p] \in ForkPcs  BY <1>1 DEF ForkPcs
  <2>2. s \in Slots /\ state[s] = "ALLOCATED" /\ kpc[s] = "user"  BY <1>1, <2>1, ForkOwns
  <2> QED  BY <1>0, <1>1, <2>2, Running, Ready DEF ParentInv
<1>3. \A q \in Slots \ {p} : kpc[q] \in ForkPcs => child[q] # s
  BY <1>1 DEF ProcInv, ForkInv, ForkPcs
<1>4. child[p] = s  OBVIOUS
<1> HIDE DEF s
<1>5. /\ state' \in [Slots -> States] /\ state'[s] = "RUNNABLE"
      /\ \A t \in Slots \ {s} : state'[t] = state[t]
  BY <1>0, <1>1, <1>2 DEF TypeOK, States
<1>6. "fork_queue" \in KernelPcs  BY DEF KernelPcs, Preemptible
<1>7. /\ kpc' \in [Slots -> KernelPcs] /\ kpc'[p] = "fork_queue"
      /\ \A t \in Slots \ {p} : kpc'[t] = kpc[t]
  BY <1>0, <1>1, <1>6, KpcIs
<1>8. TypeOK'  BY <1>0, <1>1, <1>5, <1>7 DEF TypeOK, KernelPcs
<1>9. CpuInv' /\ StackInv'  BY <1>0, <1>1, <1>2, <1>5, CpuFrame
<1>10. ReadyOnce' /\ Queued' = Queued /\ Fetched' = Fetched
  <2>1. \A t \in Slots : state[t] = "RUNNABLE" => state'[t] = "RUNNABLE"  BY <1>5
  <2>2. \A t \in Slots : state'[t] = "RUNNABLE" /\ state[t] # "RUNNABLE" =>
           \E q \in Slots : kpc'[q] = "fork_queue" /\ child'[q] = t
    BY <1>1, <1>4, <1>5, <1>7
  <2>3. \A q \in Slots : kpc[q] = "fork_queue" =>
           kpc'[q] = "fork_queue" /\ child'[q] = child[q]
    BY <1>1, <1>7
  <2> QED  BY <1>0, <1>1, <2>1, <2>2, <2>3, Ready, ReadyFrame
<1>11. ForkInv'
  <2>1. ASSUME NEW q \in Slots, kpc'[q] \in ForkPcs
        PROVE  /\ child'[q] \in Slots
               /\ kpc'[child'[q]] = "user"
               /\ kpc'[q] # "fork_queue" => state'[child'[q]] = "ALLOCATED"
               /\ kpc'[q] = "fork_queue" => state'[child'[q]] = "RUNNABLE"
                                            /\ child'[q] \notin Queued' \cup Fetched'
    <3>1. CASE q = p  BY <1>1, <1>2, <1>4, <1>5, <1>7, <1>10, <3>1
    <3>2. CASE q # p
      <4>1. kpc[q] = kpc'[q] /\ kpc[q] \in ForkPcs  BY <1>7, <2>1, <3>2
      <4>2. child[q] \in Slots /\ kpc[child[q]] = "user" /\ child[q] # s
        BY <1>3, <3>2, <4>1, ForkOwns
      <4>3. state'[child[q]] = state[child[q]] /\ kpc'[child[q]] = "user"
        BY <1>1, <1>5, <1>7, <4>2
      <4> QED  BY <1>1, <1>10, <4>1, <4>2, <4>3, ForkOwns
    <3> QED  BY <3>1, <3>2
  <2>2. \A q, r \in Slots : q # r /\ kpc'[q] \in ForkPcs /\ kpc'[r] \in ForkPcs =>
           child'[q] # child'[r]
    BY <1>1, <1>3, <1>4, <1>7 DEF ProcInv, ForkInv
  <2> QED  BY <2>1, <2>2 DEF ForkInv
<1>12. KernelInv'  BY <1>1, <1>2, <1>5, <1>7 DEF ProcInv, KernelInv, ParentPcs
<1>13. ParentInv'
  <2>1. \A q \in Slots : kpc'[q] \in {"fork_copy", "fork_parent", "fork_ready"} =>
           kpc[q] = kpc'[q]
    BY <1>7
  <2> QED  BY <1>0, <1>1, <1>2, <1>5, <2>1 DEF ParentInv
<1>14. WaitInv'  BY <1>0, <1>1, <1>2, <1>5, <1>7, Ready, WaitFrame
<1>15. PidInv'  BY <1>0, <1>1, <1>2, <1>5, PidFrame
<1> QED  BY <1>8, <1>9, <1>10, <1>11, <1>12, <1>13, <1>14, <1>15 DEF ProcInv

(* The child is queued; from here on it is a process like any other. *)
LEMMA ForkQueueInv ==
  ASSUME ProcInv, NEW c \in CPUs, NEW p \in Slots, ForkQueue(c, p) PROVE ProcInv'
<1> DEFINE s == child[p]
<1>0. TypeOK /\ CpuInv /\ StackInv /\ ReadyOnce /\ ParentInv /\ WaitInv /\ PidInv  BY DEF ProcInv
<1>1. /\ On(c, p) /\ kpc[p] = "fork_queue"
      /\ fifo' = Enqueue(fifo, s)
      /\ child' = [child EXCEPT ![p] = None]
      /\ kpc' = [kpc EXCEPT ![p] = "user"]
      /\ UNCHANGED <<state, chan, pid, killed, parent, excl, parentsLk, ticksLk, cpu,
                     tick, current, recycled>>
  BY DEF ForkQueue
<1>2. /\ s \in Slots /\ state[s] = "RUNNABLE" /\ s \notin Queued \cup Fetched
      /\ state[p] = "RUNNING"
  <2>1. kpc[p] \in ForkPcs  BY <1>1 DEF ForkPcs
  <2> QED  BY <1>1, <2>1, ForkOwns, Running
<1>3. \A q \in Slots \ {p} : kpc[q] \in ForkPcs => child[q] # s
  BY <1>1 DEF ProcInv, ForkInv, ForkPcs
<1>4. child[p] = s  OBVIOUS
<1> HIDE DEF s
<1>5. "user" \in KernelPcs  BY DEF KernelPcs, Preemptible
<1>6. /\ kpc' \in [Slots -> KernelPcs] /\ kpc'[p] = "user"
      /\ \A t \in Slots \ {p} : kpc'[t] = kpc[t]
  BY <1>0, <1>1, <1>5, KpcIs
<1>7. child' \in [Slots -> 0 .. None] /\ \A t \in Slots \ {p} : child'[t] = child[t]
  BY <1>0, <1>1, Ranges DEF TypeOK
<1>8. fifo' \in Seq(Slots)  BY <1>0, <1>1, <1>2, EnqueueIs
<1>9. TypeOK'  BY <1>0, <1>1, <1>6, <1>7, <1>8 DEF TypeOK, KernelPcs
<1>10. CpuInv' /\ StackInv'  BY <1>0, <1>1, CpuFrame
<1>11. ReadyOnce' /\ Queued' = Queued \cup {s} /\ Fetched' = Fetched
  <2>1. \A q \in Slots : kpc[q] = "fork_queue" /\ child[q] # s =>
           kpc'[q] = "fork_queue" /\ child'[q] = child[q]
    BY <1>4, <1>6, <1>7
  <2> QED  BY <1>0, <1>1, <1>2, <2>1, Ready, ReadyAdd
<1>12. ForkInv'
  <2>1. ASSUME NEW q \in Slots, kpc'[q] \in ForkPcs
        PROVE  /\ q # p /\ kpc[q] = kpc'[q] /\ child'[q] = child[q]
               /\ child[q] \in Slots /\ child[q] # s /\ kpc'[child[q]] = "user"
    <3>1. q # p  BY <1>6, <2>1 DEF ForkPcs
    <3>2. kpc[q] = kpc'[q] /\ child'[q] = child[q]  BY <1>6, <1>7, <3>1
    <3>3. child[q] \in Slots /\ kpc[child[q]] = "user"  BY <2>1, <3>2, ForkOwns
    <3> QED  BY <1>3, <1>6, <2>1, <3>1, <3>2, <3>3
  <2>2. ASSUME NEW q \in Slots, kpc'[q] \in ForkPcs
        PROVE  /\ child'[q] \in Slots
               /\ kpc'[child'[q]] = "user"
               /\ kpc'[q] # "fork_queue" => state'[child'[q]] = "ALLOCATED"
               /\ kpc'[q] = "fork_queue" => state'[child'[q]] = "RUNNABLE"
                                            /\ child'[q] \notin Queued' \cup Fetched'
    BY <1>1, <1>11, <2>1, <2>2, ForkOwns
  <2>3. \A q, r \in Slots : q # r /\ kpc'[q] \in ForkPcs /\ kpc'[r] \in ForkPcs =>
           child'[q] # child'[r]
    BY <2>1 DEF ProcInv, ForkInv
  <2> QED  BY <2>2, <2>3 DEF ForkInv
<1>13. KernelInv'  BY <1>1, <1>2, <1>6 DEF ProcInv, KernelInv, ParentPcs
<1>14. ParentInv'
  <2>1. \A q \in Slots : kpc'[q] \in {"fork_copy", "fork_parent", "fork_ready"} =>
           kpc[q] = kpc'[q] /\ child'[q] = child[q]
    BY <1>6, <1>7
  <2> QED  BY <1>0, <1>1, <2>1, ParentFrame
<1>15. WaitInv'  BY <1>0, <1>1, <1>6, Ready, WaitFrame
<1>16. PidInv'  BY <1>0, <1>1, PidFrame
<1> QED  BY <1>9, <1>10, <1>11, <1>12, <1>13, <1>14, <1>15, <1>16 DEF ProcInv

-----------------------------------------------------------------------------
(***************************************************************************)
(* The steps that only move a process in the kernel, and those that wake.  *)
(***************************************************************************)

(* A process outside fork takes a step that changes no state but its place *)
(* in the kernel and the locks it holds.                                   *)
LEMMA QuietStep ==
  ASSUME ProcInv, NEW p \in Slots, NEW next \in KernelPcs \ ForkPcs, kpc[p] \notin ForkPcs,
         state[p] = "RUNNING", kpc' = [kpc EXCEPT ![p] = next],
         UNCHANGED <<state, chan, pid, killed, excl, fifo, cpu, child, tick, current, recycled>>,
         parentsLk' \in 0 .. None, ticksLk' \in 0 .. None, parent' \in [Slots -> 0 .. None]
  PROVE  /\ TypeOK' /\ CpuInv' /\ StackInv' /\ PidInv' /\ ReadyOnce' /\ ForkInv'
         /\ parent' = parent => ParentInv'
         /\ kpc'[p] = next /\ \A s \in Slots \ {p} : kpc'[s] = kpc[s]
<1>0. TypeOK /\ ForkInv /\ ParentInv  BY DEF ProcInv
<1>1. /\ kpc' \in [Slots -> KernelPcs] /\ kpc'[p] = next
      /\ \A s \in Slots \ {p} : kpc'[s] = kpc[s]
  BY <1>0, KpcIs
<1>2. TypeOK'  BY <1>0, <1>1 DEF TypeOK, KernelPcs
<1>3. \A q \in Slots : kpc'[q] \in ForkPcs \/ kpc[q] \in ForkPcs => kpc'[q] = kpc[q]
  BY <1>1
<1>4. /\ CpuInv' /\ StackInv' /\ PidInv' /\ ReadyOnce'
      /\ Queued' = Queued /\ Fetched' = Fetched
  BY <1>3, QuietFrame DEF ForkPcs
<1>5. \A s \in Slots : kpc[s] = "user" /\ state[s] # "RUNNING" => kpc'[s] = "user"  BY <1>1
<1>6. ForkInv'  BY <1>0, <1>3, <1>4, <1>5, ForkFrame
<1>7. ASSUME parent' = parent PROVE ParentInv'
  BY <1>0, <1>3, <1>7, ParentFrame DEF ForkPcs
<1> QED  BY <1>1, <1>2, <1>4, <1>6, <1>7

(* The body of wakeup's loop: a sleeper on the channel becomes RUNNABLE    *)
(* and is queued.                                                          *)
LEMMA WakeIs ==
  ASSUME ProcInv, NEW t \in Slots, NEW ch, WakeSlot(t, ch),
         UNCHANGED <<chan, pid, killed, excl, cpu, child, current, recycled>>,
         \A q \in Slots : kpc'[q] \in ForkPcs \/ kpc[q] \in ForkPcs => kpc'[q] = kpc[q],
         \A s \in Slots : kpc[s] = "user" /\ state[s] # "RUNNING" => kpc'[s] = "user"
  PROVE  /\ state' \in [Slots -> States] /\ fifo' \in Seq(Slots)
         /\ \A s \in Slots : state'[s] # state[s] => state[s] = "SLEEPING" /\ state'[s] = "RUNNABLE"
         /\ state[t] = "SLEEPING" /\ chan[t] = ch => state'[t] # "SLEEPING"
         /\ CpuInv' /\ StackInv' /\ PidInv' /\ ReadyOnce' /\ ForkInv'
<1>0. TypeOK /\ CpuInv /\ StackInv /\ ReadyOnce /\ ForkInv /\ PidInv  BY DEF ProcInv
<1>1. \A q \in Slots : kpc[q] = "fork_queue" =>
         kpc'[q] = "fork_queue" /\ child'[q] = child[q]
  BY DEF ForkPcs
<1>2. CASE state[t] = "SLEEPING" /\ chan[t] = ch
  <2>1. t \notin excl /\ state' = [state EXCEPT ![t] = "RUNNABLE"] /\ fifo' = Enqueue(fifo, t)
    BY <1>2 DEF WakeSlot
  <2>2. /\ state' \in [Slots -> States] /\ state'[t] = "RUNNABLE"
        /\ \A s \in Slots \ {t} : state'[s] = state[s]
    BY <1>0, <2>1 DEF TypeOK, States
  <2>3. t \notin Queued \cup Fetched  BY <1>2, Ready
  <2>4. ReadyOnce' /\ Queued' = Queued \cup {t} /\ Fetched' = Fetched
    BY <1>0, <1>1, <2>1, <2>2, <2>3, Ready, ReadyAdd
  <2>5. fifo' \in Seq(Slots)  BY <1>0, <2>1, <2>3, EnqueueIs
  <2>6. CpuInv' /\ StackInv'  BY <1>0, <1>2, <2>1, <2>2, CpuFrame
  <2>7. ForkInv'  BY <1>0, <1>2, <2>2, <2>4, ForkFrame
  <2>8. PidInv'  BY <1>0, <1>2, <2>2, PidFrame
  <2> QED  BY <1>2, <2>2, <2>4, <2>5, <2>6, <2>7, <2>8
<1>3. CASE ~(state[t] = "SLEEPING" /\ chan[t] = ch)
  <2>1. UNCHANGED <<state, fifo>>  BY <1>3 DEF WakeSlot
  <2>2. /\ CpuInv' /\ StackInv' /\ PidInv' /\ ReadyOnce'
        /\ Queued' = Queued /\ Fetched' = Fetched
    BY <1>1, <2>1, QuietFrame
  <2>3. ForkInv'  BY <1>0, <2>1, <2>2, ForkFrame
  <2>4. state' \in [Slots -> States] /\ fifo' \in Seq(Slots)  BY <1>0, <2>1 DEF TypeOK
  <2> QED  BY <1>3, <2>1, <2>2, <2>3, <2>4
<1> QED  BY <1>2, <1>3

-----------------------------------------------------------------------------
(***************************************************************************)
(* exit.                                                                   *)
(***************************************************************************)

(* The children go to init, which will be woken if there are any. *)
LEMMA ExitLockInv ==
  ASSUME ProcInv, NEW c \in CPUs, NEW p \in Slots, ExitLock(c, p) PROVE ProcInv'
<1> DEFINE next == IF Children(p) # {} THEN "exit_init" ELSE "exit_parent"
<1>0. TypeOK /\ ParentInv /\ WaitInv  BY DEF ProcInv
<1>1. /\ On(c, p) /\ p # 0 /\ kpc[p] = "user" /\ parentsLk = None /\ parentsLk' = p
      /\ parent' = [s \in Slots |-> IF parent[s] = p THEN 0 ELSE parent[s]]
      /\ kpc' = [kpc EXCEPT ![p] = next]
      /\ UNCHANGED <<state, chan, pid, killed, excl, ticksLk, fifo, cpu, child, tick,
                     current, recycled>>
  BY DEF ExitLock
<1>2. next \in {"exit_init", "exit_parent"} /\ (Children(p) # {} => next = "exit_init")
  OBVIOUS
<1> HIDE DEF next
<1>3. state[p] = "RUNNING" /\ p # None  BY <1>1, Running, Ranges
<1>4. /\ parent' \in [Slots -> 0 .. None]
      /\ \A s \in Slots : parent[s] = p => parent'[s] = 0
      /\ \A s \in Slots : parent[s] # p => parent'[s] = parent[s]
  BY <1>0, <1>1, Ranges DEF TypeOK
<1>5. \A s \in Slots : parent'[s] = None <=> parent[s] = None
  BY <1>3, <1>4, Ranges
<1>6. next \in KernelPcs \ ForkPcs /\ kpc[p] \notin ForkPcs
  BY <1>1, <1>2 DEF KernelPcs, Preemptible, ForkPcs
<1>7. p \in 0 .. None /\ ticksLk' \in 0 .. None  BY <1>0, <1>1, Ranges DEF TypeOK
<1>8. /\ TypeOK' /\ CpuInv' /\ StackInv' /\ PidInv' /\ ReadyOnce' /\ ForkInv'
      /\ kpc'[p] = next /\ \A s \in Slots \ {p} : kpc'[s] = kpc[s]
  BY <1>1, <1>3, <1>4, <1>6, <1>7, QuietStep
<1>9. \A q \in Slots : kpc[q] \notin ParentPcs
  BY <1>1, Ranges DEF ProcInv, KernelInv
<1>10. KernelInv'
  BY <1>1, <1>2, <1>3, <1>8, <1>9 DEF ProcInv, KernelInv, ParentPcs
<1>11. ParentInv'
  <2>1. \A q \in Slots : kpc'[q] \in {"fork_copy", "fork_parent", "fork_ready"} =>
           kpc[q] = kpc'[q] /\ child[q] \in Slots
    BY <1>2, <1>8, ForkOwns DEF ForkPcs
  <2> QED  BY <1>0, <1>1, <1>5, <2>1 DEF ParentInv
<1>12. WaitInv'
  <2>1. ASSUME NEW q \in Slots, WaitsFor(q)'
        PROVE  /\ Children(q)' # {}
               /\ Zombies(q)' = {} \/ (q = 0 /\ \E x \in Slots : kpc'[x] = "exit_init")
    <3>1. WaitsFor(q) /\ q # p  BY <1>1, <1>3, <2>1 DEF WaitsFor
    <3>2. Children(q) # {} /\ Zombies(q) = {}
      BY <1>0, <1>9, <3>1 DEF WaitInv, ParentPcs
    <3>3. Children(q) \subseteq Children(q)'  BY <1>4, <3>1 DEF Children
    <3>4. CASE Children(p) # {} /\ q = 0  BY <1>2, <1>8, <3>2, <3>3, <3>4
    <3>5. CASE ~(Children(p) # {} /\ q = 0)
      <4>1. Children(q)' = Children(q)  BY <1>4, <3>1, <3>5 DEF Children
      <4>2. Zombies(q)' = Zombies(q)  BY <1>1, <4>1 DEF Zombies, Children
      <4> QED  BY <3>2, <4>1, <4>2
    <3> QED  BY <3>4, <3>5
  <2>2. \A q \in Slots : kpc'[q] \notin {"wait_sleep", "exit_zombie"}
    BY <1>2, <1>8, <1>9 DEF ParentPcs
  <2> QED  BY <2>1, <2>2 DEF WaitInv
<1> QED  BY <1>8, <1>10, <1>11, <1>12 DEF ProcInv

(* init is woken: whatever it has just inherited, it does not sleep. *)
LEMMA ExitWakeInitInv ==
  ASSUME ProcInv, NEW c \in CPUs, NEW p \in Slots, ExitWakeInit(c, p) PROVE ProcInv'
<1>0. TypeOK /\ ParentInv /\ WaitInv  BY DEF ProcInv
<1>1. /\ On(c, p) /\ kpc[p] = "exit_init" /\ WakeSlot(0, 0)
      /\ kpc' = [kpc EXCEPT ![p] = "exit_parent"]
      /\ UNCHANGED <<chan, pid, killed, parent, excl, parentsLk, ticksLk, cpu, child, tick,
                     current, recycled>>
  BY DEF ExitWakeInit
<1>2. state[p] = "RUNNING" /\ 0 \in Slots  BY <1>1, Running, Ranges
<1>3. "exit_parent" \in KernelPcs  BY DEF KernelPcs
<1>4. /\ kpc' \in [Slots -> KernelPcs] /\ kpc'[p] = "exit_parent"
      /\ \A s \in Slots \ {p} : kpc'[s] = kpc[s]
  BY <1>0, <1>1, <1>3, KpcIs
<1>5. /\ \A q \in Slots : kpc'[q] \in ForkPcs \/ kpc[q] \in ForkPcs => kpc'[q] = kpc[q]
      /\ \A s \in Slots : kpc[s] = "user" /\ state[s] # "RUNNING" => kpc'[s] = "user"
  BY <1>1, <1>2, <1>4 DEF ForkPcs
<1>6. /\ state' \in [Slots -> States] /\ fifo' \in Seq(Slots)
      /\ \A s \in Slots : state'[s] # state[s] => state[s] = "SLEEPING" /\ state'[s] = "RUNNABLE"
      /\ state[0] = "SLEEPING" /\ chan[0] = 0 => state'[0] # "SLEEPING"
      /\ CpuInv' /\ StackInv' /\ PidInv' /\ ReadyOnce' /\ ForkInv'
  BY <1>1, <1>2, <1>5, WakeIs
<1>7. TypeOK'  BY <1>0, <1>1, <1>4, <1>6 DEF TypeOK, KernelPcs
<1>8. parentsLk = p /\ p # 0 /\ \A q \in Slots \ {p} : kpc[q] \notin ParentPcs
  BY <1>1 DEF ProcInv, KernelInv, ParentPcs
<1>9. KernelInv'
  BY <1>1, <1>2, <1>4, <1>6, <1>8 DEF ProcInv, KernelInv, ParentPcs
<1>10. ParentInv'
  <2>1. \A s \in Slots : (state'[s] = "UNUSED" <=> state[s] = "UNUSED")
                         /\ (state'[s] = "ALLOCATED" <=> state[s] = "ALLOCATED")
    BY <1>6
  <2> QED  BY <1>0, <1>1, <1>5, <2>1, ParentFrame DEF ForkPcs
<1>11. WaitInv'
  <2>1. ASSUME NEW q \in Slots, WaitsFor(q)' PROVE Children(q)' # {} /\ Zombies(q)' = {}
    <3>1. WaitsFor(q) /\ q # 0  BY <1>1, <1>6, <2>1 DEF WaitsFor
    <3>2. Children(q) # {} /\ Zombies(q) = {}  BY <1>0, <3>1 DEF WaitInv
    <3>3. Children(q)' = Children(q)  BY <1>1 DEF Children
    <3>4. Zombies(q)' = Zombies(q)  BY <1>1, <1>6, <3>3 DEF Zombies, Children
    <3> QED  BY <3>2, <3>3, <3>4
  <2>2. \A q \in Slots : kpc'[q] \notin {"wait_sleep", "exit_zombie"}
    BY <1>4, <1>8 DEF ParentPcs
  <2> QED  BY <2>1, <2>2 DEF WaitInv
<1> QED  BY <1>6, <1>7, <1>9, <1>10, <1>11 DEF ProcInv

(* The parent is woken before there is a zombie to find; the parent map is *)
(* locked until there is one.                                              *)
LEMMA ExitWakeParentInv ==
  ASSUME ProcInv, NEW c \in CPUs, NEW p \in Slots, ExitWakeParent(c, p) PROVE ProcInv'
<1> DEFINE r == parent[p]
<1>0. TypeOK /\ ParentInv /\ WaitInv  BY DEF ProcInv
<1>1. /\ On(c, p) /\ kpc[p] = "exit_parent" /\ WakeSlot(r, r)
      /\ kpc' = [kpc EXCEPT ![p] = "exit_zombie"]
      /\ UNCHANGED <<chan, pid, killed, parent, excl, parentsLk, ticksLk, cpu, child, tick,
                     current, recycled>>
  BY DEF ExitWakeParent
<1>2. state[p] = "RUNNING" /\ r \in Slots  BY <1>1, Running, Ready
<1>12. parent[p] = r  OBVIOUS
<1> HIDE DEF r
<1>3. "exit_zombie" \in KernelPcs  BY DEF KernelPcs
<1>4. /\ kpc' \in [Slots -> KernelPcs] /\ kpc'[p] = "exit_zombie"
      /\ \A s \in Slots \ {p} : kpc'[s] = kpc[s]
  BY <1>0, <1>1, <1>3, KpcIs
<1>5. /\ \A q \in Slots : kpc'[q] \in ForkPcs \/ kpc[q] \in ForkPcs => kpc'[q] = kpc[q]
      /\ \A s \in Slots : kpc[s] = "user" /\ state[s] # "RUNNING" => kpc'[s] = "user"
  BY <1>1, <1>2, <1>4 DEF ForkPcs
<1>6. /\ state' \in [Slots -> States] /\ fifo' \in Seq(Slots)
      /\ \A s \in Slots : state'[s] # state[s] => state[s] = "SLEEPING" /\ state'[s] = "RUNNABLE"
      /\ state[r] = "SLEEPING" /\ chan[r] = r => state'[r] # "SLEEPING"
      /\ CpuInv' /\ StackInv' /\ PidInv' /\ ReadyOnce' /\ ForkInv'
  BY <1>1, <1>2, <1>5, WakeIs
<1>7. TypeOK'  BY <1>0, <1>1, <1>4, <1>6 DEF TypeOK, KernelPcs
<1>8. parentsLk = p /\ p # 0 /\ \A q \in Slots \ {p} : kpc[q] \notin ParentPcs
  BY <1>1 DEF ProcInv, KernelInv, ParentPcs
<1>9. KernelInv'
  BY <1>1, <1>2, <1>4, <1>6, <1>8 DEF ProcInv, KernelInv, ParentPcs
<1>10. ParentInv'
  <2>1. \A s \in Slots : (state'[s] = "UNUSED" <=> state[s] = "UNUSED")
                         /\ (state'[s] = "ALLOCATED" <=> state[s] = "ALLOCATED")
    BY <1>6
  <2> QED  BY <1>0, <1>1, <1>5, <2>1, ParentFrame DEF ForkPcs
<1>11. WaitInv'
  <2>0. \A q \in Slots : kpc[q] # "exit_init"  BY <1>1, <1>8 DEF ParentPcs
  <2>1. ASSUME NEW q \in Slots, WaitsFor(q)' PROVE Children(q)' # {} /\ Zombies(q)' = {}
    <3>1. WaitsFor(q)  BY <1>1, <1>6, <2>1 DEF WaitsFor
    <3>2. Children(q) # {} /\ Zombies(q) = {}  BY <1>0, <2>0, <3>1 DEF WaitInv
    <3>3. Children(q)' = Children(q)  BY <1>1 DEF Children
    <3>4. Zombies(q)' = Zombies(q)  BY <1>1, <1>6, <3>3 DEF Zombies, Children
    <3> QED  BY <3>2, <3>3, <3>4
  <2>2. \A q \in Slots : kpc'[q] # "wait_sleep" /\ (kpc'[q] = "exit_zombie" => q = p)
    BY <1>4, <1>8 DEF ParentPcs
  <2>3. ~WaitsFor(parent[p])'
    BY <1>1, <1>2, <1>6, <1>12 DEF WaitsFor
  <2> QED  BY <2>1, <2>2, <2>3 DEF WaitInv
<1> QED  BY <1>6, <1>7, <1>9, <1>10, <1>11 DEF ProcInv

-----------------------------------------------------------------------------
(***************************************************************************)
(* wait, and clock_sleep.                                                  *)
(***************************************************************************)

(* Nobody else is between the lock of the parent map and its release. *)
LEMMA ParentsFree ==
  ASSUME ProcInv, parentsLk = None PROVE \A q \in Slots : kpc[q] \notin ParentPcs
BY Ranges DEF ProcInv, KernelInv

(* wait enters, or comes back from its sleep. *)
LEMMA WaitLockInv ==
  ASSUME ProcInv, NEW c \in CPUs, NEW p \in Slots, WaitLock(c, p) PROVE ProcInv'
<1>0. TypeOK /\ ParentInv /\ WaitInv  BY DEF ProcInv
<1>1. /\ On(c, p) /\ kpc[p] \in {"user", "wait_again"} /\ parentsLk = None /\ parentsLk' = p
      /\ kpc' = [kpc EXCEPT ![p] = "wait"]
      /\ UNCHANGED <<state, chan, pid, killed, parent, excl, ticksLk, fifo, cpu, child, tick,
                     current, recycled>>
  BY DEF WaitLock, Enters
<1>2. state[p] = "RUNNING"  BY <1>1, Running
<1>3. /\ "wait" \in KernelPcs \ ForkPcs /\ kpc[p] \notin ForkPcs
      /\ parentsLk' \in 0 .. None /\ ticksLk' \in 0 .. None /\ parent' \in [Slots -> 0 .. None]
  BY <1>0, <1>1, Ranges DEF KernelPcs, ForkPcs, TypeOK
<1>4. /\ TypeOK' /\ CpuInv' /\ StackInv' /\ PidInv' /\ ReadyOnce' /\ ForkInv' /\ ParentInv'
      /\ kpc'[p] = "wait" /\ \A s \in Slots \ {p} : kpc'[s] = kpc[s]
  BY <1>1, <1>2, <1>3, QuietStep
<1>5. KernelInv'
  BY <1>1, <1>2, <1>4, ParentsFree DEF ProcInv, KernelInv, ParentPcs
<1>6. WaitInv'  BY <1>0, <1>1, <1>4, Ready, WaitFrame
<1> QED  BY <1>4, <1>5, <1>6 DEF ProcInv

(* wait finds no zombie: it gives up, or will sleep with the parent map    *)
(* still locked.                                                           *)
LEMMA WaitCheckInv ==
  ASSUME ProcInv, NEW c \in CPUs, NEW p \in Slots, WaitCheck(c, p) PROVE ProcInv'
<1>0. TypeOK /\ ParentInv /\ WaitInv  BY DEF ProcInv
<1>1. /\ On(c, p) /\ kpc[p] = "wait" /\ Zombies(p) = {}
      /\ UNCHANGED <<state, chan, pid, killed, parent, excl, ticksLk, fifo, cpu, child, tick,
                     current, recycled>>
  BY DEF WaitCheck
<1>2. state[p] = "RUNNING" /\ kpc[p] \notin ForkPcs  BY <1>1, Running DEF ForkPcs
<1>3. ticksLk' \in 0 .. None /\ parent' \in [Slots -> 0 .. None] /\ parentsLk \in 0 .. None
  BY <1>0, <1>1 DEF TypeOK
<1>4. parentsLk = p /\ \A q \in Slots \ {p} : kpc[q] \notin ParentPcs
  BY <1>1 DEF ProcInv, KernelInv, ParentPcs
<1>5. CASE WaitReturn(p)
  <2>1. kpc' = [kpc EXCEPT ![p] = "user"] /\ parentsLk' = None  BY <1>5 DEF WaitReturn
  <2>2. "user" \in KernelPcs \ ForkPcs /\ parentsLk' \in 0 .. None
    BY <2>1, Ranges DEF KernelPcs, Preemptible, ForkPcs
  <2>3. /\ TypeOK' /\ CpuInv' /\ StackInv' /\ PidInv' /\ ReadyOnce' /\ ForkInv' /\ ParentInv'
        /\ kpc'[p] = "user" /\ \A s \in Slots \ {p} : kpc'[s] = kpc[s]
    BY <1>1, <1>2, <1>3, <2>1, <2>2, QuietStep
  <2>4. KernelInv'  BY <1>1, <1>2, <1>4, <2>3 DEF ProcInv, KernelInv, ParentPcs
  <2>5. WaitInv'  BY <1>0, <1>1, <2>3, Ready, WaitFrame
  <2> QED  BY <2>3, <2>4, <2>5 DEF ProcInv
<1>6. CASE Children(p) # {} /\ kpc' = [kpc EXCEPT ![p] = "wait_sleep"] /\ UNCHANGED parentsLk
  <2>1. "wait_sleep" \in KernelPcs \ ForkPcs /\ parentsLk' \in 0 .. None
    BY <1>3, <1>6 DEF KernelPcs, ForkPcs
  <2>2. /\ TypeOK' /\ CpuInv' /\ StackInv' /\ PidInv' /\ ReadyOnce' /\ ForkInv' /\ ParentInv'
        /\ kpc'[p] = "wait_sleep" /\ \A s \in Slots \ {p} : kpc'[s] = kpc[s]
    BY <1>1, <1>2, <1>3, <1>6, <2>1, QuietStep
  <2>3. KernelInv'  BY <1>1, <1>2, <1>4, <1>6, <2>2 DEF ProcInv, KernelInv, ParentPcs
  <2>4. WaitInv'
    <3>1. \A q : Children(q)' = Children(q) /\ Zombies(q)' = Zombies(q)
      BY <1>1 DEF Zombies, Children
    <3>2. \A q \in Slots : WaitsFor(q)' => WaitsFor(q)  BY <1>1 DEF WaitsFor
    <3>3. \A q \in Slots : kpc[q] # "exit_init"  BY <1>1, <1>4 DEF ParentPcs
    <3>4. \A q \in Slots : WaitsFor(q)' => Children(q)' # {} /\ Zombies(q)' = {}
      BY <1>0, <3>1, <3>2, <3>3 DEF WaitInv
    <3>5. \A q \in Slots : kpc'[q] # "exit_zombie" /\ (kpc'[q] = "wait_sleep" => q = p)
      BY <1>4, <2>2 DEF ParentPcs
    <3> QED  BY <1>1, <1>6, <3>1, <3>4, <3>5 DEF WaitInv
  <2> QED  BY <2>2, <2>3, <2>4 DEF ProcInv
<1> QED  BY <1>5, <1>6 DEF WaitCheck

(* wait collects a zombie: the slot is unused, off every CPU, and nobody's *)
(* child.                                                                  *)
LEMMA WaitReapInv ==
  ASSUME ProcInv, NEW c \in CPUs, NEW p \in Slots, WaitReap(c, p) PROVE ProcInv'
<1> DEFINE s == Least(Zombies(p))
<1>0. TypeOK /\ CpuInv /\ StackInv /\ ReadyOnce /\ ForkInv /\ ParentInv /\ WaitInv /\ PidInv
  BY DEF ProcInv
<1>1. /\ On(c, p) /\ kpc[p] = "wait" /\ Zombies(p) # {} /\ s \notin excl
      /\ parentsLk' = None /\ kpc' = [kpc EXCEPT ![p] = "user"]
      /\ UNCHANGED <<excl, ticksLk, fifo, cpu, child, tick, current, recycled>>
  BY DEF WaitReap, WaitReturn, Reapable
<1>2. state[p] = "RUNNING" /\ kpc[p] \notin ForkPcs /\ p # None
  BY <1>1, Running, Ranges DEF ForkPcs
<1>3. s \in Slots /\ parent[s] = p /\ state[s] = "ZOMBIE" /\ s # p
  <2>1. Zombies(p) \subseteq Slots  BY DEF Zombies, Children
  <2>2. s \in Zombies(p)  BY <1>1, <2>1, LeastIn
  <2> QED  BY <1>2, <2>2 DEF Zombies, Children
<1>4. parentsLk = p /\ \A q \in Slots \ {p} : kpc[q] \notin ParentPcs
  BY <1>1 DEF ProcInv, KernelInv, ParentPcs
<1>5. "user" \in KernelPcs \ ForkPcs /\ None \in 0 .. None
  BY Ranges DEF KernelPcs, Preemptible, ForkPcs
<1>6. CASE UNCHANGED <<parent, killed, state, chan, pid>>
  <2>1. ticksLk' \in 0 .. None /\ parent' \in [Slots -> 0 .. None]  BY <1>0, <1>1, <1>6 DEF TypeOK
  <2>2. /\ TypeOK' /\ CpuInv' /\ StackInv' /\ PidInv' /\ ReadyOnce' /\ ForkInv' /\ ParentInv'
        /\ kpc'[p] = "user" /\ \A q \in Slots \ {p} : kpc'[q] = kpc[q]
    BY <1>1, <1>2, <1>5, <1>6, <2>1, QuietStep
  <2>3. KernelInv'  BY <1>2, <1>4, <1>6, <2>2 DEF ProcInv, KernelInv, ParentPcs
  <2>4. WaitInv'  BY <1>0, <1>1, <1>6, <2>2, Ready, WaitFrame
  <2> QED  BY <2>2, <2>3, <2>4 DEF ProcInv
<1>7. CASE /\ parent' = [parent EXCEPT ![s] = None]
           /\ killed' = [killed EXCEPT ![s] = FALSE]
           /\ state' = [state EXCEPT ![s] = "UNUSED"]
           /\ chan' = [chan EXCEPT ![s] = None]
           /\ pid' = [pid EXCEPT ![s] = 0]
  <2> HIDE DEF s
  <2>1. /\ state' \in [Slots -> States] /\ state'[s] = "UNUSED"
        /\ \A t \in Slots \ {s} : state'[t] = state[t]
    BY <1>0, <1>3, <1>7 DEF TypeOK, States
  <2>2. /\ kpc' \in [Slots -> KernelPcs] /\ kpc'[p] = "user"
        /\ \A q \in Slots \ {p} : kpc'[q] = kpc[q]
    BY <1>0, <1>1, <1>5, KpcIs
  <2>3. /\ parent' \in [Slots -> 0 .. None] /\ parent'[s] = None
        /\ \A t \in Slots \ {s} : parent'[t] = parent[t]
    BY <1>0, <1>3, <1>5, <1>7 DEF TypeOK
  <2>4. /\ pid' \in [Slots -> Nat] /\ pid'[s] = 0
        /\ \A t \in Slots \ {s} : pid'[t] = pid[t]
        /\ killed' \in [Slots -> BOOLEAN]
        /\ \A t \in Slots \ {s} : killed'[t] = killed[t]
    BY <1>0, <1>3, <1>7 DEF TypeOK
  <2>5. /\ chan' \in [Slots -> 0 .. TICKS]
        /\ \A t \in Slots \ {s} : chan'[t] = chan[t]
    BY <1>0, <1>3, <1>7, Ranges DEF TypeOK
  <2>6. TypeOK'  BY <1>0, <1>1, <1>5, <2>1, <2>2, <2>3, <2>4, <2>5 DEF TypeOK, KernelPcs
  <2>7. CpuInv' /\ StackInv'  BY <1>0, <1>1, <1>3, <2>1, CpuFrame
  <2>8. ReadyOnce' /\ Queued' = Queued /\ Fetched' = Fetched
    <3>1. \A t \in Slots : state[t] = "RUNNABLE" <=> state'[t] = "RUNNABLE"  BY <1>3, <2>1
    <3>2. \A q \in Slots : kpc[q] = "fork_queue" =>
             kpc'[q] = "fork_queue" /\ child'[q] = child[q]
      BY <1>1, <2>2
    <3>3. \A t \in Slots : state[t] = "RUNNABLE" /\ killed[t] => killed'[t]
      BY <1>3, <2>4
    <3> QED  BY <1>0, <1>1, <3>1, <3>2, <3>3, Ready, ReadyFrame
  <2>9. ForkInv'
    <3>1. \A q \in Slots : kpc'[q] \in ForkPcs => kpc[q] = kpc'[q] /\ child'[q] = child[q]
      BY <1>1, <1>5, <2>2
    <3>2. \A t \in Slots : kpc[t] = "user" /\ state[t] # "RUNNING" => kpc'[t] = "user"
      BY <2>2
    <3>3. \A t \in Slots : state[t] \in {"ALLOCATED", "RUNNABLE"} => state'[t] = state[t]
      BY <1>3, <2>1
    <3> QED  BY <1>0, <2>8, <3>1, <3>2, <3>3, ForkFrame
  <2>10. KernelInv'
    <3>1. kpc[s] = "user"  BY <1>3 DEF ProcInv, KernelInv
    <3> QED  BY <1>2, <1>3, <1>4, <2>1, <2>2, <3>1 DEF ProcInv, KernelInv, ParentPcs
  <2>11. ParentInv'
    <3>1. \A q \in Slots : kpc'[q] \in {"fork_copy", "fork_parent", "fork_ready"} =>
             kpc[q] = kpc'[q] /\ child'[q] = child[q] /\ child[q] \in Slots /\ child[q] # s
      BY <1>1, <1>3, <2>2, ForkOwns DEF ForkPcs
    <3> QED  BY <1>0, <1>3, <2>1, <2>3, <3>1 DEF ParentInv
  <2>12. WaitInv'
    <3>1. ASSUME NEW q \in Slots, WaitsFor(q)' PROVE Children(q)' # {} /\ Zombies(q)' = {}
      <4>1. q # s /\ q # p  BY <1>2, <2>1, <3>1 DEF WaitsFor
      <4>2. WaitsFor(q)  BY <2>1, <2>5, <3>1, <4>1 DEF WaitsFor
      <4>3. \A x \in Slots : kpc[x] # "exit_init"  BY <1>1, <1>4 DEF ParentPcs
      <4>4. Children(q) # {} /\ Zombies(q) = {}  BY <1>0, <4>2, <4>3 DEF WaitInv
      <4>5. q # None  BY Ranges
      <4>6. Children(q)' = Children(q)  BY <1>3, <2>3, <4>1, <4>5 DEF Children
      <4>7. Zombies(q)' = Zombies(q)
        BY <1>3, <2>1, <2>3, <4>1, <4>5 DEF Zombies, Children
      <4> QED  BY <4>4, <4>6, <4>7
    <3>2. \A q \in Slots : kpc'[q] \notin {"wait_sleep", "exit_zombie"}
      BY <1>4, <2>2 DEF ParentPcs
    <3> QED  BY <3>1, <3>2 DEF WaitInv
  <2>13. PidInv'
    <3>1. pid[s] \in Nat /\ pid[s] < current /\ current \in Nat
      BY <1>0, <1>3 DEF PidInv, TypeOK
    <3>2. 0 < current  BY <3>1
    <3>3. PidInv  BY <1>0
    <3>4. \A t \in Slots : state'[t] \notin {"UNUSED", "ZOMBIE"} =>
             t # s /\ state[t] \notin {"UNUSED", "ZOMBIE"} /\ pid'[t] = pid[t]
      BY <2>1, <2>4
    <3>5. \A t \in Slots : pid'[t] < current  BY <2>4, <3>2, <3>3 DEF PidInv
    <3> QED  BY <1>1, <3>3, <3>4, <3>5 DEF PidInv
  <2> QED  BY <2>6, <2>7, <2>8, <2>9, <2>10, <2>11, <2>12, <2>13 DEF ProcInv
<1> QED  BY <1>6, <1>7 DEF WaitReap, Orphaned

(* clock_sleep: the time has come, or the process will sleep. *)
LEMMA TickCheckInv ==
  ASSUME ProcInv, NEW c \in CPUs, NEW p \in Slots, TickCheck(c, p) PROVE ProcInv'
<1> DEFINE next == kpc'[p]
<1>0. TypeOK /\ ParentInv /\ WaitInv  BY DEF ProcInv
<1>1. /\ On(c, p) /\ kpc[p] \in {"user", "tick_again"}
      /\ UNCHANGED <<state, chan, pid, killed, parent, excl, parentsLk, fifo, cpu, child, tick,
                     current, recycled>>
  BY DEF TickCheck, Enters
<1>2. state[p] = "RUNNING"  BY <1>1, Running
<1>3. /\ kpc' = [kpc EXCEPT ![p] = "user"] \/ kpc' = [kpc EXCEPT ![p] = "tick_sleep"]
      /\ ticksLk' = ticksLk \/ ticksLk' = p
  BY DEF TickCheck
<1>4. next \in {"user", "tick_sleep"} /\ kpc' = [kpc EXCEPT ![p] = next]
  BY <1>0, <1>3 DEF TypeOK
<1> HIDE DEF next
<1>5. next \in KernelPcs \ ForkPcs /\ kpc[p] \notin ForkPcs
  BY <1>1, <1>4 DEF KernelPcs, Preemptible, ForkPcs
<1>6. /\ parentsLk' \in 0 .. None /\ ticksLk' \in 0 .. None
      /\ parent' \in [Slots -> 0 .. None]
  <2>1. /\ parentsLk \in 0 .. None /\ ticksLk \in 0 .. None
        /\ parent \in [Slots -> 0 .. None]
    BY <1>0 DEF TypeOK
  <2>2. p \in 0 .. None  BY Ranges
  <2> QED  BY <1>1, <1>3, <2>1, <2>2
<1>7. /\ TypeOK' /\ CpuInv' /\ StackInv' /\ PidInv' /\ ReadyOnce' /\ ForkInv' /\ ParentInv'
      /\ kpc'[p] = next /\ \A s \in Slots \ {p} : kpc'[s] = kpc[s]
  BY <1>1, <1>2, <1>4, <1>5, <1>6, QuietStep
<1>8. KernelInv'  BY <1>1, <1>2, <1>4, <1>7 DEF ProcInv, KernelInv, ParentPcs
<1>9. WaitInv'  BY <1>0, <1>1, <1>4, <1>7, Ready, WaitFrame
<1> QED  BY <1>7, <1>8, <1>9 DEF ProcInv

-----------------------------------------------------------------------------
(***************************************************************************)
(* kill and the clock.                                                     *)
(***************************************************************************)

(* kill makes a sleeper RUNNABLE without queueing it, and marks it. *)
LEMMA KillInv ==
  ASSUME ProcInv, NEW c \in CPUs, NEW p \in Slots, NEW x \in 1 .. (MaxPid - 1), Kill(c, p, x)
  PROVE  ProcInv'
<1> DEFINE T == {s \in Slots : pid[s] = x}
           t == Least(T)
<1>0. TypeOK /\ CpuInv /\ StackInv /\ ReadyOnce /\ ForkInv /\ ParentInv /\ WaitInv /\ PidInv
  BY DEF ProcInv
<1>1. /\ T # {} /\ t \notin excl
      /\ killed' = [killed EXCEPT ![t] = TRUE]
      /\ state' = [state EXCEPT ![t] = IF @ = "SLEEPING" THEN "RUNNABLE" ELSE @]
      /\ UNCHANGED <<chan, pid, parent, excl, parentsLk, ticksLk, fifo, cpu, kpc, child, tick,
                     current, recycled>>
  BY DEF Kill
<1>2. t \in Slots
  <2>1. T \subseteq Slots  OBVIOUS
  <2>2. t \in T  BY <1>1, <2>1, LeastIn
  <2> QED  BY <2>2
<1> HIDE DEF T, t
<1>3. /\ state' \in [Slots -> States]
      /\ \A s \in Slots \ {t} : state'[s] = state[s]
      /\ state[t] = "SLEEPING" => state'[t] = "RUNNABLE"
      /\ state[t] # "SLEEPING" => state'[t] = state[t]
  BY <1>0, <1>1, <1>2 DEF TypeOK, States
<1>4. killed' \in [Slots -> BOOLEAN] /\ killed'[t] /\ \A s \in Slots \ {t} : killed'[s] = killed[s]
  BY <1>0, <1>1, <1>2 DEF TypeOK
<1>5. TypeOK'  BY <1>0, <1>1, <1>3, <1>4 DEF TypeOK
<1>6. CpuInv' /\ StackInv'  BY <1>0, <1>1, <1>3, CpuFrame
<1>7. ReadyOnce' /\ Queued' = Queued /\ Fetched' = Fetched
  <2>1. /\ \A s \in Slots : state[s] = "RUNNABLE" => state'[s] = "RUNNABLE"
        /\ \A s \in Slots : state'[s] = "RUNNABLE" /\ state[s] # "RUNNABLE" => killed'[s]
        /\ \A s \in Slots : state[s] = "RUNNABLE" /\ killed[s] => killed'[s]
    BY <1>3, <1>4
  <2> QED  BY <1>0, <1>1, <2>1, Ready, ReadyFrame
<1>8. ForkInv'  BY <1>0, <1>1, <1>3, <1>7, ForkFrame
<1>9. KernelInv'  BY <1>1, <1>3 DEF ProcInv, KernelInv
<1>10. ParentInv'  BY <1>0, <1>1, <1>3, ParentFrame
<1>11. WaitInv'  BY <1>0, <1>1, <1>3, Ready, WaitFrame
<1>12. PidInv'  BY <1>0, <1>1, <1>3, PidFrame
<1> QED  BY <1>5, <1>6, <1>7, <1>8, <1>9, <1>10, <1>11, <1>12 DEF ProcInv

(* clock_intr starts. *)
LEMMA ClockIntrInv == ASSUME ProcInv, ClockIntr PROVE ProcInv'
<1>0. TypeOK /\ ForkInv /\ ParentInv /\ WaitInv  BY DEF ProcInv
<1>1. /\ tick' = 0
      /\ UNCHANGED <<state, chan, pid, killed, parent, excl, parentsLk, ticksLk, fifo, cpu, kpc,
                     child, current, recycled>>
  BY DEF ClockIntr
<1>2. TypeOK'  BY <1>0, <1>1, Ranges DEF TypeOK
<1>3. /\ CpuInv' /\ StackInv' /\ PidInv' /\ ReadyOnce'
      /\ Queued' = Queued /\ Fetched' = Fetched
  BY <1>1, QuietFrame
<1>4. ForkInv'  BY <1>0, <1>1, <1>3, ForkFrame
<1>5. KernelInv' /\ ParentInv'  BY <1>1 DEF ProcInv, KernelInv, ParentInv
<1>6. WaitInv'  BY <1>0, <1>1, Ready, WaitFrame
<1> QED  BY <1>2, <1>3, <1>4, <1>5, <1>6 DEF ProcInv

(* clock_intr wakes the sleepers of clock_sleep one slot at a time. *)
LEMMA ClockWakeInv == ASSUME ProcInv, ClockWake PROVE ProcInv'
<1>0. TypeOK /\ ParentInv /\ WaitInv  BY DEF ProcInv
<1>1. /\ tick < NPROC /\ WakeSlot(tick, TICKS) /\ tick' = tick + 1
      /\ UNCHANGED <<chan, pid, killed, parent, excl, parentsLk, ticksLk, cpu, kpc, child,
                     current, recycled>>
  BY DEF ClockWake
<1>2. tick \in Slots /\ tick' \in 0 .. NPROC
  BY <1>0, <1>1, ProcAssumption DEF TypeOK, Slots
<1>3. /\ state' \in [Slots -> States] /\ fifo' \in Seq(Slots)
      /\ \A s \in Slots : state'[s] # state[s] => state[s] = "SLEEPING" /\ state'[s] = "RUNNABLE"
      /\ CpuInv' /\ StackInv' /\ PidInv' /\ ReadyOnce' /\ ForkInv'
  BY <1>1, <1>2, WakeIs
<1>4. TypeOK'  BY <1>0, <1>1, <1>2, <1>3 DEF TypeOK
<1>5. KernelInv'  BY <1>1, <1>3 DEF ProcInv, KernelInv
<1>6. ParentInv'
  <2>1. \A s \in Slots : (state'[s] = "UNUSED" <=> state[s] = "UNUSED")
                         /\ (state'[s] = "ALLOCATED" <=> state[s] = "ALLOCATED")
    BY <1>3
  <2> QED  BY <1>0, <1>1, <2>1, ParentFrame
<1>7. WaitInv'
  <2>1. \A s \in Slots : (state'[s] = "ZOMBIE" <=> state[s] = "ZOMBIE")
                         /\ (state'[s] = "SLEEPING" => state[s] = "SLEEPING")
    BY <1>3
  <2> QED  BY <1>0, <1>1, <2>1, Ready, WaitFrame
<1> QED  BY <1>3, <1>4, <1>5, <1>6, <1>7 DEF ProcInv

-----------------------------------------------------------------------------
(***************************************************************************)
(* The theorems.                                                           *)
(***************************************************************************)

(* user_init leaves init alone in the queue. *)
LEMMA InitInv == Init => ProcInv
<1> SUFFICES ASSUME Init PROVE ProcInv
  OBVIOUS
<1>1. /\ \A s \in Slots : state[s] = IF s = 0 THEN "RUNNABLE" ELSE "UNUSED"
      /\ \A s \in Slots : chan[s] = None /\ pid[s] = 0 /\ killed[s] = FALSE
      /\ \A s \in Slots : parent[s] = None /\ kpc[s] = "user" /\ child[s] = None
      /\ excl = {} /\ parentsLk = None /\ fifo = <<0>>
      /\ \A c \in CPUs : cpu[c].at = "idle" /\ cpu[c].proc = None
      /\ current = 1 /\ recycled = <<>>
  BY DEF Init
<1>2. TypeOK
  <2>1. fifo \in Seq(Slots)  BY <1>1, Ranges
  <2>2. /\ state \in [Slots -> States] /\ chan \in [Slots -> 0 .. TICKS]
        /\ pid \in [Slots -> Nat] /\ killed \in [Slots -> BOOLEAN]
        /\ parent \in [Slots -> 0 .. None] /\ child \in [Slots -> 0 .. None]
    BY Ranges DEF Init, States
  <2>3. cpu \in [CPUs -> [at : {"idle", "fetched", "resume", "run", "switch"}, proc : 0 .. None]]
    BY Ranges DEF Init
  <2>4. kpc \in [Slots -> KernelPcs]  BY DEF Init, KernelPcs, Preemptible
  <2>5. current \in Nat /\ recycled \in Seq(Nat)  BY <1>1
  <2>6. parentsLk \in 0 .. None /\ ticksLk \in 0 .. None /\ tick \in 0 .. NPROC
    BY Ranges DEF Init
  <2> QED  BY <1>1, <2>1, <2>2, <2>3, <2>4, <2>5, <2>6 DEF TypeOK, KernelPcs
<1>3. CpuInv /\ StackInv  BY <1>1 DEF CpuInv, StackInv, Busy
<1>4. Queued = {0} /\ Fetched = {} /\ Len(fifo) = 1
  <2>1. Len(fifo) = 1 /\ fifo[1] = 0  BY <1>1
  <2>2. 1 .. 1 = {1}  OBVIOUS
  <2> QED  BY <1>1, <2>1, <2>2 DEF Queued, Fetched
<1>5. ReadyOnce
  <2>1. \A i, j \in 1 .. Len(fifo) : i = j  BY <1>4
  <2> QED  BY <1>1, <1>4, <2>1, Ranges DEF ReadyOnce
<1>6. ForkInv /\ KernelInv  BY <1>1 DEF ForkInv, KernelInv, ForkPcs, ParentPcs
<1>7. ParentInv /\ WaitInv  BY <1>1 DEF ParentInv, WaitInv, WaitsFor
<1>8. PidInv
  <2>1. Len(recycled) = 0 /\ 0 < current  BY <1>1
  <2>2. \A s \in Slots : state[s] \notin {"UNUSED", "ZOMBIE"} => s = 0  BY <1>1
  <2>3. \A s \in Slots : pid[s] < current  BY <1>1, <2>1
  <2>4. \A i \in 1 .. Len(recycled) : FALSE  BY <2>1
  <2> QED  BY <2>2, <2>3, <2>4 DEF PidInv
<1> QED  BY <1>2, <1>3, <1>5, <1>6, <1>7, <1>8 DEF ProcInv

(* Every step keeps the invariant. *)
LEMMA NextInv == ASSUME ProcInv, [Next]_vars PROVE ProcInv'
<1>1. CASE UNCHANGED vars
  <2>1. UNCHANGED <<state, chan, pid, killed, parent, excl, parentsLk, fifo, cpu, kpc, child,
                    ticksLk, tick, current, recycled>>
    BY <1>1 DEF vars
  <2>2. /\ CpuInv' /\ StackInv' /\ PidInv' /\ ReadyOnce'
        /\ Queued' = Queued /\ Fetched' = Fetched
    BY <2>1, QuietFrame
  <2>3. TypeOK' /\ KernelInv' /\ ParentInv'
    BY <2>1 DEF ProcInv, TypeOK, KernelInv, ParentInv
  <2>4. ForkInv'  BY <2>1, <2>2, ForkFrame DEF ProcInv
  <2>5. WaitInv'  BY <2>1, Ready, WaitFrame DEF ProcInv
  <2> QED  BY <2>2, <2>3, <2>4, <2>5 DEF ProcInv
<1>2. ASSUME NEW c \in CPUs, Scheduler(c) PROVE ProcInv'
  BY <1>2, FetchInv, DispatchInv, ResumeInv, SwitchBackInv DEF Scheduler
<1>3. ASSUME NEW c \in CPUs, NEW p \in Slots, Yield(c, p) PROVE ProcInv'
  BY <1>3, YieldInv
<1>4. ASSUME NEW c \in CPUs, NEW p \in Slots, InKernel(c, p) PROVE ProcInv'
  BY <1>4, ForkCopyInv, ForkParentInv, ForkReadyInv, ForkQueueInv, ExitWakeInitInv,
     ExitWakeParentInv, ExitZombieInv, WaitReapInv, WaitCheckInv, WaitSleepInv, TickSleepInv
     DEF InKernel
<1>5. ASSUME NEW c \in CPUs, NEW p \in Slots, Syscall(c, p) PROVE ProcInv'
  BY <1>5, ForkAllocInv, ForkFailInv, ExitLockInv, WaitLockInv, TickCheckInv, KillInv
     DEF Syscall
<1> QED  BY <1>1, <1>2, <1>3, <1>4, <1>5, ClockIntrInv, ClockWakeInv DEF Next

(* The inductive invariant, and with it the type of every variable: no     *)
(* interleaving of CPUs, system calls, timer and kill leads out of it.     *)
THEOREM ProcInvariant == Spec => []ProcInv
<1>1. Init => ProcInv  BY InitInv
<1>2. ProcInv /\ [Next]_vars => ProcInv'  BY NextInv
<1> QED  BY <1>1, <1>2, PTL DEF Spec

(* Every variable keeps its type. *)
THEOREM ProcTypeCorrect == Spec => []TypeOK
<1>1. ProcInv => TypeOK  BY DEF ProcInv
<1> QED  BY <1>1, ProcInvariant, PTL

(* A kernel stack is in use by one CPU, and a slot that waiting() has      *)
(* freed is off every CPU and queue: yielding() queues a process before it *)
(* has left its stack, and exiting() shows a zombie that is still on its   *)
(* own, and excl alone makes both safe.                                    *)
THEOREM ProcExclusiveRun == Spec => []ExclusiveRun
<1>1. ProcInv => ExclusiveRun
  <2> SUFFICES ASSUME ProcInv PROVE ExclusiveRun
    OBVIOUS
  <2>0. TypeOK /\ CpuInv /\ StackInv  BY DEF ProcInv
  <2>1. ASSUME NEW s \in Slots, state[s] = "UNUSED"
        PROVE  s \notin Queued /\ \A c \in CPUs : cpu[c].proc # s
    <3>1. s \notin Queued  BY <2>1, Ready
    <3>2. ASSUME NEW c \in CPUs, cpu[c].proc = s PROVE FALSE
      <4>1. cpu[c].at \in {"idle", "fetched", "resume", "run", "switch"}  BY <2>0 DEF TypeOK
      <4>2. cpu[c].at # "idle"  BY <2>0, <3>2, Ranges DEF CpuInv
      <4> QED  BY <2>0, <2>1, <3>2, <4>1, <4>2 DEF CpuInv
    <3> QED  BY <3>1, <3>2
  <2> QED  BY <2>0, <2>1 DEF ExclusiveRun, StackInv
<1> QED  BY <1>1, ProcInvariant, PTL

(* Whoever is queued or fetched is RUNNABLE and is so once, and whoever is *)
(* RUNNABLE and not killed will be found by a scheduler.                   *)
THEOREM ProcReadyOnce == Spec => []ReadyOnce
<1>1. ProcInv => ReadyOnce  BY DEF ProcInv
<1> QED  BY <1>1, ProcInvariant, PTL

(* exiting() wakes the parent before it becomes a zombie, and no zombie is *)
(* missed for it: the lock of the parent map orders the two.               *)
THEOREM ProcNoLostChild == Spec => []NoLostChild
<1>1. ProcInv => NoLostChild
  <2> SUFFICES ASSUME ProcInv, NEW p \in Slots, parentsLk = None,
                      state[p] = "SLEEPING", chan[p] = p
               PROVE  Zombies(p) = {} /\ Children(p) # {}
    BY DEF NoLostChild
  <2>1. WaitsFor(p)  BY DEF WaitsFor
  <2>2. \A x \in Slots : kpc[x] # "exit_init"  BY ParentsFree DEF ParentPcs
  <2> QED  BY <2>1, <2>2 DEF ProcInv, WaitInv
<1> QED  BY <1>1, ProcInvariant, PTL

(* The assertions of set_parent, exiting, pid_dealloc, yielding, sleep and *)
(* try_yield_proc hold where they are evaluated.                           *)
THEOREM ProcAssertsHold == Spec => []AssertsHold
<1>1. ProcInv => AssertsHold
  <2> SUFFICES ASSUME ProcInv PROVE AssertsHold
    OBVIOUS
  <2>1. \A p \in Slots : kpc[p] = "fork_parent" => parent[child[p]] = None
    BY DEF ProcInv, ParentInv
  <2>2. ASSUME NEW p \in Slots, kpc[p] \in {"exit_parent", "exit_zombie"}
        PROVE  /\ parent[p] # None
               /\ pid[p] < current
               /\ \A i \in 1 .. Len(recycled) : recycled[i] # pid[p]
    <3>1. state[p] = "RUNNING"  BY <2>2 DEF ProcInv, KernelInv, ParentPcs
    <3>2. parent[p] # None  BY <2>2, Ready, Ranges
    <3> QED  BY <3>1, <3>2 DEF ProcInv, PidInv
  <2>3. \A c \in CPUs : /\ cpu[c].at = "run" => state[cpu[c].proc] = "RUNNING"
                        /\ cpu[c].at = "fetched" => state[cpu[c].proc] # "RUNNING"
    BY DEF ProcInv, CpuInv
  <2> QED  BY <2>1, <2>2, <2>3 DEF AssertsHold
<1> QED  BY <1>1, ProcInvariant, PTL

(* A pid names one process that is no zombie, although exiting() gives it  *)
(* back while the zombie still carries it and the next fork takes it.      *)
THEOREM ProcPidsOfLive == Spec => []PidsOfLive
<1>1. ProcInv => PidsOfLive  BY DEF ProcInv, PidInv, PidsOfLive, Alive
<1> QED  BY <1>1, ProcInvariant, PTL
=============================================================================
