-------------------------- MODULE VirtioDiskProofs --------------------------
(***************************************************************************)
(* Proofs about the virtio driver for any number of processes and          *)
(* descriptors and any width of the ring indices: until the error path of  *)
(* alloc3_desc has freed other descriptors than it took, descriptors       *)
(* belong to one request, every completion reaches the request it is for,  *)
(* and no wakeup is lost.                                                  *)
(***************************************************************************)
EXTENDS VirtioDisk, WellFoundedInduction, FiniteSetTheorems, TLAPS

-----------------------------------------------------------------------------
(***************************************************************************)
(* The inductive invariant.                                                *)
(***************************************************************************)

(* The descriptors of a request, as rw links them. *)
Second(p) == desc[head[p]].next
Third(p) == desc[Second(p)].next
Three(p) == {head[p], Second(p), Third(p)}

Chained(p) ==
    /\ Second(p) # head[p] /\ Third(p) # head[p] /\ Third(p) # Second(p)
    /\ Three(p) \subseteq Descs \ free
    /\ desc[Third(p)].next = End
    /\ desc[Second(p)].addr = p /\ ops[head[p]] = p /\ info[head[p]].chan = p

(* Each submitted request has a chain of its own; what is in no chain is   *)
(* free.                                                                   *)
ChainInv ==
    /\ \A p \in Submitted : Chained(p)
    /\ \A p, q \in Submitted : p # q => Three(p) \cap Three(q) = {}
    /\ \A d \in Descs : d \in free \/ \E p \in Submitted : d \in Three(p)

CountInv == /\ IsFiniteSet(Submitted)
            /\ Cardinality(free) + 3 * Cardinality(Submitted) = NUM

(* The device has the buffer of p, transferred or not. *)
Serving(p, done) == /\ p \in Submitted /\ info[head[p]].disk
                    /\ p \in moved <=> done

Available == seen .. (avail.idx - 1)
Used == usedIdx .. (used.idx - 1)
AvailAt(n) == avail.ring[n % NUM]
UsedAt(n) == used.ring[n % NUM]

(* The indices do not pass each other. *)
IndexInv == /\ usedIdx <= used.idx /\ used.idx <= seen /\ seen <= avail.idx
            /\ IsFiniteSet(inflight) /\ used.idx + Cardinality(inflight) = seen

(* What is in the available ring or with the device is a request not yet   *)
(* transferred.                                                            *)
AvailInv ==
    /\ \A n \in Available : \E p \in Procs : head[p] = AvailAt(n) /\ Serving(p, FALSE)
    /\ \A m, n \in Available : AvailAt(m) = AvailAt(n) => m = n
    /\ \A r \in inflight : \E p \in Procs :
          r = [head |-> head[p], op |-> p, buf |-> p] /\ Serving(p, FALSE)
    /\ \A r \in inflight, n \in Available : r.head # AvailAt(n)

(* What is in the used ring has been transferred; what has been            *)
(* transferred is there until the handler gives it back.                   *)
UsedInv ==
    /\ \A n \in Used : \E p \in Procs :
          head[p] = UsedAt(n) /\ Serving(p, TRUE) /\ info[head[p]].status = 0
    /\ \A m, n \in Used : UsedAt(m) = UsedAt(n) => m = n
    /\ \A p \in Submitted :
          IF info[head[p]].disk THEN p \in moved => \E n \in Used : UsedAt(n) = head[p]
          ELSE p \in moved

(* A sleeper waits for the device or for descriptors; a used entry has an  *)
(* interrupt.                                                              *)
SleepInv ==
    /\ \A p \in asleep : /\ pc[p] = "disk" => info[head[p]].disk
                         /\ pc[p] = "alloc" => Cardinality(free) < 3
    /\ usedIdx # used.idx => intrRuns \/ irq

DriverInv == ChainInv /\ CountInv /\ IndexInv /\ AvailInv /\ UsedInv /\ SleepInv

DiskInv == /\ TypeOK /\ panicked \in {"no", "index"}
           /\ panicked = "no" => DriverInv

Pcs == {"out", "alloc", "disk"}

(* Whatever alloc3_desc does: what the device has or can take is a head    *)
(* that some process has written its header for.                           *)
HeadersInv ==
    /\ \A r \in inflight : r.op \in Procs
    /\ panicked = "no" =>
        /\ seen <= avail.idx
        /\ \A c \in Descs : c < avail.idx => ops[avail.ring[c]] \in Procs

USE DEF drv, rings, dev, procs

-----------------------------------------------------------------------------
(***************************************************************************)
(* Descriptors.                                                            *)
(***************************************************************************)

(* Division with remainder. *)
LEMMA DivMod ==
  ASSUME NEW a \in Int, NEW n \in Nat \ {0}
  PROVE  \E q \in Int, r \in 0 .. (n - 1) : a = n * q + r /\ a % n = r
OBVIOUS

(* A number below the modulus is its own remainder. *)
LEMMA ModSmall == ASSUME NEW n \in Nat \ {0}, NEW a \in 0 .. (n - 1) PROVE a % n = a
OBVIOUS

(* Numbers less than the modulus apart have different remainders: no two   *)
(* entries of a ring share a cell, and full and empty can be told apart.   *)
LEMMA ModApart ==
  ASSUME NEW n \in Nat \ {0}, NEW a \in Int, NEW b \in Int, a < b, b < a + n
  PROVE  a % n # b % n
<1>1. PICK k \in Int, r \in 0 .. (n - 1) : a = n * k + r /\ a % n = r  BY DivMod
<1>2. PICK j \in Int, s \in 0 .. (n - 1) : b = n * j + s /\ b % n = s  BY DivMod
<1> SUFFICES ASSUME r = s PROVE FALSE  BY <1>1, <1>2
<1> DEFINE d == j - k
<1>3. b - a = n * d /\ d \in Int  BY <1>1, <1>2
<1> HIDE DEF d
<1>4. d <= 0 \/ d >= 1  BY <1>3
<1>5. d <= 0 => n * d <= 0  BY <1>3
<1>6. d >= 1 => n * d >= n  BY <1>3
<1> QED  BY <1>3, <1>4, <1>5, <1>6

(* An interval with one more at its end, and at its start. *)
LEMMA IntervalEnd ==
  ASSUME NEW a \in Int, NEW b \in Int, a <= b
  PROVE  /\ a .. b = (a .. (b - 1)) \cup {b} /\ b \notin a .. (b - 1)
         /\ a .. b = ((a + 1) .. b) \cup {a} /\ a \notin (a + 1) .. b
OBVIOUS

(* A nonempty set of naturals has a least element. *)
LEMMA HasLeast == ASSUME NEW S, S \subseteq Nat, S # {} PROVE \E x \in S : \A y \in S : x <= y
<1>1. \E x \in S : \A y \in S : ~(<<y, x>> \in OpToRel(<, Nat))
  BY NatLessThanWellFounded, WFMin
<1>2. PICK x \in S : \A y \in S : ~(<<y, x>> \in OpToRel(<, Nat))  BY <1>1
<1>3. ASSUME NEW y \in S PROVE x <= y
  <2>1. <<y, x>> \in Nat \X Nat /\ x \in Nat /\ y \in Nat  OBVIOUS
  <2>2. ~(y < x)  BY <1>2, <2>1 DEF OpToRel
  <2> QED  BY <2>1, <2>2
<1> QED  BY <1>3

(* The chain of a request of three descriptors is these three, and         *)
(* free_chain comes to its end.                                            *)
LEMMA ChainIs ==
  ASSUME NEW i \in Descs, NEW j \in Descs, NEW k \in Descs,
         desc[i].next = j, desc[j].next = k, desc[k].next = End
  PROVE  InChain(i) = {i, j, k} /\ ChainAt(i)[NUM] = End
<1> DEFINE link == [d \in 0 .. NUM |-> IF d = End THEN End ELSE desc[d].next]
           at == ChainAt(i)
           g == [n \in 0 .. NUM |-> IF n = 0 THEN i ELSE IF n = 1 THEN j ELSE IF n = 2 THEN k ELSE End]
<1>0. NUM \in Nat /\ NUM >= 3 /\ End = NUM /\ Descs = 0 .. (NUM - 1)
  BY DiskAssumption DEF End, Descs
<1>1. link[i] = j /\ link[j] = k /\ link[k] = End /\ link[End] = End
  BY <1>0
<1>2. at = CHOOSE f : f = [n \in 0 .. NUM |-> IF n = 0 THEN i ELSE link[f[n - 1]]]
  BY DEF ChainAt
<1> HIDE DEF link
<1>3. g = [n \in 0 .. NUM |-> IF n = 0 THEN i ELSE link[g[n - 1]]]
  <2>1. ASSUME NEW n \in 0 .. NUM PROVE g[n] = (IF n = 0 THEN i ELSE link[g[n - 1]])
    <3>1. CASE n = 0  BY <3>1
    <3>2. CASE n = 1
      <4>1. g[1] = j /\ g[0] = i /\ 1 - 1 = 0  BY <1>0
      <4> QED  BY <1>1, <3>2, <4>1
    <3>3. CASE n = 2
      <4>1. g[2] = k /\ g[1] = j /\ 2 - 1 = 1  BY <1>0
      <4> QED  BY <1>1, <3>3, <4>1
    <3>4. CASE n = 3
      <4>1. g[3] = End /\ g[2] = k /\ 3 - 1 = 2  BY <1>0
      <4> QED  BY <1>1, <3>4, <4>1
    <3>5. CASE n > 3
      <4>1. n - 1 \in 0 .. NUM /\ n - 1 > 2 /\ g[n] = End  BY <1>0, <3>5
      <4>2. g[n - 1] = End  BY <1>0, <4>1
      <4> QED  BY <1>0, <1>1, <3>5, <4>1, <4>2
    <3> QED  BY <1>0, <3>1, <3>2, <3>3, <3>4, <3>5
  <2> QED  BY <2>1
<1>4. at = [n \in 0 .. NUM |-> IF n = 0 THEN i ELSE link[at[n - 1]]]
  <2> HIDE DEF g, at
  <2> QED  BY <1>2, <1>3
<1> HIDE DEF at, g
<1>5. at[0] = i /\ at[1] = j /\ at[2] = k /\ at[3] = End
  <2>1. \A n \in 0 .. NUM : at[n] = (IF n = 0 THEN i ELSE link[at[n - 1]])  BY <1>4
  <2>2. at[0] = i  BY <1>0, <2>1
  <2>3. at[1] = j  BY <1>0, <1>1, <2>1, <2>2
  <2>4. at[2] = k  BY <1>0, <1>1, <2>1, <2>3
  <2> QED  BY <1>0, <1>1, <2>1, <2>2, <2>3, <2>4
<1>6. \A n \in 3 .. NUM : at[n] = End
  <2> DEFINE S == {n \in 3 .. NUM : at[n] # End}
  <2>1. SUFFICES ASSUME S # {} PROVE FALSE
    OBVIOUS
  <2>2. S \subseteq Nat  OBVIOUS
  <2>3. PICK m \in S : \A n \in S : m <= n  BY <2>1, <2>2, HasLeast
  <2>4. m > 3 /\ m - 1 \in 3 .. NUM /\ m \in 0 .. NUM /\ m # 0  BY <1>0, <1>5, <2>3
  <2>5. at[m - 1] = End
    <3>1. m - 1 \notin S  BY <2>2, <2>3, <2>4
    <3> QED  BY <2>4, <3>1
  <2>6. at[m] = link[at[m - 1]]  BY <1>4, <2>4
  <2> QED  BY <1>1, <2>3, <2>5, <2>6
<1>7. InChain(i) = {at[n] : n \in 0 .. NUM} \ {End}  BY DEF InChain, at
<1>8. i # End /\ j # End /\ k # End  BY <1>0
<1>9. {at[n] : n \in 0 .. NUM} \ {End} = {i, j, k}
  <2>1. ASSUME NEW n \in 0 .. NUM PROVE at[n] \in {i, j, k, End}
    <3>1. n = 0 \/ n = 1 \/ n = 2 \/ n \in 3 .. NUM  BY <1>0
    <3> QED  BY <1>5, <1>6, <3>1
  <2>2. 0 \in 0 .. NUM /\ 1 \in 0 .. NUM /\ 2 \in 0 .. NUM  BY <1>0
  <2> QED  BY <1>5, <1>8, <2>1, <2>2
<1>10. at[NUM] = End  BY <1>0, <1>6
<1> QED  BY <1>7, <1>9, <1>10 DEF at

(* free_chain stays within the descriptors, wherever they are linked to:   *)
(* the function it computes exists and has its values in 0 .. NUM, both by *)
(* a least counterexample.                                                 *)
LEMMA ChainTyped ==
  ASSUME desc \in [Descs -> [next : Descs \cup {End}, addr : Procs \cup {None}]], NEW i \in Descs
  PROVE  InChain(i) \subseteq Descs
<1> DEFINE link == [d \in 0 .. NUM |-> IF d = End THEN End ELSE desc[d].next]
           at == ChainAt(i)
           Rec(f, m) == f = [n \in 0 .. m |-> IF n = 0 THEN i ELSE link[f[n - 1]]]
<1>0. NUM \in Nat /\ NUM >= 3 /\ End = NUM /\ Descs = 0 .. (NUM - 1)
  BY DiskAssumption DEF End, Descs
<1>1. \A d \in 0 .. NUM : link[d] \in 0 .. NUM
  <2>1. ASSUME NEW d \in 0 .. NUM PROVE link[d] \in 0 .. NUM
    <3>1. CASE d = End  BY <1>0, <3>1
    <3>2. CASE d # End
      <4>1. d \in Descs /\ link[d] = desc[d].next  BY <1>0, <3>2
      <4>2. desc[d].next \in Descs \cup {End}  BY <4>1
      <4> QED  BY <1>0, <4>1, <4>2
    <3> QED  BY <3>1, <3>2
  <2> QED  BY <2>1
<1>2. at = CHOOSE f : f = [n \in 0 .. NUM |-> IF n = 0 THEN i ELSE link[f[n - 1]]]
  BY DEF ChainAt
<1> HIDE DEF link
<1>3. \A m \in Nat : \E f : Rec(f, m)
  <2> DEFINE S == {m \in Nat : ~\E f : Rec(f, m)}
  <2>1. SUFFICES ASSUME S # {} PROVE FALSE
    OBVIOUS
  <2>2. PICK m \in S : \A n \in S : m <= n  BY <2>1, HasLeast
  <2>3. m # 0
    <3>1. Rec([n \in 0 .. 0 |-> i], 0)
      <4>1. \A n \in 0 .. 0 : n = 0  OBVIOUS
      <4> QED  BY <4>1
    <3> QED  BY <2>2, <3>1
  <2>4. m - 1 \in Nat /\ m - 1 \notin S  BY <2>2, <2>3
  <2>5. PICK f : Rec(f, m - 1)  BY <2>4
  <2> DEFINE g == [n \in 0 .. m |-> IF n = m THEN link[f[m - 1]] ELSE f[n]]
  <2>6. ASSUME NEW n \in 0 .. m PROVE g[n] = IF n = 0 THEN i ELSE link[g[n - 1]]
    <3>1. CASE n = m
      <4>1. g[m - 1] = f[m - 1] /\ g[m] = link[f[m - 1]]  BY <2>4
      <4> QED  BY <2>3, <3>1, <4>1
    <3>2. CASE n # m
      <4>1. n \in 0 .. (m - 1)  BY <2>2, <3>2
      <4>2. f[n] = IF n = 0 THEN i ELSE link[f[n - 1]]  BY <2>5, <4>1
      <4>3. n # 0 => g[n - 1] = f[n - 1]  BY <4>1
      <4>4. g[n] = f[n]  BY <3>2
      <4> QED  BY <4>2, <4>3, <4>4
    <3> QED  BY <3>1, <3>2
  <2>7. Rec(g, m)  BY <2>6
  <2> QED  BY <2>2, <2>7
<1>4. at = [n \in 0 .. NUM |-> IF n = 0 THEN i ELSE link[at[n - 1]]]
  <2>1. PICK f : Rec(f, NUM)  BY <1>0, <1>3
  <2> HIDE DEF at
  <2> QED  BY <1>2, <2>1
<1>5. \A n \in 0 .. NUM : at[n] \in 0 .. NUM
  <2> HIDE DEF at
  <2> DEFINE S == {n \in 0 .. NUM : at[n] \notin 0 .. NUM}
  <2>1. SUFFICES ASSUME S # {} PROVE FALSE
    OBVIOUS
  <2>2. S \subseteq Nat  OBVIOUS
  <2>3. PICK m \in S : \A n \in S : m <= n  BY <2>1, <2>2, HasLeast
  <2>4. m # 0  BY <1>0, <1>4, <2>3
  <2>5. m - 1 \in 0 .. NUM /\ m - 1 \notin S  BY <1>0, <2>3, <2>4
  <2>6. at[m] = link[at[m - 1]]  BY <1>4, <2>3, <2>4
  <2> QED  BY <1>1, <2>3, <2>5, <2>6
<1>6. InChain(i) = {at[n] : n \in 0 .. NUM} \ {End}  BY DEF InChain
<1> QED
  <2> HIDE DEF at
  <2> QED  BY <1>0, <1>5, <1>6

(* alloc_desc takes the lowest free descriptor. *)
LEMMA LeastIs == ASSUME NEW S, S \subseteq Nat, S # {} PROVE Least(S) \in S
BY HasLeast DEF Least

(* There are finitely many descriptors. *)
LEMMA DescsFinite ==
  ASSUME NEW S, S \subseteq Descs
  PROVE  IsFiniteSet(S) /\ Cardinality(S) \in Nat /\ S \subseteq Nat
<1>1. 0 \in Int /\ NUM - 1 \in Int  BY DiskAssumption
<1>2. IsFiniteSet(Descs)  BY <1>1, FS_Interval DEF Descs
<1>3. IsFiniteSet(S)  BY <1>2, FS_Subset
<1> QED  BY <1>3, FS_CardinalityType DEF Descs

(* alloc3_desc succeeds with three different descriptors. *)
LEMMA ThreeFree ==
  ASSUME free \subseteq Descs, Cardinality(free) >= 3
  PROVE  LET i == Least(free)
             j == Least(free \ {i})
             k == Least(free \ {i, j})
         IN /\ i \in free /\ j \in free /\ k \in free /\ i # j /\ i # k /\ j # k
            /\ Cardinality(free \ {i, j, k}) = Cardinality(free) - 3
<1> DEFINE i == Least(free)
           j == Least(free \ {i})
           k == Least(free \ {i, j})
<1>1. IsFiniteSet(free) /\ Cardinality(free) \in Nat /\ free \subseteq Nat  BY DescsFinite
<1>2. free # {}  BY <1>1, FS_EmptySet
<1>3. i \in free  BY <1>1, <1>2, LeastIs
<1> HIDE DEF i
<1>4. IsFiniteSet(free \ {i}) /\ Cardinality(free \ {i}) = Cardinality(free) - 1
  BY <1>1, <1>3, FS_RemoveElement
<1>5. free \ {i} # {}
  <2>1. Cardinality(free \ {i}) # 0  BY <1>1, <1>4
  <2> QED  BY <2>1, FS_EmptySet
<1>6. j \in free \ {i}  BY <1>1, <1>5, LeastIs
<1> HIDE DEF j
<1>7. IsFiniteSet(free \ {i, j}) /\ Cardinality(free \ {i, j}) = Cardinality(free) - 2
  <2>1. free \ {i, j} = (free \ {i}) \ {j}  OBVIOUS
  <2>2. IsFiniteSet((free \ {i}) \ {j}) /\ Cardinality((free \ {i}) \ {j}) = Cardinality(free \ {i}) - 1
    BY <1>4, <1>6, FS_RemoveElement
  <2>3. Cardinality((free \ {i}) \ {j}) = Cardinality(free) - 2  BY <1>1, <1>4, <2>2
  <2> QED  BY <2>1, <2>2, <2>3
<1>8. free \ {i, j} # {}
  <2>1. Cardinality(free \ {i, j}) # 0  BY <1>1, <1>7
  <2> QED  BY <2>1, FS_EmptySet
<1>9. k \in free \ {i, j}  BY <1>1, <1>8, LeastIs
<1> HIDE DEF k
<1>10. Cardinality(free \ {i, j, k}) = Cardinality(free) - 3
  <2>1. free \ {i, j, k} = (free \ {i, j}) \ {k}  OBVIOUS
  <2>2. Cardinality((free \ {i, j}) \ {k}) = Cardinality(free \ {i, j}) - 1
    BY <1>7, <1>9, FS_RemoveElement
  <2>3. Cardinality((free \ {i, j}) \ {k}) = Cardinality(free) - 3  BY <1>1, <1>7, <2>2
  <2> QED  BY <2>1, <2>3
<1>11. /\ i \in free /\ j \in free /\ k \in free /\ i # j /\ i # k /\ j # k
  BY <1>3, <1>6, <1>9
<1> QED  BY <1>10, <1>11 DEF i, j, k

-----------------------------------------------------------------------------
(***************************************************************************)
(* Facts about a state that satisfies the invariant.                       *)
(***************************************************************************)

(* A submitted request and its descriptors. *)
LEMMA Request ==
  ASSUME TypeOK, ChainInv, NEW p \in Submitted
  PROVE  /\ p \in Procs /\ p # None /\ pc[p] = "disk"
         /\ head[p] \in Descs /\ Second(p) \in Descs /\ Third(p) \in Descs
         /\ InChain(head[p]) = Three(p) /\ ChainAt(head[p])[NUM] = End
         /\ Three(p) \cap free = {} /\ Cardinality(Three(p)) = 3 /\ IsFiniteSet(Three(p))
<1>1. p \in Procs /\ p # None /\ pc[p] = "disk"  BY DiskAssumption DEF Submitted
<1>2. Chained(p)  BY DEF ChainInv
<1>3. head[p] \in Descs /\ Second(p) \in Descs /\ Third(p) \in Descs /\ Three(p) \cap free = {}
  BY <1>2 DEF Chained, Three
<1>4. InChain(head[p]) = Three(p) /\ ChainAt(head[p])[NUM] = End
  <2>1. desc[head[p]].next = Second(p) /\ desc[Second(p)].next = Third(p) /\ desc[Third(p)].next = End
    BY <1>2 DEF Chained, Second, Third
  <2> QED  BY <1>3, <2>1, ChainIs DEF Three
<1>5. Cardinality(Three(p)) = 3 /\ IsFiniteSet(Three(p))
  <2> DEFINE a == head[p]
             b == Second(p)
             c == Third(p)
  <2>1. a # b /\ a # c /\ b # c /\ Three(p) = {a, b, c}  BY <1>2 DEF Chained, Three
  <2> HIDE DEF a, b, c
  <2>2. IsFiniteSet({a}) /\ Cardinality({a}) = 1  BY FS_Singleton
  <2>3. IsFiniteSet({a} \cup {b}) /\ Cardinality({a} \cup {b}) = 2
    <3>1. b \notin {a}  BY <2>1
    <3> QED  BY <2>2, <3>1, FS_AddElement
  <2>4. IsFiniteSet(({a} \cup {b}) \cup {c}) /\ Cardinality(({a} \cup {b}) \cup {c}) = 3
    <3>1. c \notin {a} \cup {b}  BY <2>1
    <3>2. Cardinality(({a} \cup {b}) \cup {c}) = 2 + 1  BY <2>3, <3>1, FS_AddElement
    <3> QED  BY <2>3, <3>1, <3>2, FS_AddElement
  <2>5. Three(p) = ({a} \cup {b}) \cup {c}  BY <2>1
  <2> QED  BY <2>4, <2>5
<1> QED  BY <1>1, <1>3, <1>4, <1>5

(* No two requests have a descriptor in common. *)
LEMMA Apart ==
  ASSUME ChainInv, NEW p \in Submitted, NEW q \in Submitted, p # q
  PROVE  /\ head[p] \notin Three(q) /\ Second(p) \notin Three(q) /\ Third(p) \notin Three(q)
         /\ head[p] # head[q]
<1>1. Three(p) \cap Three(q) = {}  BY DEF ChainInv
<1> QED  BY <1>1 DEF Three

(* A ring with entries of different requests has as many as there are      *)
(* requests at most.                                                       *)
LEMMA RingCount ==
  ASSUME NEW a \in Nat, NEW b \in Nat, a <= b, IsFiniteSet(Submitted),
         NEW f, \A n \in a .. (b - 1) : \E p \in Submitted : head[p] = f[n],
         \A m, n \in a .. (b - 1) : f[m] = f[n] => m = n
  PROVE  b - a <= Cardinality(Submitted)
<1> DEFINE S == a .. (b - 1)
           who == [n \in S |-> CHOOSE p \in Submitted : head[p] = f[n]]
<1>1. \A n \in S : who[n] \in Submitted /\ head[who[n]] = f[n]  OBVIOUS
<1>2. \A m, n \in S : who[m] = who[n] => m = n
  <2> HIDE DEF who
  <2> QED  BY <1>1
<1>3. who \in Injection(S, Submitted)
  <2>1. who \in [S -> Submitted]  BY <1>1
  <2> HIDE DEF who
  <2> QED  BY <1>2, <2>1 DEF Injection, IsInjective
<1>4. Cardinality(S) <= Cardinality(Submitted)
  <2> HIDE DEF S, who
  <2> QED  BY <1>3, FS_Injection
<1>5. Cardinality(S) = b - a
  <2>1. Cardinality(S) = IF a > b - 1 THEN 0 ELSE (b - 1) - a + 1  BY FS_Interval
  <2> QED  BY <2>1
<1> QED  BY <1>4, <1>5

(* The types of what arithmetic is done on. *)
LEMMA Indices ==
  ASSUME TypeOK
  PROVE  /\ NUM \in Nat \ {0} /\ NUM >= 3 /\ IdxMod \in Nat \ {0} /\ Descs = 0 .. (NUM - 1)
         /\ avail.ring \in [Descs -> Descs] /\ used.ring \in [Descs -> Descs]
         /\ avail.idx \in Nat /\ avail.idx < IdxMod /\ used.idx \in Nat /\ used.idx < IdxMod
         /\ usedIdx \in Nat /\ usedIdx < IdxMod /\ seen \in Nat /\ seen < IdxMod
<1>1. NUM \in Nat \ {0} /\ NUM >= 3 /\ IdxMod \in Nat \ {0}  BY DiskAssumption
<1>2. avail.ring \in [Descs -> Descs] /\ used.ring \in [Descs -> Descs]  BY DEF TypeOK
<1>3. /\ avail.idx \in 0 .. (IdxMod - 1) /\ used.idx \in 0 .. (IdxMod - 1)
      /\ usedIdx \in 0 .. (IdxMod - 1) /\ seen \in 0 .. (IdxMod - 1)
  BY DEF TypeOK
<1>4. /\ avail.idx \in Nat /\ avail.idx < IdxMod /\ used.idx \in Nat /\ used.idx < IdxMod
      /\ usedIdx \in Nat /\ usedIdx < IdxMod /\ seen \in Nat /\ seen < IdxMod
  <2>1. ASSUME NEW i \in 0 .. (IdxMod - 1) PROVE i \in Nat /\ i < IdxMod  BY <1>1
  <2> QED  BY <1>3, <2>1, Zenon
<1>5. Descs = 0 .. (NUM - 1)  BY DEF Descs
<1> QED  BY <1>1, <1>2, <1>4, <1>5, Zenon

(* A cell of a ring is a descriptor's number. *)
LEMMA CellIs == ASSUME NEW n \in Nat PROVE n % NUM \in Descs
<1>1. NUM \in Nat \ {0}  BY DiskAssumption
<1>2. n % NUM \in 0 .. (NUM - 1)  BY <1>1, DivMod
<1> QED  BY <1>2 DEF Descs

(* There are fewer entries in a ring than requests, and so than cells. *)
LEMMA RingRoom ==
  ASSUME TypeOK, DriverInv
  PROVE  /\ Cardinality(Submitted) \in Nat /\ Cardinality(free) \in Nat
         /\ avail.idx - seen <= Cardinality(Submitted)
         /\ used.idx - usedIdx <= Cardinality(Submitted)
         /\ Cardinality(free) + 3 * Cardinality(Submitted) = NUM
<1>1. IsFiniteSet(Submitted) /\ Cardinality(Submitted) \in Nat /\ Cardinality(free) \in Nat
      /\ Cardinality(free) + 3 * Cardinality(Submitted) = NUM
  BY DescsFinite, FS_CardinalityType DEF DriverInv, CountInv, TypeOK
<1>2. /\ seen \in Nat /\ avail.idx \in Nat /\ usedIdx \in Nat /\ used.idx \in Nat
      /\ seen <= avail.idx /\ usedIdx <= used.idx
  BY Indices DEF DriverInv, IndexInv
<1>3. avail.idx - seen <= Cardinality(Submitted)
  <2> DEFINE f == [n \in Available |-> AvailAt(n)]
  <2>1. \A n \in seen .. (avail.idx - 1) : \E p \in Submitted : head[p] = f[n]
    BY DEF DriverInv, AvailInv, Serving, Available
  <2>2. \A m, n \in seen .. (avail.idx - 1) : f[m] = f[n] => m = n
    BY DEF DriverInv, AvailInv, Available
  <2> HIDE DEF f
  <2> QED  BY <1>1, <1>2, <2>1, <2>2, RingCount
<1>4. used.idx - usedIdx <= Cardinality(Submitted)
  <2> DEFINE f == [n \in Used |-> UsedAt(n)]
  <2>1. \A n \in usedIdx .. (used.idx - 1) : \E p \in Submitted : head[p] = f[n]
    BY DEF DriverInv, UsedInv, Serving, Used
  <2>2. \A m, n \in usedIdx .. (used.idx - 1) : f[m] = f[n] => m = n
    BY DEF DriverInv, UsedInv, Used
  <2> HIDE DEF f
  <2> QED  BY <1>1, <1>2, <2>1, <2>2, RingCount
<1> QED  BY <1>1, <1>3, <1>4

(* A request keeps its chain when its descriptors keep their links. *)
LEMMA ChainKept ==
  ASSUME NEW q, head'[q] = head[q], \A d \in Three(q) : desc'[d] = desc[d]
  PROVE  Second(q)' = Second(q) /\ Third(q)' = Third(q) /\ Three(q)' = Three(q)
<1>1. desc'[head[q]] = desc[head[q]] /\ desc'[Second(q)] = desc[Second(q)]  BY DEF Three
<1>2. Second(q)' = Second(q)  BY <1>1 DEF Second
<1>3. Third(q)' = Third(q)  BY <1>1, <1>2 DEF Third
<1> QED  BY <1>2, <1>3 DEF Three

(* ... and stays a request when nothing else of it changes. *)
LEMMA ChainedKept ==
  ASSUME TypeOK, ChainInv, NEW q \in Submitted, head'[q] = head[q],
         \A d \in Three(q) : desc'[d] = desc[d] /\ d \notin free',
         ops'[head[q]] = ops[head[q]], info'[head[q]].chan = info[head[q]].chan
  PROVE  Chained(q)' /\ Three(q)' = Three(q)
<1>1. Second(q)' = Second(q) /\ Third(q)' = Third(q) /\ Three(q)' = Three(q)  BY ChainKept
<1>2. Chained(q)  BY DEF ChainInv
<1>3. desc'[Third(q)] = desc[Third(q)] /\ desc'[Second(q)] = desc[Second(q)]  BY DEF Three
<1> QED  BY <1>1, <1>2, <1>3 DEF Chained

-----------------------------------------------------------------------------
(***************************************************************************)
(* rw.                                                                     *)
(***************************************************************************)

(* A request is submitted: three descriptors leave the free ones, and the  *)
(* entry in the available ring overwrites none that the device has not     *)
(* taken.                                                                  *)
LEMMA SubmitInv ==
  ASSUME DiskInv, panicked = "no", NEW p \in Procs, pc[p] \in {"out", "alloc"}, p \notin asleep,
         Submit(p), UNCHANGED <<seen, inflight, irq, intrRuns>>
  PROVE  DiskInv'
<1>0. TypeOK /\ DriverInv /\ ChainInv /\ CountInv /\ IndexInv /\ AvailInv /\ UsedInv /\ SleepInv
  BY DEF DiskInv, DriverInv
<1>1. PICK i \in free, j \in free, k \in free :
        /\ i # j /\ i # k /\ j # k /\ Cardinality(free') = Cardinality(free) - 3
        /\ free' = free \ {i, j, k} /\ ops' = [ops EXCEPT ![i] = p]
        /\ desc' = [desc EXCEPT ![i] = [next |-> j, addr |-> None],
                                ![j] = [next |-> k, addr |-> p],
                                ![k] = [next |-> End, addr |-> None]]
        /\ info' = [info EXCEPT ![i] = [disk |-> TRUE, chan |-> p, status |-> 255]]
        /\ avail' = [ring |-> [avail.ring EXCEPT ![avail.idx % NUM] = i], idx |-> Bump(avail.idx)]
        /\ head' = [head EXCEPT ![p] = i]
  <2>1. free \subseteq Descs /\ Cardinality(free) >= 3  BY <1>0 DEF TypeOK, Submit
  <2> QED  BY <2>1, ThreeFree DEF Submit, InfoOf
<1>2. /\ panicked' = (IF Overflows(avail.idx) THEN "index" ELSE panicked)
      /\ pc' = [pc EXCEPT ![p] = "disk"] /\ asleep' = asleep \cup {p} /\ moved' = moved \ {p}
      /\ UNCHANGED <<used, usedIdx, misfreed>>
  BY DEF Submit
<1>3. i \in Descs /\ j \in Descs /\ k \in Descs  BY <1>0 DEF TypeOK
<1>4. /\ desc' \in [Descs -> [next : Descs \cup {End}, addr : Procs \cup {None}]]
      /\ desc'[i].next = j /\ desc'[j].next = k /\ desc'[k].next = End /\ desc'[j].addr = p
      /\ \A d \in Descs \ {i, j, k} : desc'[d] = desc[d]
  <2>1. desc \in [Descs -> [next : Descs \cup {End}, addr : Procs \cup {None}]]  BY <1>0 DEF TypeOK
  <2>2. desc' \in [Descs -> [next : Descs \cup {End}, addr : Procs \cup {None}]]
    BY <1>1, <1>3, <2>1
  <2>3. desc'[i] = [next |-> j, addr |-> None] /\ desc'[j] = [next |-> k, addr |-> p]
        /\ desc'[k] = [next |-> End, addr |-> None]
    BY <1>1, <1>3, <2>1
  <2>4. \A d \in Descs \ {i, j, k} : desc'[d] = desc[d]  BY <1>1, <1>3, <2>1
  <2> QED  BY <2>2, <2>3, <2>4
<1>5. /\ ops' \in [Descs -> Procs \cup {None}] /\ ops'[i] = p
      /\ \A d \in Descs \ {i} : ops'[d] = ops[d]
      /\ info' \in [Descs -> [disk : BOOLEAN, chan : Procs \cup {None}, status : {0, 255}]]
      /\ info'[i].disk /\ info'[i].chan = p
      /\ \A d \in Descs \ {i} : info'[d] = info[d]
      /\ head' \in [Procs -> Descs] /\ head'[p] = i /\ \A q \in Procs \ {p} : head'[q] = head[q]
      /\ pc' \in [Procs -> Pcs] /\ pc'[p] = "disk" /\ \A q \in Procs \ {p} : pc'[q] = pc[q]
  BY <1>0, <1>1, <1>2, <1>3 DEF TypeOK, Pcs
<1>6. /\ NUM \in Nat \ {0} /\ IdxMod \in Nat \ {0} /\ avail.idx \in Nat /\ avail.idx < IdxMod
      /\ avail.ring \in [Descs -> Descs] /\ avail.idx % NUM \in Descs
      /\ seen \in Nat
  BY <1>0, Indices, CellIs
<1>7. /\ avail'.ring \in [Descs -> Descs] /\ avail'.ring[avail.idx % NUM] = i
      /\ \A c \in Descs : c # avail.idx % NUM => avail'.ring[c] = avail.ring[c]
      /\ avail'.idx = Bump(avail.idx) /\ avail' = [ring |-> avail'.ring, idx |-> avail'.idx]
  BY <1>1, <1>3, <1>6
<1>8. avail'.idx \in 0 .. (IdxMod - 1)
  <2>1. avail.idx + 1 \in Int /\ IdxMod \in Nat \ {0}  BY <1>6
  <2>2. (avail.idx + 1) % IdxMod \in 0 .. (IdxMod - 1)  BY <2>1, DivMod
  <2> QED  BY <1>7, <2>2 DEF Bump
<1>9. TypeOK'
  <2>1. avail' \in [ring : [Descs -> Descs], idx : 0 .. (IdxMod - 1)]  BY <1>7, <1>8
  <2>2. free' \subseteq Descs /\ asleep' \subseteq Procs /\ moved' \subseteq Procs
        /\ panicked' \in {"no", "index"}
    BY <1>0, <1>1, <1>2 DEF TypeOK
  <2> QED  BY <1>0, <1>2, <1>4, <1>5, <2>1, <2>2 DEF TypeOK, Pcs
<1>10. SUFFICES ASSUME panicked' = "no" PROVE DriverInv'
  BY <1>2, <1>9 DEF DiskInv
<1>11. avail'.idx = avail.idx + 1
  <2>1. avail.idx + 1 # IdxMod  BY <1>2, <1>10 DEF Overflows
  <2>2. avail.idx + 1 \in 0 .. (IdxMod - 1)  BY <1>6, <2>1
  <2>3. (avail.idx + 1) % IdxMod = avail.idx + 1  BY <1>6, <2>2, ModSmall
  <2> QED  BY <1>7, <2>3 DEF Bump
<1>12. p \notin Submitted /\ Submitted' = Submitted \cup {p}  BY <1>5 DEF Submitted
<1>13. \A q \in Submitted : q \in Procs /\ q # p /\ head[q] \in Descs \ {i, j, k} /\ head'[q] = head[q]
                            /\ Three(q) \subseteq Descs \ {i, j, k}
  <2>1. \A q \in Submitted : Three(q) \subseteq Descs /\ Three(q) \cap free = {} /\ head[q] \in Three(q)
    BY <1>0, Request DEF Three
  <2> QED  BY <1>1, <1>5, <1>12, <2>1 DEF Submitted
<1>14. \A q \in Submitted : Chained(q)' /\ Three(q)' = Three(q)
  <2>1. SUFFICES ASSUME NEW q \in Submitted PROVE Chained(q)' /\ Three(q)' = Three(q)
    OBVIOUS
  <2>2. \A d \in Three(q) : desc'[d] = desc[d] /\ d \notin free'
    BY <1>0, <1>1, <1>4, <1>13, Request
  <2>3. ops'[head[q]] = ops[head[q]] /\ info'[head[q]] = info[head[q]]  BY <1>5, <1>13
  <2> QED  BY <1>0, <1>13, <2>2, <2>3, ChainedKept
<1>15. Chained(p)' /\ Three(p)' = {i, j, k}
  <2>1. Second(p)' = j  BY <1>4, <1>5 DEF Second
  <2>2. Third(p)' = k  BY <1>4, <2>1 DEF Third
  <2>3. Three(p)' = {i, j, k}  BY <1>5, <2>1, <2>2 DEF Three
  <2> QED  BY <1>1, <1>3, <1>4, <1>5, <2>1, <2>2, <2>3 DEF Chained
<1>16. ChainInv'
  <2>1. \A q \in Submitted' : Chained(q)'  BY <1>12, <1>14, <1>15
  <2>2. \A q, r \in Submitted' : q # r => Three(q)' \cap Three(r)' = {}
    <3>1. \A q, r \in Submitted : q # r => Three(q) \cap Three(r) = {}  BY <1>0 DEF ChainInv
    <3>2. \A q \in Submitted : Three(q) \cap {i, j, k} = {}  BY <1>13
    <3> QED  BY <1>12, <1>14, <1>15, <3>1, <3>2
  <2>3. \A d \in Descs : d \in free' \/ \E q \in Submitted' : d \in Three(q)'
    <3>1. \A d \in Descs : d \in free \/ \E q \in Submitted : d \in Three(q)  BY <1>0 DEF ChainInv
    <3> QED  BY <1>1, <1>12, <1>14, <1>15, <3>1
  <2> QED  BY <2>1, <2>2, <2>3 DEF ChainInv
<1>17. /\ Cardinality(Submitted) \in Nat /\ Cardinality(free) \in Nat
       /\ avail.idx - seen <= Cardinality(Submitted)
       /\ Cardinality(free) + 3 * Cardinality(Submitted) = NUM
       /\ Cardinality(free) >= 3
  BY <1>0, RingRoom DEF Submit
<1>18. CountInv'
  <2>1. IsFiniteSet(Submitted)  BY <1>0 DEF CountInv
  <2>2. IsFiniteSet(Submitted') /\ Cardinality(Submitted') = Cardinality(Submitted) + 1
    BY <1>12, <2>1, FS_AddElement
  <2>3. Cardinality(free') + 3 * Cardinality(Submitted') = NUM  BY <1>1, <1>17, <2>2
  <2> QED  BY <2>2, <2>3 DEF CountInv
<1>19. IndexInv'  BY <1>0, <1>2, <1>6, <1>11 DEF IndexInv
<1>20. \A q \in Submitted : \A done : Serving(q, done)' = Serving(q, done)
  BY <1>2, <1>5, <1>12, <1>13 DEF Serving
<1>21. /\ Available' = Available \cup {avail.idx} /\ avail.idx \notin Available
       /\ \A n \in Available : n \in Nat /\ AvailAt(n)' = AvailAt(n)
       /\ \A n : n = avail.idx => AvailAt(n)' = i
  <2>1. seen \in Nat /\ avail.idx \in Nat /\ seen <= avail.idx  BY <1>0, <1>6 DEF IndexInv
  <2>2. Available' = seen .. avail.idx
    <3>1. (avail.idx + 1) - 1 = avail.idx  BY <1>6
    <3> QED  BY <1>11, <3>1 DEF Available
  <2>3. Available' = Available \cup {avail.idx} /\ avail.idx \notin Available
    <3>1. seen \in Int /\ avail.idx \in Int  BY <2>1
    <3>2. seen .. avail.idx = (seen .. (avail.idx - 1)) \cup {avail.idx}
          /\ avail.idx \notin seen .. (avail.idx - 1)
      BY <2>1, <3>1, IntervalEnd
    <3> QED  BY <2>2, <3>2 DEF Available
  <2>4. ASSUME NEW n \in Available PROVE n \in Nat /\ AvailAt(n)' = AvailAt(n)
    <3>1. n \in Nat /\ n < avail.idx /\ avail.idx < n + NUM
      BY <1>6, <1>17, <2>1 DEF Available
    <3>2. n % NUM # avail.idx % NUM  BY <1>6, <3>1, ModApart
    <3>3. n % NUM \in Descs  BY <3>1, CellIs
    <3> QED  BY <1>7, <3>1, <3>2, <3>3 DEF AvailAt
  <2>5. \A n : n = avail.idx => AvailAt(n)' = i  BY <1>7 DEF AvailAt
  <2> QED  BY <2>3, <2>4, <2>5
<1>22. AvailInv'
  <2>1. ASSUME NEW n \in Available' PROVE \E q \in Procs : head'[q] = AvailAt(n)' /\ Serving(q, FALSE)'
    <3>1. CASE n \in Available
      <4>1. PICK q \in Procs : head[q] = AvailAt(n) /\ Serving(q, FALSE)  BY <1>0, <3>1 DEF AvailInv
      <4>2. q \in Submitted  BY <4>1 DEF Serving
      <4> QED  BY <1>13, <1>20, <1>21, <3>1, <4>1, <4>2
    <3>2. CASE n = avail.idx
      <4>1. Serving(p, FALSE)'  BY <1>2, <1>5, <1>12 DEF Serving
      <4>2. AvailAt(n)' = i  BY <1>21, <3>2
      <4> QED  BY <1>5, <4>1, <4>2
    <3> QED  BY <1>21, <3>1, <3>2
  <2>2. \A n \in Available : AvailAt(n) # i
    <3>1. \A n \in Available : \E q \in Submitted : head[q] = AvailAt(n)
      BY <1>0 DEF AvailInv, Serving
    <3> QED  BY <1>13, <3>1
  <2>3. \A m, n \in Available' : AvailAt(m)' = AvailAt(n)' => m = n
    <3>1. \A m, n \in Available : AvailAt(m) = AvailAt(n) => m = n  BY <1>0 DEF AvailInv
    <3> QED  BY <1>21, <2>2, <3>1
  <2>4. ASSUME NEW r \in inflight'
        PROVE  /\ \E q \in Procs : r = [head |-> head'[q], op |-> q, buf |-> q] /\ Serving(q, FALSE)'
               /\ \A n \in Available' : r.head # AvailAt(n)'
    <3>1. r \in inflight  OBVIOUS
    <3>2. PICK q \in Procs : r = [head |-> head[q], op |-> q, buf |-> q] /\ Serving(q, FALSE)
      BY <1>0, <3>1 DEF AvailInv
    <3>3. q \in Submitted  BY <3>2 DEF Serving
    <3>4. head'[q] = head[q] /\ Serving(q, FALSE)' /\ head[q] # i  BY <1>13, <1>20, <3>2, <3>3
    <3>5. r.head # i /\ \A n \in Available : r.head # AvailAt(n)
      BY <1>0, <3>1, <3>2, <3>4 DEF AvailInv
    <3>6. \A n \in Available' : r.head # AvailAt(n)'
      <4>1. \A n : n = avail.idx => AvailAt(n)' = i  BY <1>21
      <4>2. \A n \in Available : AvailAt(n)' = AvailAt(n)  BY <1>21
      <4> QED  BY <1>21, <3>5, <4>1, <4>2
    <3> QED  BY <3>2, <3>4, <3>6
  <2> QED  BY <2>1, <2>3, <2>4 DEF AvailInv
<1>23. UsedInv'
  <2>1. Used' = Used /\ \A n : UsedAt(n)' = UsedAt(n)  BY <1>2 DEF Used, UsedAt
  <2>2. ASSUME NEW n \in Used'
        PROVE  \E q \in Procs : head'[q] = UsedAt(n)' /\ Serving(q, TRUE)' /\ info'[head'[q]].status = 0
    <3>1. PICK q \in Procs : head[q] = UsedAt(n) /\ Serving(q, TRUE) /\ info[head[q]].status = 0
      BY <1>0, <2>1 DEF UsedInv
    <3>2. q \in Submitted  BY <3>1 DEF Serving
    <3>3. info'[head'[q]] = info[head[q]]  BY <1>5, <1>13, <3>2
    <3> QED  BY <1>13, <1>20, <2>1, <3>1, <3>2, <3>3
  <2>3. ASSUME NEW q \in Submitted'
        PROVE IF info'[head'[q]].disk THEN q \in moved' => \E n \in Used' : UsedAt(n)' = head'[q]
              ELSE q \in moved'
    <3>1. CASE q = p  BY <1>2, <1>5, <3>1
    <3>2. CASE q # p
      <4>1. q \in Submitted  BY <1>12, <3>2
      <4>2. info'[head'[q]] = info[head[q]] /\ head'[q] = head[q] /\ (q \in moved' <=> q \in moved)
        BY <1>2, <1>5, <1>13, <3>2, <4>1
      <4> QED  BY <1>0, <2>1, <4>1, <4>2 DEF UsedInv
    <3> QED  BY <3>1, <3>2
  <2>4. \A m, n \in Used' : UsedAt(m)' = UsedAt(n)' => m = n  BY <1>0, <2>1 DEF UsedInv
  <2> QED  BY <2>2, <2>3, <2>4 DEF UsedInv
<1>24. SleepInv'
  <2>1. ASSUME NEW q \in asleep'
        PROVE  /\ pc'[q] = "disk" => info'[head'[q]].disk
               /\ pc'[q] = "alloc" => Cardinality(free') < 3
    <3>1. CASE q = p  BY <1>5, <3>1
    <3>2. CASE q # p
      <4>1. q \in asleep /\ q \in Procs /\ pc'[q] = pc[q]  BY <1>0, <1>2, <1>5, <3>2 DEF TypeOK
      <4>2. pc[q] = "disk" => info'[head'[q]] = info[head[q]]  BY <1>5, <1>13, <4>1 DEF Submitted
      <4>3. Cardinality(free) < 3 => Cardinality(free') < 3  BY <1>1, <1>17
      <4> QED  BY <1>0, <4>1, <4>2, <4>3 DEF SleepInv
    <3> QED  BY <3>1, <3>2
  <2> QED  BY <1>0, <1>2, <2>1 DEF SleepInv
<1> QED  BY <1>16, <1>18, <1>19, <1>22, <1>23, <1>24 DEF DriverInv

(* Steps that change neither the requests nor the rings. *)
LEMMA DriverKept ==
  ASSUME DriverInv, UNCHANGED <<desc, free, info, ops, avail, used, usedIdx, head, seen, inflight, moved>>,
         Submitted' = Submitted
  PROVE  ChainInv' /\ CountInv' /\ IndexInv' /\ AvailInv' /\ UsedInv'
<1>1. \A q : Second(q)' = Second(q)  BY DEF Second
<1>2. \A q : Third(q)' = Third(q)  BY <1>1 DEF Third
<1>3. \A q : Three(q)' = Three(q)  BY <1>1, <1>2 DEF Three
<1>4. \A q : Chained(q)' = Chained(q)  BY <1>1, <1>2, <1>3 DEF Chained
<1>5. \A q, done : Serving(q, done)' = Serving(q, done)  BY DEF Serving
<1>6. /\ Available' = Available /\ Used' = Used
      /\ \A n : AvailAt(n)' = AvailAt(n) /\ UsedAt(n)' = UsedAt(n)
  BY DEF Available, Used, AvailAt, UsedAt
<1>7. ChainInv'  BY <1>3, <1>4 DEF DriverInv, ChainInv
<1>8. CountInv' /\ IndexInv'  BY DEF DriverInv, CountInv, IndexInv
<1>9. AvailInv'  BY <1>5, <1>6 DEF DriverInv, AvailInv
<1>10. UsedInv'  BY <1>5, <1>6 DEF DriverInv, UsedInv
<1> QED  BY <1>7, <1>8, <1>9, <1>10

(* The chains of requests are apart from descriptors that were free before *)
(* and are free again.                                                     *)
LEMMA RefreedKept ==
  ASSUME TypeOK, DriverInv, desc' = Cleared(free), Submitted' = Submitted,
         UNCHANGED <<free, info, ops, avail, used, usedIdx, head, seen, inflight, moved>>
  PROVE  ChainInv' /\ CountInv' /\ IndexInv' /\ AvailInv' /\ UsedInv'
<1>0. ChainInv  BY DEF DriverInv
<1>1. \A q \in Submitted : Chained(q)' /\ Three(q)' = Three(q)
  <2>1. SUFFICES ASSUME NEW q \in Submitted PROVE Chained(q)' /\ Three(q)' = Three(q)
    OBVIOUS
  <2>2. Three(q) \subseteq Descs /\ Three(q) \cap free = {}  BY <1>0, Request DEF Three
  <2>3. \A d \in Three(q) : desc'[d] = desc[d] /\ d \notin free'  BY <2>2 DEF Cleared
  <2> QED  BY <1>0, <2>3, ChainedKept
<1>2. \A q, done : Serving(q, done)' = Serving(q, done)  BY DEF Serving
<1>3. /\ Available' = Available /\ Used' = Used
      /\ \A n : AvailAt(n)' = AvailAt(n) /\ UsedAt(n)' = UsedAt(n)
  BY DEF Available, Used, AvailAt, UsedAt
<1>4. ChainInv'  BY <1>0, <1>1 DEF ChainInv
<1>5. CountInv' /\ IndexInv'  BY DEF DriverInv, CountInv, IndexInv
<1>6. AvailInv'  BY <1>2, <1>3 DEF DriverInv, AvailInv
<1>7. UsedInv'  BY <1>2, <1>3 DEF DriverInv, UsedInv
<1> QED  BY <1>4, <1>5, <1>6, <1>7

(* Too few descriptors: when the error path frees what it took, the caller *)
(* sleeps and no request is touched.                                       *)
LEMMA AllocFailsInv ==
  ASSUME DiskInv, panicked = "no", NEW p \in Procs, pc[p] \in {"out", "alloc"}, ~misfreed',
         p \notin asleep, AllocFails(p), UNCHANGED <<seen, inflight, irq, intrRuns>>
  PROVE  DiskInv'
<1>0. TypeOK /\ DriverInv /\ SleepInv  BY DEF DiskInv, DriverInv
<1>1. p \notin Submitted  BY DEF Submitted
<1>5. /\ Cardinality(free) < 3 /\ free' = free /\ desc' = Cleared(free)
      /\ asleep' \subseteq asleep \cup {p} /\ pc' = [pc EXCEPT ![p] = "alloc"]
      /\ misfreed' = FALSE /\ UNCHANGED <<info, ops, avail, used, usedIdx, head, moved, panicked>>
  <2>1. Undone(Cardinality(free)) = free  BY DEF AllocFails
  <2> QED  BY <2>1 DEF AllocFails, WakeAlloc
<1>6. pc' \in [Procs -> Pcs] /\ pc'[p] = "alloc" /\ \A q \in Procs \ {p} : pc'[q] = pc[q]
  BY <1>0, <1>5 DEF TypeOK, Pcs
<1>7. TypeOK'
  <2>1. NoDesc \in [next : Descs \cup {End}, addr : Procs \cup {None}]  BY DEF NoDesc
  <2>2. desc' \in [Descs -> [next : Descs \cup {End}, addr : Procs \cup {None}]]
    BY <1>0, <1>5, <2>1 DEF TypeOK, Cleared
  <2>3. asleep' \subseteq Procs  BY <1>0, <1>5 DEF TypeOK
  <2> QED  BY <1>0, <1>5, <1>6, <2>2, <2>3 DEF TypeOK, Pcs
<1>8. Submitted' = Submitted  BY <1>1, <1>6 DEF Submitted
<1>9. ChainInv' /\ CountInv' /\ IndexInv' /\ AvailInv' /\ UsedInv'
  BY <1>0, <1>5, <1>8, RefreedKept
<1>10. SleepInv'
  <2>1. ASSUME NEW q \in asleep'
        PROVE  /\ pc'[q] = "disk" => info'[head'[q]].disk
               /\ pc'[q] = "alloc" => Cardinality(free') < 3
    <3>2. pc'[q] = "disk" => q \in asleep /\ pc[q] = "disk"  BY <1>0, <1>5, <1>6 DEF TypeOK
    <3> QED  BY <1>0, <1>5, <3>2 DEF SleepInv
  <2> QED  BY <1>0, <1>5, <2>1 DEF SleepInv
<1> QED  BY <1>5, <1>7, <1>9, <1>10 DEF DiskInv, DriverInv

(* The request is done: the assertion on its channel and those of          *)
(* free_desc hold, its three descriptors are free again, and who waits for *)
(* descriptors is woken.                                                   *)
LEMMA RwDoneInv == ASSUME DiskInv, NEW p \in Procs, RwDone(p) PROVE DiskInv'
<1>1. /\ panicked = "no" /\ pc[p] = "disk" /\ p \notin asleep
      /\ UNCHANGED <<ops, avail, used, usedIdx, head, seen, inflight, moved, irq, intrRuns, misfreed>>
  BY DEF RwDone, CanLock
<1>0. TypeOK /\ DriverInv /\ ChainInv /\ CountInv /\ IndexInv /\ AvailInv /\ UsedInv /\ SleepInv
  BY <1>1 DEF DiskInv, DriverInv
<1>2. CASE Owned(p)
  <2>1. asleep' = asleep \cup {p} /\ UNCHANGED <<info, free, desc, pc, panicked>>
    BY <1>2 DEF RwDone
  <2>2. TypeOK'  BY <1>0, <1>1, <2>1 DEF TypeOK
  <2>3. Submitted' = Submitted  BY <2>1 DEF Submitted
  <2>4. ChainInv' /\ CountInv' /\ IndexInv' /\ AvailInv' /\ UsedInv'
    BY <1>0, <1>1, <2>1, <2>3, DriverKept
  <2>5. SleepInv'  BY <1>0, <1>1, <1>2, <2>1 DEF SleepInv, Owned
  <2> QED  BY <1>1, <2>1, <2>2, <2>4, <2>5 DEF DiskInv, DriverInv
<1>3. CASE ~Owned(p)
  <2>1. p \in Submitted /\ p # None  BY <1>1, DiskAssumption DEF Submitted
  <2>2. PICK h \in Descs : h = head[p] /\ InChain(h) = Three(p) /\ ~FreePanics(h) /\ info[h].chan = p
                           /\ h \in Three(p)
    <3>1. head[p] \in Descs /\ InChain(head[p]) = Three(p) /\ ChainAt(head[p])[NUM] = End
          /\ Three(p) \cap free = {}
      BY <1>0, <2>1, Request
    <3>2. info[head[p]].chan = p  BY <1>0, <2>1 DEF ChainInv, Chained
    <3> QED  BY <3>1, <3>2 DEF FreePanics, Three
  <2>3. /\ info' = [info EXCEPT ![h].chan = None] /\ panicked' = "no"
        /\ free' = free \cup Three(p) /\ desc' = Cleared(Three(p))
        /\ asleep' = WakeAlloc /\ pc' = [pc EXCEPT ![p] = "out"]
    BY <1>1, <1>3, <2>2 DEF RwDone, Freed
  <2>4. Three(p) \subseteq Descs /\ Three(p) \cap free = {} /\ Cardinality(Three(p)) = 3
        /\ IsFiniteSet(Three(p))
    BY <1>0, <2>1, Request DEF Three
  <2>5. /\ info' \in [Descs -> [disk : BOOLEAN, chan : Procs \cup {None}, status : {0, 255}]]
        /\ info'[h].disk = info[h].disk /\ \A d \in Descs \ {h} : info'[d] = info[d]
        /\ pc' \in [Procs -> Pcs] /\ pc'[p] = "out" /\ \A q \in Procs \ {p} : pc'[q] = pc[q]
    <3>1. info \in [Descs -> [disk : BOOLEAN, chan : Procs \cup {None}, status : {0, 255}]]
      BY <1>0 DEF TypeOK
    <3>2. \A d \in Descs : info'[d] = IF d = h THEN [info[h] EXCEPT !.chan = None] ELSE info[d]
      BY <2>3, <3>1
    <3>3. info[h] \in [disk : BOOLEAN, chan : Procs \cup {None}, status : {0, 255}]  BY <3>1
    <3>4. /\ [info[h] EXCEPT !.chan = None] \in [disk : BOOLEAN, chan : Procs \cup {None}, status : {0, 255}]
          /\ [info[h] EXCEPT !.chan = None].disk = info[h].disk
      BY <3>3
    <3>5. info' \in [Descs -> [disk : BOOLEAN, chan : Procs \cup {None}, status : {0, 255}]]
      BY <2>3, <3>1, <3>4
    <3>6. pc' \in [Procs -> Pcs] /\ pc'[p] = "out" /\ \A q \in Procs \ {p} : pc'[q] = pc[q]
      BY <1>0, <2>3 DEF TypeOK, Pcs
    <3> QED  BY <3>2, <3>4, <3>5, <3>6
  <2>6. /\ desc' \in [Descs -> [next : Descs \cup {End}, addr : Procs \cup {None}]]
        /\ \A d \in Descs : d \notin Three(p) => desc'[d] = desc[d]
    <3>1. NoDesc \in [next : Descs \cup {End}, addr : Procs \cup {None}]  BY DEF NoDesc
    <3>2. desc \in [Descs -> [next : Descs \cup {End}, addr : Procs \cup {None}]]  BY <1>0 DEF TypeOK
    <3> QED  BY <2>3, <3>1, <3>2 DEF Cleared
  <2>7. TypeOK'
    <3>1. free' \subseteq Descs /\ asleep' \subseteq Procs  BY <1>0, <2>3, <2>4 DEF TypeOK, WakeAlloc
    <3> QED  BY <1>0, <1>1, <2>3, <2>5, <2>6, <3>1 DEF TypeOK, Pcs
  <2>8. Submitted' = Submitted \ {p}  BY <2>5 DEF Submitted
  <2>9. \A q \in Submitted' : /\ q \in Submitted /\ q \in Procs /\ q # p
                              /\ Three(q) \cap Three(p) = {} /\ Three(q) \subseteq Descs
                              /\ head[q] \in Descs \ {h}
    <3>1. \A q \in Submitted : q \in Procs /\ Three(q) \subseteq Descs /\ head[q] \in Descs /\ head[q] \in Three(q)
      BY <1>0, Request DEF Three
    <3>2. \A q \in Submitted : q # p => Three(q) \cap Three(p) = {}  BY <1>0, <2>1 DEF ChainInv
    <3> QED  BY <2>2, <2>8, <3>1, <3>2
  <2>10. \A q \in Submitted' : Chained(q)' /\ Three(q)' = Three(q)
    <3>1. SUFFICES ASSUME NEW q \in Submitted' PROVE Chained(q)' /\ Three(q)' = Three(q)
      OBVIOUS
    <3>2. Three(q) \cap free = {}  BY <1>0, <2>9, Request
    <3>3. \A d \in Three(q) : desc'[d] = desc[d] /\ d \notin free'
      BY <2>3, <2>6, <2>9, <3>2
    <3>4. ops'[head[q]] = ops[head[q]] /\ info'[head[q]] = info[head[q]] /\ head'[q] = head[q]
      BY <1>1, <2>5, <2>9
    <3> QED  BY <1>0, <2>9, <3>3, <3>4, ChainedKept
  <2>11. ChainInv'
    <3>1. \A q, r \in Submitted' : q # r => Three(q)' \cap Three(r)' = {}
      BY <1>0, <2>9, <2>10 DEF ChainInv
    <3>2. \A d \in Descs : d \in free' \/ \E q \in Submitted' : d \in Three(q)'
      <4>1. \A d \in Descs : d \in free \/ \E q \in Submitted : d \in Three(q)  BY <1>0 DEF ChainInv
      <4> QED  BY <2>3, <2>8, <2>10, <4>1
    <3> QED  BY <2>10, <3>1, <3>2 DEF ChainInv
  <2>12. CountInv'
    <3>1. /\ Cardinality(Submitted) \in Nat /\ Cardinality(free) \in Nat /\ IsFiniteSet(Submitted)
          /\ Cardinality(free) + 3 * Cardinality(Submitted) = NUM /\ IsFiniteSet(free)
      BY <1>0, RingRoom, DescsFinite DEF CountInv, TypeOK
    <3>2. IsFiniteSet(Submitted') /\ Cardinality(Submitted') = Cardinality(Submitted) - 1
      BY <2>1, <2>8, <3>1, FS_RemoveElement
    <3>3. Cardinality(free') = Cardinality(free) + 3
      <4>1. Cardinality(free \cup Three(p)) = Cardinality(free) + Cardinality(Three(p)) - Cardinality(free \cap Three(p))
        BY <2>4, <3>1, FS_Union
      <4>2. free \cap Three(p) = {} /\ Cardinality({}) = 0  BY <2>4, FS_EmptySet
      <4>3. Cardinality(free \cap Three(p)) = 0  BY <4>2
      <4> QED  BY <2>3, <2>4, <3>1, <4>1, <4>3
    <3>4. Cardinality(free') + 3 * Cardinality(Submitted') = NUM  BY <3>1, <3>2, <3>3
    <3> QED  BY <3>2, <3>4 DEF CountInv
  <2>13. IndexInv'  BY <1>0, <1>1 DEF IndexInv
  <2>14. \A q, done : Serving(q, done) => q # p /\ Serving(q, done)' /\ info'[head'[q]] = info[head[q]]
    <3>1. \A q, done : Serving(q, done) => q # p  BY <1>3 DEF Serving, Owned
    <3>2. \A q \in Submitted : q # p => q \in Submitted' /\ info'[head'[q]] = info[head[q]]
      BY <1>1, <2>5, <2>8, <2>9
    <3> QED  BY <1>1, <3>1, <3>2 DEF Serving
  <2>15. /\ Available' = Available /\ Used' = Used
         /\ \A n : AvailAt(n)' = AvailAt(n) /\ UsedAt(n)' = UsedAt(n)
    BY <1>1 DEF Available, Used, AvailAt, UsedAt
  <2>16. AvailInv'  BY <1>0, <1>1, <2>14, <2>15 DEF AvailInv
  <2>17. UsedInv'
    <3>1. \A n \in Used' : \E q \in Procs :
             head'[q] = UsedAt(n)' /\ Serving(q, TRUE)' /\ info'[head'[q]].status = 0
      BY <1>0, <1>1, <2>14, <2>15 DEF UsedInv
    <3>2. \A q \in Submitted' : q \in Submitted /\ info'[head'[q]] = info[head[q]]
      BY <1>1, <2>5, <2>9
    <3>3. ASSUME NEW q \in Submitted'
          PROVE IF info'[head'[q]].disk THEN q \in moved' => \E n \in Used' : UsedAt(n)' = head'[q]
                ELSE q \in moved'
      <4>1. IF info[head[q]].disk THEN q \in moved => \E n \in Used : UsedAt(n) = head[q]
            ELSE q \in moved
        BY <1>0, <3>2 DEF UsedInv
      <4>2. info'[head'[q]] = info[head[q]] /\ head'[q] = head[q] /\ moved' = moved  BY <1>1, <3>2
      <4> QED  BY <2>15, <4>1, <4>2
    <3>4. \A m, n \in Used' : UsedAt(m)' = UsedAt(n)' => m = n  BY <1>0, <2>15 DEF UsedInv
    <3> QED  BY <3>1, <3>3, <3>4 DEF UsedInv
  <2>18. SleepInv'
    <3>1. \A q \in asleep' : q \in asleep /\ q # p /\ q \in Procs /\ pc[q] # "alloc" /\ pc'[q] = pc[q]
      BY <1>0, <1>1, <2>3, <2>5 DEF WakeAlloc, TypeOK
    <3>2. \A q \in asleep' : pc'[q] = "disk" => info'[head'[q]] = info[head[q]]
      BY <1>1, <2>5, <2>8, <2>9, <3>1 DEF Submitted
    <3> QED  BY <1>0, <1>1, <3>1, <3>2 DEF SleepInv
  <2> QED  BY <2>3, <2>7, <2>11, <2>12, <2>13, <2>16, <2>17, <2>18 DEF DiskInv, DriverInv
<1> QED  BY <1>2, <1>3

-----------------------------------------------------------------------------
(***************************************************************************)
(* The device.                                                             *)
(***************************************************************************)

(* The device takes an entry: it finds the request's own header and        *)
(* buffer in the chain.                                                    *)
LEMMA DevTakeInv == ASSUME DiskInv, DevTake PROVE DiskInv'
<1>1. /\ panicked = "no" /\ seen # avail.idx /\ seen' = (seen + 1) % IdxMod
      /\ UNCHANGED <<misfreed, desc, free, info, ops, avail, used, usedIdx, pc, asleep, head, moved, irq,
                     intrRuns, panicked>>
  BY DEF DevTake
<1>0. TypeOK /\ DriverInv /\ ChainInv /\ CountInv /\ IndexInv /\ AvailInv /\ UsedInv /\ SleepInv
  BY <1>1 DEF DiskInv, DriverInv
<1>2. /\ seen \in Nat /\ avail.idx \in Nat /\ used.idx \in Nat /\ seen < avail.idx /\ avail.idx < IdxMod
      /\ usedIdx <= used.idx /\ used.idx <= seen /\ IsFiniteSet(inflight)
      /\ used.idx + Cardinality(inflight) = seen /\ IdxMod \in Nat \ {0}
  BY <1>0, <1>1, Indices DEF IndexInv
<1>3. seen' = seen + 1
  <2>1. seen + 1 \in 0 .. (IdxMod - 1)  BY <1>2
  <2> QED  BY <1>1, <1>2, <2>1, ModSmall
<1>4. PICK s \in Available : s = seen  BY <1>2 DEF Available
<1>5. PICK q \in Procs : head[q] = AvailAt(s) /\ Serving(q, FALSE)  BY <1>0 DEF AvailInv
<1> DEFINE t == [head |-> head[q], op |-> q, buf |-> q]
<1>6. inflight' = inflight \cup {t}
  <2>1. q \in Submitted  BY <1>5 DEF Serving
  <2>2. ops[head[q]] = q /\ desc[desc[head[q]].next].addr = q /\ desc[head[q]].next # End
    <3>1. Chained(q)  BY <1>0, <2>1 DEF ChainInv
    <3>2. Second(q) \in Descs  BY <1>0, <2>1, Request
    <3>3. Second(q) # End  BY <3>2, DiskAssumption DEF Descs, End
    <3> QED  BY <3>1, <3>3 DEF Chained, Second
  <2>3. avail.ring[seen % NUM] = head[q]  BY <1>4, <1>5 DEF AvailAt
  <2> QED  BY <2>2, <2>3 DEF DevTake
<1>7. t \notin inflight /\ t.head = AvailAt(s)
  BY <1>0, <1>5 DEF AvailInv
<1>8. t \in [head : Descs, op : Procs \cup {None}, buf : Procs \cup {None}]  BY <1>0 DEF TypeOK
<1> HIDE DEF t
<1>9. TypeOK'
  <2>1. seen' \in 0 .. (IdxMod - 1)  BY <1>2, <1>3
  <2>2. inflight' \subseteq [head : Descs, op : Procs \cup {None}, buf : Procs \cup {None}]
    BY <1>0, <1>6, <1>8 DEF TypeOK
  <2> QED  BY <1>0, <1>1, <2>1, <2>2 DEF TypeOK
<1>10. Available = Available' \cup {s} /\ s \notin Available'
  <2>1. seen \in Int /\ avail.idx - 1 \in Int /\ seen <= avail.idx - 1  BY <1>2
  <2>2. /\ seen .. (avail.idx - 1) = ((seen + 1) .. (avail.idx - 1)) \cup {seen}
        /\ seen \notin (seen + 1) .. (avail.idx - 1)
    BY <2>1, IntervalEnd
  <2>3. Available' = (seen + 1) .. (avail.idx - 1)  BY <1>1, <1>3 DEF Available
  <2> QED  BY <1>4, <2>2, <2>3 DEF Available
<1>11. IndexInv'
  <2>1. IsFiniteSet(inflight') /\ Cardinality(inflight') = Cardinality(inflight) + 1
    BY <1>2, <1>6, <1>7, FS_AddElement
  <2>2. Cardinality(inflight) \in Nat  BY <1>2, FS_CardinalityType
  <2>3. usedIdx \in Nat  BY <1>0, Indices
  <2>4. /\ used.idx <= seen + 1 /\ seen + 1 <= avail.idx
        /\ used.idx + Cardinality(inflight') = seen + 1
    <3>1. seen \in Nat /\ avail.idx \in Nat /\ used.idx \in Nat /\ seen < avail.idx /\ used.idx <= seen
      BY <1>2
    <3>2. used.idx + (Cardinality(inflight) + 1) = seen + 1  BY <1>2, <2>2, <3>1
    <3>3. used.idx <= seen + 1 /\ seen + 1 <= avail.idx  BY <3>1
    <3> QED  BY <2>1, <3>2, <3>3
  <2> QED  BY <1>1, <1>2, <1>3, <2>1, <2>4 DEF IndexInv
<1>12. /\ \A n : AvailAt(n)' = AvailAt(n) /\ UsedAt(n)' = UsedAt(n)
       /\ \A r, done : Serving(r, done)' = Serving(r, done)
       /\ Used' = Used /\ Submitted' = Submitted
  BY <1>1 DEF AvailAt, UsedAt, Serving, Used, Submitted
<1>13. AvailInv'
  <2>1. \A n \in Available' : n \in Available /\ n # s  BY <1>10
  <2>2. \A m, n \in Available : AvailAt(m) = AvailAt(n) => m = n  BY <1>0 DEF AvailInv
  <2>3. \A r \in inflight', n \in Available' : r.head # AvailAt(n)'
    <3>1. \A r \in inflight, n \in Available : r.head # AvailAt(n)  BY <1>0 DEF AvailInv
    <3> QED  BY <1>6, <1>7, <1>12, <2>1, <2>2, <3>1
  <2>4. \A r \in inflight' : \E u \in Procs :
          r = [head |-> head'[u], op |-> u, buf |-> u] /\ Serving(u, FALSE)'
    <3>1. \A r \in inflight : \E u \in Procs :
          r = [head |-> head[u], op |-> u, buf |-> u] /\ Serving(u, FALSE)
      BY <1>0 DEF AvailInv
    <3> QED  BY <1>1, <1>5, <1>6, <1>12, <3>1 DEF t
  <2>5. \A n \in Available' : \E u \in Procs : head'[u] = AvailAt(n)' /\ Serving(u, FALSE)'
    BY <1>0, <1>1, <1>12, <2>1 DEF AvailInv
  <2> QED  BY <1>12, <2>1, <2>2, <2>3, <2>4, <2>5 DEF AvailInv
<1>14. ChainInv' /\ CountInv' /\ UsedInv'
  <2>1. \A r : Second(r)' = Second(r)  BY <1>1 DEF Second
  <2>2. \A r : Third(r)' = Third(r)  BY <1>1, <2>1 DEF Third
  <2>3. \A r : Three(r)' = Three(r)  BY <1>1, <2>1, <2>2 DEF Three
  <2>4. \A r : Chained(r)' = Chained(r)  BY <1>1, <2>1, <2>2, <2>3 DEF Chained
  <2>5. ChainInv'  BY <1>0, <1>1, <1>12, <2>3, <2>4 DEF ChainInv
  <2>6. CountInv'  BY <1>0, <1>1, <1>12 DEF CountInv
  <2>7. UsedInv'  BY <1>0, <1>1, <1>12 DEF UsedInv
  <2> QED  BY <2>5, <2>6, <2>7
<1>15. SleepInv'  BY <1>0, <1>1 DEF SleepInv
<1> QED  BY <1>1, <1>9, <1>11, <1>13, <1>14, <1>15 DEF DiskInv, DriverInv

(* What a change of the status or the disk flag of one request leaves.     *)
LEMMA ChainsKept ==
  ASSUME DriverInv, UNCHANGED <<desc, free, ops, head>>, Submitted' = Submitted,
         \A q \in Submitted : info'[head[q]].chan = info[head[q]].chan
  PROVE  ChainInv' /\ CountInv'
<1>1. \A r : Second(r)' = Second(r)  BY DEF Second
<1>2. \A r : Third(r)' = Third(r)  BY <1>1 DEF Third
<1>3. \A r : Three(r)' = Three(r)  BY <1>1, <1>2 DEF Three
<1>4. \A r \in Submitted : Chained(r)' = Chained(r)  BY <1>1, <1>2, <1>3 DEF Chained
<1> QED  BY <1>3, <1>4 DEF DriverInv, ChainInv, CountInv

(* The device completes a request: its buffer is transferred, and its      *)
(* entry in the used ring overwrites none that the handler has not read.   *)
LEMMA DevCompleteInv == ASSUME DiskInv, NEW r \in inflight, DevComplete(r) PROVE DiskInv'
<1>1. /\ panicked = "no" /\ inflight' = inflight \ {r}
      /\ moved' = (IF r.op = r.buf THEN moved \cup {r.buf} ELSE moved)
      /\ info' = [info EXCEPT ![r.head].status = 0]
      /\ used' = [ring |-> [used.ring EXCEPT ![used.idx % NUM] = r.head], idx |-> (used.idx + 1) % IdxMod]
      /\ irq' = TRUE
      /\ UNCHANGED <<misfreed, desc, free, ops, avail, usedIdx, pc, asleep, head, seen, intrRuns, panicked>>
  BY DEF DevComplete
<1>0. TypeOK /\ DriverInv /\ ChainInv /\ CountInv /\ IndexInv /\ AvailInv /\ UsedInv /\ SleepInv
  BY <1>1 DEF DiskInv, DriverInv
<1>2. PICK q \in Procs : r = [head |-> head[q], op |-> q, buf |-> q] /\ Serving(q, FALSE)
  BY <1>0 DEF AvailInv
<1>3. PICK h \in Descs : h = head[q] /\ r.head = h /\ q \in Submitted /\ info[h].disk /\ q \notin moved
                         /\ moved' = moved \cup {q}
  BY <1>0, <1>1, <1>2 DEF Serving, TypeOK
<1>4. /\ seen \in Nat /\ avail.idx \in Nat /\ used.idx \in Nat /\ usedIdx \in Nat /\ seen < IdxMod
      /\ usedIdx <= used.idx /\ used.idx < seen /\ seen <= avail.idx /\ IsFiniteSet(inflight')
      /\ (used.idx + 1) + Cardinality(inflight') = seen /\ IdxMod \in Nat \ {0} /\ NUM \in Nat \ {0}
      /\ used.ring \in [Descs -> Descs] /\ used.idx % NUM \in Descs
  <2>1. /\ seen \in Nat /\ avail.idx \in Nat /\ used.idx \in Nat /\ usedIdx \in Nat /\ seen < IdxMod
        /\ IdxMod \in Nat \ {0} /\ NUM \in Nat \ {0} /\ used.ring \in [Descs -> Descs]
    BY <1>0, Indices
  <2>2. /\ usedIdx <= used.idx /\ seen <= avail.idx /\ IsFiniteSet(inflight)
        /\ used.idx + Cardinality(inflight) = seen
    BY <1>0 DEF IndexInv
  <2>3. IsFiniteSet(inflight') /\ Cardinality(inflight') = Cardinality(inflight) - 1
    BY <1>1, <2>2, FS_RemoveElement
  <2>4. Cardinality(inflight) \in Nat /\ Cardinality(inflight') \in Nat  BY <2>2, <2>3, FS_CardinalityType
  <2>5. used.idx < seen /\ (used.idx + 1) + Cardinality(inflight') = seen  BY <2>1, <2>2, <2>3, <2>4
  <2> QED  BY <2>1, <2>2, <2>3, <2>5, CellIs
<1>5. /\ used'.idx = used.idx + 1 /\ used'.ring \in [Descs -> Descs]
      /\ used'.ring[used.idx % NUM] = h
      /\ \A c \in Descs : c # used.idx % NUM => used'.ring[c] = used.ring[c]
      /\ used' \in [ring : [Descs -> Descs], idx : 0 .. (IdxMod - 1)]
  <2>1. used.idx + 1 \in 0 .. (IdxMod - 1)  BY <1>4
  <2>2. (used.idx + 1) % IdxMod = used.idx + 1  BY <1>4, <2>1, ModSmall
  <2>3. used' = [ring |-> [used.ring EXCEPT ![used.idx % NUM] = h], idx |-> used.idx + 1]
    BY <1>1, <1>3, <2>2
  <2> QED  BY <1>4, <2>1, <2>3
<1>6. /\ info' \in [Descs -> [disk : BOOLEAN, chan : Procs \cup {None}, status : {0, 255}]]
      /\ info'[h].disk = info[h].disk /\ info'[h].chan = info[h].chan /\ info'[h].status = 0
      /\ \A d \in Descs \ {h} : info'[d] = info[d]
  <2>1. info \in [Descs -> [disk : BOOLEAN, chan : Procs \cup {None}, status : {0, 255}]]
    BY <1>0 DEF TypeOK
  <2>2. \A d \in Descs : info'[d] = IF d = h THEN [info[h] EXCEPT !.status = 0] ELSE info[d]
    BY <1>1, <1>3, <2>1
  <2>3. info[h] \in [disk : BOOLEAN, chan : Procs \cup {None}, status : {0, 255}]  BY <2>1
  <2>4. /\ [info[h] EXCEPT !.status = 0] \in [disk : BOOLEAN, chan : Procs \cup {None}, status : {0, 255}]
        /\ [info[h] EXCEPT !.status = 0].disk = info[h].disk
        /\ [info[h] EXCEPT !.status = 0].chan = info[h].chan
        /\ [info[h] EXCEPT !.status = 0].status = 0
    BY <2>3
  <2>5. info' \in [Descs -> [disk : BOOLEAN, chan : Procs \cup {None}, status : {0, 255}]]
    BY <1>1, <1>3, <2>1, <2>4
  <2> QED  BY <2>2, <2>4, <2>5
<1>7. TypeOK'
  <2>1. inflight' \subseteq inflight /\ moved' \subseteq Procs  BY <1>0, <1>1, <1>3 DEF TypeOK
  <2> QED  BY <1>0, <1>1, <1>5, <1>6, <2>1 DEF TypeOK
<1>8. Submitted' = Submitted /\ Available' = Available /\ \A n : AvailAt(n)' = AvailAt(n)
  BY <1>1 DEF Submitted, Available, AvailAt
<1>9. \A u \in Submitted : u # q => head[u] \in Descs \ {h} /\ info'[head[u]] = info[head[u]]
  BY <1>0, <1>3, <1>6, Request, Apart
<1>10. ChainInv' /\ CountInv'
  <2>1. \A u \in Submitted : info'[head[u]].chan = info[head[u]].chan  BY <1>3, <1>6, <1>9
  <2> QED  BY <1>0, <1>1, <1>8, <2>1, ChainsKept
<1>11. IndexInv'
  <2>1. usedIdx <= used.idx + 1 /\ used.idx + 1 <= seen  BY <1>4
  <2> QED  BY <1>1, <1>4, <1>5, <2>1 DEF IndexInv
<1>12. \A u, done : Serving(u, done) /\ u # q =>
          u \in Submitted /\ Serving(u, done)' /\ info'[head'[u]] = info[head[u]]
  BY <1>1, <1>3, <1>8, <1>9 DEF Serving
<1>13. AvailInv'
  <2>1. ASSUME NEW n \in Available' PROVE \E u \in Procs : head'[u] = AvailAt(n)' /\ Serving(u, FALSE)'
    <3>1. PICK u \in Procs : head[u] = AvailAt(n) /\ Serving(u, FALSE)  BY <1>0, <1>8 DEF AvailInv
    <3>2. r.head # AvailAt(n)  BY <1>0, <1>8 DEF AvailInv
    <3>3. u # q  BY <1>3, <3>1, <3>2
    <3> QED  BY <1>1, <1>8, <1>12, <3>1, <3>3
  <2>2. ASSUME NEW t \in inflight'
        PROVE  \E u \in Procs : t = [head |-> head'[u], op |-> u, buf |-> u] /\ Serving(u, FALSE)'
    <3>1. t \in inflight /\ t # r  BY <1>1
    <3>2. PICK u \in Procs : t = [head |-> head[u], op |-> u, buf |-> u] /\ Serving(u, FALSE)
      BY <1>0, <3>1 DEF AvailInv
    <3>3. u # q  BY <1>2, <3>1, <3>2
    <3> QED  BY <1>1, <1>12, <3>2, <3>3
  <2>3. \A t \in inflight', n \in Available' : t.head # AvailAt(n)'
    BY <1>0, <1>1, <1>8 DEF AvailInv
  <2>4. \A m, n \in Available' : AvailAt(m)' = AvailAt(n)' => m = n  BY <1>0, <1>8 DEF AvailInv
  <2> QED  BY <2>1, <2>2, <2>3, <2>4 DEF AvailInv
<1>14. /\ Used' = Used \cup {used.idx} /\ used.idx \notin Used
       /\ \A n \in Used : UsedAt(n)' = UsedAt(n)
       /\ \A n : n = used.idx => UsedAt(n)' = h
  <2>1. used.idx - usedIdx <= Cardinality(Submitted) /\ Cardinality(Submitted) \in Nat
        /\ Cardinality(free) \in Nat /\ Cardinality(free) + 3 * Cardinality(Submitted) = NUM
    BY <1>0, RingRoom
  <2>2. Cardinality(Submitted) # 0  BY <1>0, <1>3, FS_EmptySet DEF CountInv
  <2>3. used.idx - usedIdx < NUM  BY <1>4, <2>1, <2>2
  <2>4. ASSUME NEW n \in Used PROVE UsedAt(n)' = UsedAt(n)
    <3>1. n \in Nat /\ n < used.idx /\ used.idx < n + NUM  BY <1>4, <2>3 DEF Used
    <3>2. n % NUM # used.idx % NUM  BY <1>4, <3>1, ModApart
    <3>3. n % NUM \in Descs  BY <3>1, CellIs
    <3> QED  BY <1>5, <3>2, <3>3 DEF UsedAt
  <2>5. \A n : n = used.idx => UsedAt(n)' = h  BY <1>5 DEF UsedAt
  <2>6. Used' = Used \cup {used.idx} /\ used.idx \notin Used
    <3>1. usedIdx \in Int /\ used.idx \in Int /\ (used.idx + 1) - 1 = used.idx  BY <1>4
    <3>2. /\ usedIdx .. used.idx = (usedIdx .. (used.idx - 1)) \cup {used.idx}
          /\ used.idx \notin usedIdx .. (used.idx - 1)
      BY <1>4, <3>1, IntervalEnd
    <3>3. Used' = usedIdx .. used.idx  BY <1>1, <1>5, <3>1 DEF Used
    <3> QED  BY <3>2, <3>3 DEF Used
  <2> QED  BY <2>4, <2>5, <2>6
<1>15. UsedInv'
  <2>1. ASSUME NEW n \in Used'
        PROVE  \E u \in Procs : head'[u] = UsedAt(n)' /\ Serving(u, TRUE)' /\ info'[head'[u]].status = 0
    <3>1. CASE n \in Used
      <4>1. PICK u \in Procs : head[u] = UsedAt(n) /\ Serving(u, TRUE) /\ info[head[u]].status = 0
        BY <1>0, <3>1 DEF UsedInv
      <4>2. u # q  BY <1>3, <4>1 DEF Serving
      <4> QED  BY <1>1, <1>12, <1>14, <3>1, <4>1, <4>2
    <3>2. CASE n = used.idx
      <4>1. UsedAt(n)' = h  BY <1>14, <3>2
      <4>2. Serving(q, TRUE)'  BY <1>1, <1>3, <1>6, <1>8 DEF Serving
      <4>3. head'[q] = h /\ info'[h].status = 0  BY <1>1, <1>3, <1>6
      <4> QED  BY <4>1, <4>2, <4>3
    <3> QED  BY <1>14, <3>1, <3>2
  <2>2. \A n \in Used : UsedAt(n) # h
    <3>1. \A n \in Used : \E u \in Submitted : head[u] = UsedAt(n) /\ u \in moved
      BY <1>0 DEF UsedInv, Serving
    <3> QED  BY <1>3, <1>9, <3>1
  <2>3. \A m, n \in Used' : UsedAt(m)' = UsedAt(n)' => m = n
    <3>1. \A m, n \in Used : UsedAt(m) = UsedAt(n) => m = n  BY <1>0 DEF UsedInv
    <3> QED  BY <1>14, <2>2, <3>1
  <2>4. ASSUME NEW u \in Submitted'
        PROVE IF info'[head'[u]].disk THEN u \in moved' => \E n \in Used' : UsedAt(n)' = head'[u]
              ELSE u \in moved'
    <3>1. CASE u = q
      <4>1. PICK n \in Used' : n = used.idx  BY <1>14
      <4>2. UsedAt(n)' = h  BY <1>14, <4>1
      <4>3. head'[u] = h /\ info'[h].disk /\ u \in moved'  BY <1>1, <1>3, <1>6, <3>1
      <4> QED  BY <4>2, <4>3
    <3>2. CASE u # q
      <4>1. IF info[head[u]].disk THEN u \in moved => \E n \in Used : UsedAt(n) = head[u]
            ELSE u \in moved
        BY <1>0, <1>8 DEF UsedInv
      <4>2. info'[head'[u]] = info[head[u]] /\ head'[u] = head[u] /\ (u \in moved' <=> u \in moved)
        BY <1>1, <1>3, <1>8, <1>9, <3>2
      <4> QED  BY <1>14, <4>1, <4>2
    <3> QED  BY <3>1, <3>2
  <2> QED  BY <2>1, <2>3, <2>4 DEF UsedInv
<1>16. SleepInv'
  <2>1. \A u \in asleep : pc[u] = "disk" => u \in Submitted  BY <1>0 DEF TypeOK, Submitted
  <2>2. \A u \in Submitted : info'[head[u]].disk = info[head[u]].disk
    <3>1. SUFFICES ASSUME NEW u \in Submitted PROVE info'[head[u]].disk = info[head[u]].disk
      OBVIOUS
    <3>2. CASE u = q  BY <1>3, <1>6, <3>2
    <3>3. CASE u # q  BY <1>9, <3>3
    <3> QED  BY <3>2, <3>3
  <2> QED  BY <1>0, <1>1, <2>1, <2>2 DEF SleepInv
<1> QED  BY <1>1, <1>7, <1>10, <1>11, <1>13, <1>15, <1>16 DEF DiskInv, DriverInv

-----------------------------------------------------------------------------
(***************************************************************************)
(* The handler.                                                            *)
(***************************************************************************)

(* Acknowledging the interrupt, and leaving with the used ring empty.      *)
LEMMA IntrEdgesInv == ASSUME DiskInv, IntrAck \/ IntrEnd PROVE DiskInv'
<1>1. /\ panicked = "no" /\ irq' \in BOOLEAN /\ intrRuns' \in BOOLEAN
      /\ usedIdx # used.idx => intrRuns' \/ irq'
      /\ UNCHANGED <<misfreed, desc, free, info, ops, avail, used, usedIdx, pc, asleep, head, seen, inflight,
                     moved, panicked>>
  BY DEF DiskInv, TypeOK, IntrAck, IntrEnd, CanLock
<1>0. TypeOK /\ DriverInv /\ SleepInv  BY <1>1 DEF DiskInv, DriverInv
<1>2. TypeOK'  BY <1>0, <1>1 DEF TypeOK
<1>3. Submitted' = Submitted  BY <1>1 DEF Submitted
<1>4. ChainInv' /\ CountInv' /\ IndexInv' /\ AvailInv' /\ UsedInv'  BY <1>0, <1>1, <1>3, DriverKept
<1>5. SleepInv'  BY <1>0, <1>1 DEF SleepInv
<1> QED  BY <1>1, <1>2, <1>4, <1>5 DEF DiskInv, DriverInv

(* The handler gives a transferred buffer back to its process: the status  *)
(* is good, the channel is the process's, and the index does not overflow. *)
LEMMA IntrStepInv == ASSUME DiskInv, IntrStep PROVE DiskInv'
<1>1. /\ panicked = "no" /\ intrRuns /\ usedIdx # used.idx
      /\ info' = [info EXCEPT ![UsedHead].disk = FALSE]
      /\ asleep' = WakeBuf(info[UsedHead].chan) /\ usedIdx' = Bump(usedIdx)
      /\ panicked' = (IF info[UsedHead].status # 0 THEN "status"
                      ELSE IF info[UsedHead].chan = None THEN "channel"
                      ELSE IF Overflows(usedIdx) THEN "index" ELSE panicked)
      /\ UNCHANGED <<desc, free, ops, avail, used, pc, head, seen, inflight, moved, irq, intrRuns, misfreed>>
  BY DEF IntrStep
<1>0. TypeOK /\ DriverInv /\ ChainInv /\ CountInv /\ IndexInv /\ AvailInv /\ UsedInv /\ SleepInv
  BY <1>1 DEF DiskInv, DriverInv
<1>2. /\ used.idx \in Nat /\ usedIdx \in Nat /\ usedIdx < used.idx /\ used.idx < IdxMod
      /\ IdxMod \in Nat \ {0}
  <2>1. used.idx \in Nat /\ usedIdx \in Nat /\ used.idx < IdxMod /\ IdxMod \in Nat \ {0}
    BY <1>0, Indices
  <2>2. usedIdx <= used.idx  BY <1>0 DEF IndexInv
  <2> QED  BY <1>1, <2>1, <2>2
<1>3. usedIdx' = usedIdx + 1 /\ ~Overflows(usedIdx)
  <2>1. usedIdx + 1 \in 0 .. (IdxMod - 1) /\ usedIdx + 1 # IdxMod  BY <1>2
  <2>2. (usedIdx + 1) % IdxMod = usedIdx + 1  BY <1>2, <2>1, ModSmall
  <2> QED  BY <1>1, <2>1, <2>2 DEF Bump, Overflows
<1>4. PICK s \in Used : s = usedIdx  BY <1>2 DEF Used
<1>5. PICK q \in Procs : head[q] = UsedAt(s) /\ Serving(q, TRUE) /\ info[head[q]].status = 0
  BY <1>0 DEF UsedInv
<1>6. PICK h \in Descs : h = head[q] /\ UsedHead = h /\ q \in Submitted /\ info[h].disk /\ q \in moved
                         /\ info[h].status = 0 /\ info[h].chan = q /\ q # None
  <2>1. q \in Submitted  BY <1>5 DEF Serving
  <2>2. head[q] \in Descs /\ q # None  BY <1>0, <2>1, Request
  <2>3. info[head[q]].chan = q  BY <1>0, <2>1 DEF ChainInv, Chained
  <2>4. UsedHead = head[q]  BY <1>4, <1>5 DEF UsedHead, UsedAt
  <2> QED  BY <1>5, <2>1, <2>2, <2>3, <2>4 DEF Serving
<1>7. panicked' = "no" /\ asleep' = WakeBuf(q)  BY <1>1, <1>3, <1>6
<1>8. /\ info' \in [Descs -> [disk : BOOLEAN, chan : Procs \cup {None}, status : {0, 255}]]
      /\ info'[h].disk = FALSE /\ info'[h].chan = info[h].chan
      /\ \A d \in Descs \ {h} : info'[d] = info[d]
  <2>1. info \in [Descs -> [disk : BOOLEAN, chan : Procs \cup {None}, status : {0, 255}]]
    BY <1>0 DEF TypeOK
  <2>2. \A d \in Descs : info'[d] = IF d = h THEN [info[h] EXCEPT !.disk = FALSE] ELSE info[d]
    BY <1>1, <1>6, <2>1
  <2>3. info[h] \in [disk : BOOLEAN, chan : Procs \cup {None}, status : {0, 255}]  BY <2>1
  <2>4. /\ [info[h] EXCEPT !.disk = FALSE] \in [disk : BOOLEAN, chan : Procs \cup {None}, status : {0, 255}]
        /\ [info[h] EXCEPT !.disk = FALSE].disk = FALSE
        /\ [info[h] EXCEPT !.disk = FALSE].chan = info[h].chan
    BY <2>3
  <2>5. info' \in [Descs -> [disk : BOOLEAN, chan : Procs \cup {None}, status : {0, 255}]]
    BY <1>1, <1>6, <2>1, <2>4
  <2> QED  BY <2>2, <2>4, <2>5
<1>9. TypeOK'
  <2>1. usedIdx' \in 0 .. (IdxMod - 1)  BY <1>2, <1>3
  <2>2. asleep' \subseteq Procs  BY <1>0, <1>7 DEF TypeOK, WakeBuf
  <2> QED  BY <1>0, <1>1, <1>7, <1>8, <2>1, <2>2 DEF TypeOK
<1>10. /\ Submitted' = Submitted /\ Available' = Available
       /\ \A n : AvailAt(n)' = AvailAt(n) /\ UsedAt(n)' = UsedAt(n)
  BY <1>1 DEF Submitted, Available, AvailAt, UsedAt
<1>11. \A u \in Submitted : u # q => head[u] \in Descs \ {h} /\ info'[head[u]] = info[head[u]]
  BY <1>0, <1>6, <1>8, Request, Apart
<1>12. ChainInv' /\ CountInv'
  <2>1. \A u \in Submitted : info'[head[u]].chan = info[head[u]].chan  BY <1>6, <1>8, <1>11
  <2> QED  BY <1>0, <1>1, <1>10, <2>1, ChainsKept
<1>13. IndexInv'
  <2>1. usedIdx + 1 <= used.idx  BY <1>2
  <2> QED  BY <1>0, <1>1, <1>3, <2>1 DEF IndexInv
<1>14. \A u, done : Serving(u, done) /\ u # q => Serving(u, done)' /\ info'[head'[u]] = info[head[u]]
  BY <1>1, <1>10, <1>11 DEF Serving
<1>15. AvailInv'
  <2>1. \A u : Serving(u, FALSE) => u # q  BY <1>6 DEF Serving
  <2>2. \A n \in Available' : \E u \in Procs : head'[u] = AvailAt(n)' /\ Serving(u, FALSE)'
    BY <1>0, <1>1, <1>10, <1>14, <2>1 DEF AvailInv
  <2>3. \A t \in inflight' : \E u \in Procs :
           t = [head |-> head'[u], op |-> u, buf |-> u] /\ Serving(u, FALSE)'
    <3>1. \A t \in inflight : \E u \in Procs :
             t = [head |-> head[u], op |-> u, buf |-> u] /\ Serving(u, FALSE)
      BY <1>0 DEF AvailInv
    <3> QED  BY <1>1, <1>14, <2>1, <3>1
  <2>4. \A t \in inflight', n \in Available' : t.head # AvailAt(n)'  BY <1>0, <1>1, <1>10 DEF AvailInv
  <2>5. \A m, n \in Available' : AvailAt(m)' = AvailAt(n)' => m = n  BY <1>0, <1>10 DEF AvailInv
  <2> QED  BY <2>2, <2>3, <2>4, <2>5 DEF AvailInv
<1>16. Used = Used' \cup {s} /\ s \notin Used'
  <2>1. usedIdx \in Int /\ used.idx - 1 \in Int /\ usedIdx <= used.idx - 1  BY <1>2
  <2>2. /\ usedIdx .. (used.idx - 1) = ((usedIdx + 1) .. (used.idx - 1)) \cup {usedIdx}
        /\ usedIdx \notin (usedIdx + 1) .. (used.idx - 1)
    BY <2>1, IntervalEnd
  <2>3. Used' = (usedIdx + 1) .. (used.idx - 1)  BY <1>1, <1>3 DEF Used
  <2> QED  BY <1>4, <2>2, <2>3 DEF Used
<1>17. UsedInv'
  <2>1. \A m, n \in Used : UsedAt(m) = UsedAt(n) => m = n  BY <1>0 DEF UsedInv
  <2>2. ASSUME NEW n \in Used'
        PROVE  \E u \in Procs : head'[u] = UsedAt(n)' /\ Serving(u, TRUE)' /\ info'[head'[u]].status = 0
    <3>1. n \in Used /\ n # s  BY <1>16
    <3>2. PICK u \in Procs : head[u] = UsedAt(n) /\ Serving(u, TRUE) /\ info[head[u]].status = 0
      BY <1>0, <3>1 DEF UsedInv
    <3>3. u # q  BY <1>5, <2>1, <3>1, <3>2
    <3>4. Serving(u, TRUE)' /\ info'[head'[u]] = info[head[u]]  BY <1>14, <3>2, <3>3
    <3> QED  BY <1>1, <1>10, <3>2, <3>4
  <2>3. ASSUME NEW u \in Submitted'
        PROVE IF info'[head'[u]].disk THEN u \in moved' => \E n \in Used' : UsedAt(n)' = head'[u]
              ELSE u \in moved'
    <3>1. CASE u = q
      <4>1. head'[u] = h /\ u \in moved' /\ info'[h].disk = FALSE  BY <1>1, <1>6, <1>8, <3>1
      <4> QED  BY <4>1
    <3>2. CASE u # q
      <4>1. IF info[head[u]].disk THEN u \in moved => \E n \in Used : UsedAt(n) = head[u]
            ELSE u \in moved
        BY <1>0, <1>10 DEF UsedInv
      <4>2. info'[head'[u]] = info[head[u]] /\ head'[u] = head[u] /\ moved' = moved /\ head[u] # h
        BY <1>1, <1>10, <1>11, <3>2
      <4>3. UsedAt(s) = h  BY <1>5, <1>6
      <4>4. \A n \in Used : UsedAt(n) = head[u] => n \in Used'  BY <1>16, <4>2, <4>3
      <4> QED  BY <1>10, <4>1, <4>2, <4>4
    <3> QED  BY <3>1, <3>2
  <2>4. \A m, n \in Used' : UsedAt(m)' = UsedAt(n)' => m = n  BY <1>10, <1>16, <2>1
  <2> QED  BY <2>2, <2>3, <2>4 DEF UsedInv
<1>18. SleepInv'
  <2>1. \A u \in asleep' : u \in asleep /\ (pc[u] = "disk" => u \in Submitted /\ u # q)
    BY <1>0, <1>7 DEF TypeOK, Submitted, WakeBuf
  <2>2. \A u \in asleep' : pc[u] = "disk" => info'[head[u]] = info[head[u]]  BY <1>11, <2>1
  <2> QED  BY <1>0, <1>1, <2>1, <2>2 DEF SleepInv
<1> QED  BY <1>7, <1>9, <1>12, <1>13, <1>15, <1>17, <1>18 DEF DiskInv, DriverInv

-----------------------------------------------------------------------------
(***************************************************************************)
(* The theorems.                                                           *)
(***************************************************************************)

(* The invariant holds of the driver as Disk::init leaves it. *)
LEMMA InitInv == ASSUME Init PROVE DiskInv
<1>1. TypeOK /\ panicked = "no"
  <2>1. NUM \in Nat /\ NUM >= 3 /\ 0 \in Descs /\ 0 \in 0 .. (IdxMod - 1)
    BY DiskAssumption DEF Descs
  <2>2. NoDesc \in [next : Descs \cup {End}, addr : Procs \cup {None}]  BY DEF NoDesc
  <2> QED  BY <2>1, <2>2 DEF Init, TypeOK
<1>2. Submitted = {} /\ inflight = {} /\ asleep = {} /\ free = Descs
      /\ used.idx = 0 /\ usedIdx = 0 /\ seen = 0 /\ avail.idx = 0
  BY DEF Init, Submitted
<1>3. Available = {} /\ Used = {}  BY <1>2 DEF Available, Used
<1>4. IsFiniteSet({}) /\ Cardinality({}) = 0  BY FS_EmptySet
<1>5. Cardinality(free) = NUM
  <2>1. 0 \in Int /\ NUM - 1 \in Int /\ 0 <= NUM - 1 /\ (NUM - 1) - 0 + 1 = NUM  BY DiskAssumption
  <2> QED  BY <1>2, <2>1, FS_Interval DEF Descs
<1>6. ChainInv  BY <1>2 DEF ChainInv
<1>7. CountInv  BY <1>2, <1>4, <1>5, DiskAssumption DEF CountInv
<1>8. IndexInv  BY <1>2, <1>4 DEF IndexInv
<1>9. AvailInv /\ UsedInv /\ SleepInv  BY <1>2, <1>3 DEF AvailInv, UsedInv, SleepInv
<1> QED  BY <1>1, <1>6, <1>7, <1>8, <1>9 DEF DiskInv, DriverInv

(* What the error path has freed wrongly once stays so. *)
LEMMA MisfreedStays == [Next]_vars => (misfreed => misfreed')
<1> SUFFICES ASSUME [Next]_vars, misfreed PROVE misfreed'
  OBVIOUS
<1>1. CASE UNCHANGED vars  BY <1>1 DEF vars
<1>2. ASSUME NEW p \in Procs, Rw(p) PROVE misfreed'  BY <1>2 DEF Rw, AllocFails, Submit
<1>3. ASSUME NEW p \in Procs, RwDone(p) PROVE misfreed'  BY <1>3 DEF RwDone
<1>4. CASE DevTake  BY <1>4 DEF DevTake
<1>5. ASSUME NEW r \in inflight, DevComplete(r) PROVE misfreed'  BY <1>5 DEF DevComplete
<1>6. CASE Intr  BY <1>6 DEF Intr, IntrAck, IntrStep, IntrEnd
<1> QED  BY <1>1, <1>2, <1>3, <1>4, <1>5, <1>6 DEF Next

(* Every step of rw, of the device and of the handler keeps the invariant, *)
(* but for an error path of alloc3_desc that frees what it did not take.   *)
LEMMA StepInv == DiskInv /\ [Next]_vars /\ ~misfreed' => DiskInv'
<1> SUFFICES ASSUME DiskInv, [Next]_vars, ~misfreed' PROVE DiskInv'
  OBVIOUS
<1>1. CASE UNCHANGED vars
  <2>1. UNCHANGED <<desc, free, info, ops, avail, used, usedIdx, pc, asleep, head, seen, inflight,
                    moved, irq, intrRuns, misfreed, panicked>>
    BY <1>1 DEF vars
  <2>2. TypeOK' /\ panicked' \in {"no", "index"}  BY <2>1 DEF DiskInv, TypeOK
  <2>3. ASSUME panicked = "no" PROVE DriverInv'
    <3>1. DriverInv /\ SleepInv  BY <2>3 DEF DiskInv, DriverInv
    <3>2. Submitted' = Submitted  BY <2>1 DEF Submitted
    <3>3. ChainInv' /\ CountInv' /\ IndexInv' /\ AvailInv' /\ UsedInv'  BY <2>1, <3>1, <3>2, DriverKept
    <3>4. SleepInv'  BY <2>1, <3>1 DEF SleepInv
    <3> QED  BY <3>3, <3>4 DEF DriverInv
  <2> QED  BY <2>1, <2>2, <2>3 DEF DiskInv
<1>2. ASSUME NEW p \in Procs, Rw(p) PROVE DiskInv'
  <2>1. /\ panicked = "no" /\ pc[p] \in {"out", "alloc"} /\ p \notin asleep
        /\ UNCHANGED <<seen, inflight, irq, intrRuns>>
    BY <1>2 DEF Rw, CanLock
  <2>2. CASE AllocFails(p)  BY <2>1, <2>2, AllocFailsInv
  <2>3. CASE Submit(p)  BY <2>1, <2>3, SubmitInv
  <2> QED  BY <1>2, <2>2, <2>3 DEF Rw
<1>3. ASSUME NEW p \in Procs, RwDone(p) PROVE DiskInv'  BY <1>3, RwDoneInv
<1>4. CASE DevTake  BY <1>4, DevTakeInv
<1>5. ASSUME NEW r \in inflight, DevComplete(r) PROVE DiskInv'  BY <1>5, DevCompleteInv
<1>6. CASE Intr  BY <1>6, IntrEdgesInv, IntrStepInv DEF Intr
<1> QED  BY <1>1, <1>2, <1>3, <1>4, <1>5, <1>6 DEF Next

(* Every step keeps the types, whatever alloc3_desc finds.                 *)
LEMMA TypeStep == TypeOK /\ HeadersInv /\ [Next]_vars => TypeOK'
<1> SUFFICES ASSUME TypeOK, HeadersInv, [Next]_vars PROVE TypeOK'
  OBVIOUS
<1> DEFINE DescType == [next : Descs \cup {End}, addr : Procs \cup {None}]
           InfoType == [disk : BOOLEAN, chan : Procs \cup {None}, status : {0, 255}]
           RingType == [ring : [Descs -> Descs], idx : 0 .. (IdxMod - 1)]
           ReqType == [head : Descs, op : Procs \cup {None}, buf : Procs \cup {None}]
<1>0. /\ desc \in [Descs -> DescType] /\ free \subseteq Descs /\ info \in [Descs -> InfoType]
      /\ ops \in [Descs -> Procs \cup {None}] /\ avail \in RingType /\ used \in RingType
      /\ head \in [Procs -> Descs] /\ pc \in [Procs -> Pcs] /\ asleep \subseteq Procs
  BY DEF TypeOK, Pcs
<1>1. NoDesc \in DescType  BY DEF NoDesc
<1>2. \A S : Cleared(S) \in [Descs -> DescType]  BY <1>0, <1>1 DEF Cleared
<1>3. \A n \in Nat : n % NUM \in Descs /\ Bump(n) \in 0 .. (IdxMod - 1)
  <2>1. ASSUME NEW n \in Nat PROVE Bump(n) \in 0 .. (IdxMod - 1)
    <3>1. IdxMod \in Nat \ {0} /\ n + 1 \in Int  BY DiskAssumption
    <3>2. (n + 1) % IdxMod \in 0 .. (IdxMod - 1)  BY <3>1, DivMod
    <3> QED  BY <3>2 DEF Bump
  <2> QED  BY <2>1, CellIs
<1>4. avail.idx \in Nat /\ used.idx \in Nat /\ usedIdx \in Nat /\ seen \in Nat
      /\ avail.ring \in [Descs -> Descs] /\ used.ring \in [Descs -> Descs]
  BY Indices
<1>5. ASSUME NEW r \in [Descs -> Descs], NEW n \in Nat, NEW d \in Descs
      PROVE  [ring |-> [r EXCEPT ![n % NUM] = d], idx |-> Bump(n)] \in RingType
  BY <1>3
<1> HIDE DEF DescType, InfoType, RingType, ReqType
<1>6. ASSUME NEW p \in Procs, AllocFails(p), UNCHANGED <<seen, inflight, irq, intrRuns>> PROVE TypeOK'
  <2>1. /\ Cardinality(free) < 3 /\ free' = Undone(Cardinality(free))
        /\ desc' = Cleared(Undone(Cardinality(free))) /\ pc' = [pc EXCEPT ![p] = "alloc"]
        /\ asleep' = (IF Cardinality(free) = 0 THEN asleep ELSE WakeAlloc) \cup {p}
        /\ misfreed' \in BOOLEAN /\ UNCHANGED <<info, ops, avail, used, usedIdx, head, moved, panicked>>
    BY <1>6 DEF AllocFails
  <2>2. Cardinality(free) \in Nat  BY <1>0, DescsFinite
  <2>3. free' \subseteq Descs  BY <2>1, <2>2, DiskAssumption DEF Undone, Descs
  <2>4. asleep' \subseteq Procs  BY <1>0, <2>1 DEF WakeAlloc
  <2>5. pc' \in [Procs -> Pcs]  BY <1>0, <2>1 DEF Pcs
  <2>6. desc' \in [Descs -> DescType]  BY <1>2, <2>1
  <2> QED  BY <1>6, <2>1, <2>3, <2>4, <2>5, <2>6 DEF TypeOK, DescType, Pcs
<1>7. ASSUME NEW p \in Procs, Submit(p), UNCHANGED <<seen, inflight, irq, intrRuns>> PROVE TypeOK'
  <2>1. PICK i \in free, j \in free, k \in free :
        /\ free' = free \ {i, j, k} /\ ops' = [ops EXCEPT ![i] = p]
        /\ desc' = [desc EXCEPT ![i] = [next |-> j, addr |-> None],
                                ![j] = [next |-> k, addr |-> p],
                                ![k] = [next |-> End, addr |-> None]]
        /\ info' = [info EXCEPT ![i] = InfoOf(p)]
        /\ avail' = [ring |-> [avail.ring EXCEPT ![avail.idx % NUM] = i], idx |-> Bump(avail.idx)]
        /\ head' = [head EXCEPT ![p] = i]
    BY <1>0, <1>7, ThreeFree DEF Submit
  <2>2. /\ panicked' = (IF Overflows(avail.idx) THEN "index" ELSE panicked)
        /\ pc' = [pc EXCEPT ![p] = "disk"] /\ asleep' = asleep \cup {p} /\ moved' = moved \ {p}
        /\ UNCHANGED <<used, usedIdx, misfreed>>
    BY <1>7 DEF Submit
  <2>3. i \in Descs /\ j \in Descs /\ k \in Descs  BY <1>0
  <2>4. desc' \in [Descs -> DescType]
    <3>1. /\ [next |-> j, addr |-> None] \in DescType /\ [next |-> k, addr |-> p] \in DescType
          /\ [next |-> End, addr |-> None] \in DescType
      BY <2>3 DEF DescType
    <3> QED  BY <1>0, <2>1, <2>3, <3>1
  <2>5. info' \in [Descs -> InfoType]
    <3>1. InfoOf(p) \in InfoType  BY DEF InfoOf, InfoType
    <3> QED  BY <1>0, <2>1, <2>3, <3>1
  <2>6. avail' \in RingType  BY <1>4, <1>5, <2>1, <2>3
  <2>7. ops' \in [Descs -> Procs \cup {None}] /\ head' \in [Procs -> Descs] /\ pc' \in [Procs -> Pcs]
        /\ asleep' \subseteq Procs /\ free' \subseteq Descs
    BY <1>0, <2>1, <2>2, <2>3 DEF Pcs
  <2>8. moved' \subseteq Procs /\ panicked' \in {"no", "index", "free", "channel", "status"}
    BY <2>2 DEF TypeOK
  <2> QED  BY <1>7, <2>2, <2>4, <2>5, <2>6, <2>7, <2>8 DEF TypeOK, DescType, InfoType, RingType, Pcs
<1>8. ASSUME NEW p \in Procs, RwDone(p) PROVE TypeOK'
  <2>1. UNCHANGED <<ops, avail, used, usedIdx, head, seen, inflight, moved, irq, intrRuns, misfreed>>
    BY <1>8 DEF RwDone
  <2>2. CASE Owned(p)
    <3>1. asleep' = asleep \cup {p} /\ UNCHANGED <<info, free, desc, pc, panicked>>
      BY <1>8, <2>2 DEF RwDone
    <3> QED  BY <2>1, <3>1 DEF TypeOK
  <2>3. CASE ~Owned(p)
    <3>1. /\ info' = [info EXCEPT ![head[p]].chan = None] /\ free' = free \cup InChain(head[p]) /\ misfreed' = misfreed
          /\ desc' = Cleared(InChain(head[p])) /\ asleep' = WakeAlloc /\ pc' = [pc EXCEPT ![p] = "out"]
      BY <1>8, <2>3 DEF RwDone, Freed
    <3>2. panicked' = IF info[head[p]].chan # p THEN "channel"
                      ELSE IF FreePanics(head[p]) THEN "free" ELSE panicked
      BY <1>8, <2>3 DEF RwDone
    <3>3. head[p] \in Descs  BY <1>0
    <3>4. free' \subseteq Descs  BY <1>0, <3>1, <3>3, ChainTyped DEF DescType
    <3>5. info' \in [Descs -> InfoType]
      <4>1. info[head[p]] \in InfoType  BY <1>0, <3>3
      <4>2. [info[head[p]] EXCEPT !.chan = None] \in InfoType  BY <4>1 DEF InfoType
      <4> QED  BY <1>0, <3>1, <3>3, <4>2
    <3>6. asleep' \subseteq Procs /\ pc' \in [Procs -> Pcs] /\ desc' \in [Descs -> DescType]
      BY <1>0, <1>2, <3>1 DEF WakeAlloc, Pcs
    <3>7. panicked' \in {"no", "index", "free", "channel", "status"}  BY <3>2 DEF TypeOK
    <3> QED  BY <2>1, <3>4, <3>5, <3>6, <3>7 DEF TypeOK, DescType, InfoType, Pcs
  <2> QED  BY <2>2, <2>3
<1>9. CASE DevTake
  <2>1. PICK h \in Descs : inflight' = inflight \cup
            {[head |-> h, op |-> ops[h],
              buf |-> IF desc[h].next = End THEN None ELSE desc[desc[h].next].addr]}
    <3>1. avail.ring[seen % NUM] \in Descs  BY <1>3, <1>4
    <3> QED  BY <1>9, <3>1 DEF DevTake
  <2>2. ops[h] \in Procs \cup {None}  BY <1>0
  <2>3. (IF desc[h].next = End THEN None ELSE desc[desc[h].next].addr) \in Procs \cup {None}
    <3>1. \A d \in Descs : desc[d].next \in Descs \cup {End} /\ desc[d].addr \in Procs \cup {None}
      BY <1>0 DEF DescType
    <3> QED  BY <3>1
  <2>4. inflight' \subseteq ReqType
    <3>1. inflight \subseteq ReqType  BY DEF TypeOK, ReqType
    <3>2. [head |-> h, op |-> ops[h],
           buf |-> IF desc[h].next = End THEN None ELSE desc[desc[h].next].addr] \in ReqType
      BY <2>2, <2>3 DEF ReqType
    <3> QED  BY <2>1, <3>1, <3>2
  <2>5. seen' \in 0 .. (IdxMod - 1)  BY <1>3, <1>4, <1>9 DEF DevTake, Bump
  <2>6. UNCHANGED <<misfreed, desc, free, info, ops, avail, used, usedIdx, pc, asleep, head, moved, irq,
                    intrRuns, panicked>>
    BY <1>9 DEF DevTake
  <2> QED  BY <2>4, <2>5, <2>6 DEF TypeOK, ReqType
<1>10. ASSUME NEW r \in inflight, DevComplete(r) PROVE TypeOK'
  <2>1. /\ inflight' = inflight \ {r} /\ moved' = (IF r.op = r.buf THEN moved \cup {r.buf} ELSE moved)
        /\ info' = [info EXCEPT ![r.head].status = 0] /\ irq' = TRUE
        /\ used' = [ring |-> [used.ring EXCEPT ![used.idx % NUM] = r.head], idx |-> Bump(used.idx)]
        /\ UNCHANGED <<misfreed, desc, free, ops, avail, usedIdx, pc, asleep, head, seen, intrRuns, panicked>>
    BY <1>10 DEF DevComplete, Bump
  <2>2. r.head \in Descs /\ r.buf \in Procs \cup {None}  BY DEF TypeOK
  <2>3. used' \in RingType  BY <1>4, <1>5, <2>1, <2>2
  <2>4. info' \in [Descs -> InfoType]
    <3>1. info[r.head] \in InfoType  BY <1>0, <2>2
    <3>2. [info[r.head] EXCEPT !.status = 0] \in InfoType  BY <3>1 DEF InfoType
    <3> QED  BY <1>0, <2>1, <2>2, <3>2
  <2>5. moved' \subseteq Procs /\ inflight' \subseteq inflight
    <3>1. r.op \in Procs  BY DEF HeadersInv
    <3>2. moved \subseteq Procs  BY DEF TypeOK
    <3> QED  BY <2>1, <3>1, <3>2
  <2> QED  BY <2>1, <2>3, <2>4, <2>5 DEF TypeOK, InfoType, RingType
<1>11. CASE IntrAck \/ IntrEnd
  <2>1. /\ irq' \in BOOLEAN /\ intrRuns' \in BOOLEAN
        /\ UNCHANGED <<misfreed, desc, free, info, ops, avail, used, usedIdx, pc, asleep, head, seen, inflight,
                       moved, panicked>>
    BY <1>11 DEF TypeOK, IntrAck, IntrEnd
  <2> QED  BY <2>1 DEF TypeOK
<1>12. CASE IntrStep
  <2>1. /\ info' = [info EXCEPT ![UsedHead].disk = FALSE] /\ usedIdx' = Bump(usedIdx)
        /\ asleep' = WakeBuf(info[UsedHead].chan)
        /\ UNCHANGED <<desc, free, ops, avail, used, pc, head, seen, inflight, moved, irq, intrRuns, misfreed>>
    BY <1>12 DEF IntrStep
  <2>2. panicked' = (IF info[UsedHead].status # 0 THEN "status"
                     ELSE IF info[UsedHead].chan = None THEN "channel"
                     ELSE IF Overflows(usedIdx) THEN "index" ELSE panicked)
    BY <1>12 DEF IntrStep
  <2>3. panicked' \in {"no", "index", "free", "channel", "status"}  BY <2>2 DEF TypeOK
  <2>4. UsedHead \in Descs  BY <1>3, <1>4 DEF UsedHead
  <2>5. info' \in [Descs -> InfoType]
    <3>1. info[UsedHead] \in InfoType  BY <1>0, <2>4
    <3>2. [info[UsedHead] EXCEPT !.disk = FALSE] \in InfoType  BY <3>1 DEF InfoType
    <3> QED  BY <1>0, <2>1, <2>4, <3>2
  <2>6. asleep' \subseteq Procs /\ usedIdx' \in 0 .. (IdxMod - 1)  BY <1>0, <1>3, <1>4, <2>1 DEF WakeBuf
  <2> QED  BY <2>1, <2>3, <2>5, <2>6 DEF TypeOK, InfoType
<1>13. CASE UNCHANGED vars  BY <1>13 DEF vars, TypeOK
<1> QED  BY <1>6, <1>7, <1>8, <1>9, <1>10, <1>11, <1>12, <1>13 DEF Next, Rw, Intr

(* Every step keeps what the entries are: a published head has its header. *)
LEMMA HeadersStep == TypeOK /\ HeadersInv /\ [Next]_vars => HeadersInv'
<1> SUFFICES ASSUME TypeOK, HeadersInv, [Next]_vars PROVE HeadersInv'
  OBVIOUS
<1>0. /\ avail.idx \in Nat /\ avail.idx < IdxMod /\ seen \in Nat /\ seen < IdxMod
      /\ avail.ring \in [Descs -> Descs] /\ NUM \in Nat \ {0} /\ Descs = 0 .. (NUM - 1)
      /\ IdxMod \in Nat \ {0} /\ ops \in [Descs -> Procs \cup {None}]
  BY Indices DEF TypeOK
<1>1. ASSUME panicked' = "no" => panicked = "no", inflight' \subseteq inflight,
             UNCHANGED <<seen, avail, ops>>
      PROVE  HeadersInv'
  BY <1>1 DEF HeadersInv
<1>2. ASSUME NEW p \in Procs, AllocFails(p), UNCHANGED <<seen, inflight, irq, intrRuns>> PROVE HeadersInv'
  BY <1>1, <1>2 DEF AllocFails
<1>3. ASSUME NEW p \in Procs, Submit(p), UNCHANGED <<seen, inflight, irq, intrRuns>>, panicked = "no"
      PROVE  HeadersInv'
  <2>1. PICK i \in free : /\ ops' = [ops EXCEPT ![i] = p] /\ avail'.idx = Bump(avail.idx)
                          /\ avail'.ring = [avail.ring EXCEPT ![avail.idx % NUM] = i]
                          /\ panicked' = IF Overflows(avail.idx) THEN "index" ELSE panicked
    <3>1. free \subseteq Descs  BY DEF TypeOK
    <3>2. Least(free) \in free  BY <1>3, <3>1, ThreeFree DEF Submit
    <3> QED  BY <1>3, <3>2 DEF Submit
  <2>2. i \in Descs /\ avail.idx % NUM \in Descs  BY <1>0, CellIs DEF TypeOK
  <2>3. \A d \in Descs : ops[d] \in Procs => ops'[d] \in Procs  BY <1>0, <2>1
  <2>4. ops'[i] = p /\ avail'.ring[avail.idx % NUM] = i  BY <1>0, <2>1, <2>2
  <2>5. ASSUME panicked' = "no"
        PROVE  seen <= avail'.idx /\ \A c \in Descs : c < avail'.idx => ops'[avail'.ring[c]] \in Procs
    <3>1. avail.idx + 1 # IdxMod  BY <2>1, <2>5 DEF Overflows
    <3>2. avail.idx + 1 \in 0 .. (IdxMod - 1)
      <4>1. avail.idx \in Nat /\ avail.idx < IdxMod /\ IdxMod \in Nat  BY <1>0
      <4> QED  BY <3>1, <4>1
    <3>3. avail'.idx = avail.idx + 1  BY <1>0, <2>1, <3>2, ModSmall DEF Bump
    <3>4. seen <= avail.idx /\ \A c \in Descs : c < avail.idx => ops[avail.ring[c]] \in Procs
      BY <1>3 DEF HeadersInv
    <3>5. ASSUME NEW c \in Descs, c < avail'.idx PROVE ops'[avail'.ring[c]] \in Procs
      <4>1. CASE c = avail.idx % NUM  BY <2>4, <4>1
      <4>2. CASE c # avail.idx % NUM
        <5>1. c # avail.idx
          <6>1. c \in 0 .. (NUM - 1) => c % NUM = c  BY <1>0, ModSmall
          <6> QED  BY <1>0, <4>2, <6>1
        <5>2. c < avail.idx  BY <1>0, <3>3, <3>5, <5>1
        <5>3. avail'.ring[c] = avail.ring[c] /\ avail.ring[c] \in Descs  BY <1>0, <2>1, <4>2
        <5> QED  BY <2>3, <3>4, <5>2, <5>3
      <4> QED  BY <4>1, <4>2
    <3>6. seen <= avail'.idx  BY <1>0, <3>3, <3>4
    <3> QED  BY <3>5, <3>6
  <2> QED  BY <1>3, <2>5 DEF HeadersInv
<1>4. ASSUME NEW p \in Procs, RwDone(p) PROVE HeadersInv'
  <2>1. panicked = "no"  BY <1>4 DEF RwDone, CanLock
  <2>2. UNCHANGED <<seen, avail, ops, inflight>>  BY <1>4 DEF RwDone
  <2> QED  BY <1>1, <2>1, <2>2
<1>5. CASE DevTake
  <2>1. /\ panicked = "no" /\ seen # avail.idx /\ seen' = (seen + 1) % IdxMod
        /\ \A r \in inflight' : r \in inflight \/ r.op = ops[avail.ring[seen % NUM]]
        /\ UNCHANGED <<avail, ops, panicked>>
    BY <1>5 DEF DevTake
  <2>2. seen < avail.idx /\ \A c \in Descs : c < avail.idx => ops[avail.ring[c]] \in Procs
    <3>1. seen <= avail.idx /\ \A c \in Descs : c < avail.idx => ops[avail.ring[c]] \in Procs
      BY <2>1 DEF HeadersInv
    <3>2. seen \in Nat /\ avail.idx \in Nat /\ seen # avail.idx /\ seen <= avail.idx  BY <1>0, <2>1, <3>1
    <3>3. seen < avail.idx  BY <3>2
    <3> QED  BY <3>1, <3>3
  <2>3. seen % NUM \in Descs /\ seen % NUM < avail.idx
    <3>1. seen % NUM \in 0 .. (NUM - 1)  BY <1>0, CellIs
    <3>2. CASE seen < NUM
      <4>1. seen \in 0 .. (NUM - 1)  BY <1>0, <3>2
      <4>2. seen % NUM = seen  BY <1>0, <4>1, ModSmall
      <4> QED  BY <1>0, <2>2, <4>1, <4>2
    <3>3. CASE seen >= NUM
      <4>1. seen \in Nat /\ avail.idx \in Nat /\ seen < avail.idx /\ NUM \in Nat  BY <1>0, <2>2
      <4>2. \A c \in 0 .. (NUM - 1) : c < avail.idx  BY <3>3, <4>1
      <4> QED  BY <1>0, <3>1, <4>2
    <3> QED  BY <1>0, <3>2, <3>3
  <2>4. seen' <= avail.idx
    <3>1. seen + 1 \in 0 .. (IdxMod - 1)  BY <1>0, <2>2
    <3>2. seen' = seen + 1  BY <1>0, <2>1, <3>1, ModSmall
    <3> QED  BY <1>0, <2>2, <3>2
  <2>5. ops[avail.ring[seen % NUM]] \in Procs  BY <2>2, <2>3
  <2> QED  BY <2>1, <2>2, <2>4, <2>5 DEF HeadersInv
<1>6. ASSUME NEW r \in inflight, DevComplete(r) PROVE HeadersInv'
  <2>1. inflight' = inflight \ {r} /\ UNCHANGED <<seen, avail, ops, panicked>>  BY <1>6 DEF DevComplete
  <2> QED  BY <1>1, <2>1
<1>7. CASE IntrAck \/ IntrEnd  BY <1>1, <1>7 DEF IntrAck, IntrEnd
<1>8. CASE IntrStep
  <2>1. panicked = "no" /\ UNCHANGED <<seen, avail, ops, inflight>>  BY <1>8 DEF IntrStep
  <2> QED  BY <1>1, <2>1
<1>9. CASE UNCHANGED vars  BY <1>1, <1>9 DEF vars
<1> QED  BY <1>2, <1>3, <1>4, <1>5, <1>6, <1>7, <1>8, <1>9 DEF Next, Rw, CanLock, Intr

(* Every variable of the driver, the rings and the device keeps its type,  *)
(* even when alloc3_desc fails half way and chains are no longer apart.    *)
THEOREM DiskTypeCorrect == Spec => []TypeOK
<1>1. Init => TypeOK /\ HeadersInv
  <2>1. Init => TypeOK  BY InitInv DEF DiskInv
  <2> QED  BY <2>1, DiskAssumption DEF Init, HeadersInv, Descs
<1> QED  BY <1>1, TypeStep, HeadersStep, PTL DEF Spec

(* Until alloc3_desc's error path has freed other descriptors than it      *)
(* took, the chains, rings and sleepers are as DiskInv says, for any       *)
(* number of descriptors, the code's eight included.                       *)
THEOREM DiskInvariant == Spec => [](~misfreed => DiskInv)
<1>1. Init => (~misfreed => DiskInv)  BY InitInv
<1>2. (~misfreed => DiskInv) /\ [Next]_vars => (~misfreed' => DiskInv')  BY StepInv, MisfreedStays
<1> QED  BY <1>1, <1>2, PTL DEF Spec

(* The requests own what they use: every submitted request owns three      *)
(* descriptors, no two requests share one, all others are free.            *)
LEMMA OwnedInv == (~misfreed => DiskInv) => DescriptorsOwned
<1>1. SUFFICES ASSUME DiskInv, ~misfreed PROVE DescriptorsOwned
  BY DEF DescriptorsOwned
<1>2. ASSUME panicked = "no"
      PROVE  /\ \A p \in Submitted : Cardinality(InChain(head[p])) = 3
             /\ \A p, q \in Submitted : p # q => InChain(head[p]) \cap InChain(head[q]) = {}
             /\ free = Descs \ UNION {InChain(head[p]) : p \in Submitted}
  <2>1. TypeOK /\ ChainInv  BY <1>1, <1>2 DEF DiskInv, DriverInv
  <2>2. \A p \in Submitted : /\ InChain(head[p]) = Three(p) /\ Cardinality(Three(p)) = 3
                             /\ Three(p) \cap free = {}
    BY <2>1, Request
  <2>3. \A p, q \in Submitted : p # q => Three(p) \cap Three(q) = {}  BY <2>1 DEF ChainInv
  <2>4. \A d \in Descs : d \in free \/ \E p \in Submitted : d \in InChain(head[p])
    BY <2>1, <2>2 DEF ChainInv
  <2>5. free \subseteq Descs  BY <2>1 DEF TypeOK
  <2>6. \A p \in Submitted : InChain(head[p]) \cap free = {}  BY <2>2
  <2>7. free = Descs \ UNION {InChain(head[p]) : p \in Submitted}  BY <2>4, <2>5, <2>6
  <2> QED  BY <2>2, <2>3, <2>7
<1> QED  BY <1>1, <1>2 DEF DescriptorsOwned, DiskInv

(* Whatever the error path frees, it is fewer than three descriptors, and  *)
(* a request that ends wakes who waits for them.                           *)
AllocWaits == panicked = "no" => \A p \in asleep : pc[p] = "alloc" => Cardinality(free) < 3

(* Every step keeps it. *)
LEMMA AllocWaitsStep == TypeOK /\ AllocWaits /\ [Next]_vars => AllocWaits'
<1> SUFFICES ASSUME TypeOK, AllocWaits, [Next]_vars, panicked' = "no", NEW q \in asleep', pc'[q] = "alloc"
             PROVE  Cardinality(free') < 3
  BY DEF AllocWaits
<1>0. IsFiniteSet(free) /\ Cardinality(free) \in Nat /\ pc \in [Procs -> Pcs] /\ asleep \subseteq Procs
  BY DescsFinite DEF TypeOK, Pcs
<1>1. ASSUME UNCHANGED <<free, pc>>, asleep' \subseteq asleep, panicked = "no" PROVE Cardinality(free') < 3
  BY <1>1 DEF AllocWaits
<1>2. ASSUME NEW p \in Procs, AllocFails(p) PROVE Cardinality(free') < 3
  <2>1. Cardinality(free) < 3 /\ free' = 0 .. (Cardinality(free) - 1)  BY <1>2 DEF AllocFails, Undone
  <2>2. Cardinality(free') = Cardinality(free)
    <3>1. 0 \in Int /\ Cardinality(free) - 1 \in Int  BY <1>0
    <3>2. Cardinality(0 .. (Cardinality(free) - 1)) =
            IF 0 > Cardinality(free) - 1 THEN 0 ELSE (Cardinality(free) - 1) - 0 + 1
      BY <3>1, FS_Interval
    <3> QED  BY <1>0, <2>1, <3>2
  <2> QED  BY <2>1, <2>2
<1>3. ASSUME NEW p \in Procs, Submit(p), panicked = "no" PROVE Cardinality(free') < 3
  <2>1. free' \subseteq free /\ pc' = [pc EXCEPT ![p] = "disk"] /\ asleep' = asleep \cup {p}
    BY <1>3 DEF Submit
  <2>2. q # p /\ q \in asleep /\ pc[q] = "alloc"  BY <1>0, <2>1
  <2>3. Cardinality(free') <= Cardinality(free) /\ Cardinality(free') \in Nat
    BY <1>0, <2>1, FS_Subset, FS_CardinalityType
  <2> QED  BY <1>0, <1>3, <2>2, <2>3 DEF AllocWaits
<1>4. ASSUME NEW p \in Procs, RwDone(p) PROVE Cardinality(free') < 3
  <2>1. panicked = "no" /\ pc[p] = "disk"  BY <1>4 DEF RwDone, CanLock
  <2>2. CASE Owned(p)
    <3>1. asleep' = asleep \cup {p} /\ UNCHANGED <<free, pc>>  BY <1>4, <2>2 DEF RwDone
    <3> QED  BY <2>1, <3>1 DEF AllocWaits
  <2>3. CASE ~Owned(p)
    <3>1. asleep' = WakeAlloc /\ pc' = [pc EXCEPT ![p] = "out"]  BY <1>4, <2>3 DEF RwDone
    <3>2. q \in Procs /\ pc[q] # "alloc"  BY <1>0, <3>1 DEF WakeAlloc
    <3> QED  BY <1>0, <3>1, <3>2
  <2> QED  BY <2>2, <2>3
<1>5. CASE DevTake  BY <1>1, <1>5 DEF DevTake
<1>6. ASSUME NEW r \in inflight, DevComplete(r) PROVE Cardinality(free') < 3  BY <1>1, <1>6 DEF DevComplete
<1>7. CASE IntrAck \/ IntrEnd  BY <1>1, <1>7 DEF IntrAck, IntrEnd, CanLock
<1>8. CASE IntrStep  BY <1>1, <1>8 DEF IntrStep, WakeBuf
<1>9. CASE UNCHANGED vars  BY <1>1, <1>9 DEF vars
<1> QED  BY <1>2, <1>3, <1>4, <1>5, <1>6, <1>7, <1>8, <1>9 DEF Next, Rw, CanLock, Intr

(* A request whose process the device has served is still in the used      *)
(* ring, which has an interrupt.                                           *)
LEMMA WokenInv == (~misfreed => DiskInv) /\ AllocWaits => NoLostWakeup
<1>1. SUFFICES ASSUME ~misfreed => DiskInv, AllocWaits PROVE NoLostWakeup
  OBVIOUS
<1>2. ASSUME panicked = "no", ~misfreed, NEW p \in asleep, p \in Submitted, p \in moved
      PROVE  intrRuns \/ irq
  <2>1. TypeOK /\ IndexInv /\ UsedInv /\ SleepInv  BY <1>1, <1>2 DEF DiskInv, DriverInv
  <2>2. info[head[p]].disk  BY <1>2, <2>1 DEF SleepInv, Submitted
  <2>3. Used # {}  BY <1>2, <2>1, <2>2 DEF UsedInv
  <2>4. usedIdx \in Nat /\ used.idx \in Nat  BY <2>1, Indices
  <2>5. usedIdx # used.idx  BY <2>3, <2>4 DEF Used
  <2> QED  BY <2>1, <2>5 DEF SleepInv
<1> QED  BY <1>1, <1>2 DEF NoLostWakeup, AllocWaits

(* With any number of descriptors, until alloc3_desc's error path has      *)
(* freed other descriptors than it took: every submitted request owns      *)
(* three descriptors, no two requests share one, all others are free, and  *)
(* no assertion of rw, intr or free_desc fails but for the overflow of a   *)
(* ring index.                                                             *)
THEOREM DiskDescriptorsOwned == Spec => []DescriptorsOwned
BY DiskInvariant, OwnedInv, PTL

(* Until then, a process that finds info.disk cleared finds its own buffer *)
(* transferred, whatever the order of the completions and however many of  *)
(* them one interrupt announces.                                           *)
THEOREM DiskDoneIsTransferred == Spec => []DoneIsTransferred
<1>1. (~misfreed => DiskInv) => DoneIsTransferred
  BY DEF DiskInv, DriverInv, UsedInv, DoneIsTransferred
<1> QED  BY <1>1, DiskInvariant, PTL

(* Nobody waits for descriptors while there are three, even after the      *)
(* error path has gone wrong; and until it has, while a process sleeps for *)
(* a request the device has finished, the handler runs or its interrupt is *)
(* pending.                                                                *)
THEOREM DiskNoLostWakeup == Spec => []NoLostWakeup
<1>1. Init => AllocWaits  BY DEF Init, AllocWaits
<1> QED  BY <1>1, AllocWaitsStep, DiskTypeCorrect, DiskInvariant, WokenInv, PTL DEF Spec
====
