---------------------------- MODULE InodesProofs ----------------------------
(***************************************************************************)
(* Proofs about module Inodes, for any number of processes, slots and      *)
(* inodes, any tree and any system calls: reference counts are exact, put  *)
(* never waits for a sleep lock, an inode has one slot, and cached data is *)
(* current until an inode is allocated between the two locked parts of the *)
(* put that frees it.                                                      *)
(***************************************************************************)
EXTENDS Inodes, FiniteSetTheorems, WellFoundedInduction, TLAPS

Item == [k : {"guard", "ref", "trunc", "deref", "begin", "end"}, i : 0 .. NINODE]

PCs == {"user", "gone", "start", "walk", "look", "found", "create", "alloc", "get",
        "new", "fill", "made", "opening", "chdir", "unlink", "child", "unlinked",
        "link", "linking", "revert", "reverting"}

TypeOK ==
    /\ menu \in Menus
    /\ inum \in [Slots -> 0 .. NINUM]
    /\ refs \in [Slots -> Int]
    /\ owner \in [Slots -> Procs \cup {None}]
    /\ valid \in [Slots -> 0 .. NINUM]
    /\ din \in [Slots -> Dinode]
    /\ dino \in [Inums -> Dinode]
    /\ ents \in [Inums -> Seq(DirEntry)]
    /\ pc \in [Procs -> PCs]
    /\ DOMAIN call = Procs
    /\ path \in [Procs -> Seq(Names)]
    /\ cur \in [Procs -> 0 .. NINODE]
    /\ ino \in [Procs -> 0 .. NINODE]
    /\ old \in [Procs -> 0 .. NINODE]
    /\ fresh \in [Procs -> 0 .. NINUM]
    /\ drops \in [Procs -> Seq(Item)]
    /\ cwd \in [Procs -> 0 .. NINODE]
    /\ file \in [Procs -> 0 .. NINODE]
    /\ inop \in [Procs -> BOOLEAN]
    /\ asserted \in BOOLEAN

(* Where the slot cur is locked, where ino is, and where old is. *)
CurLocked == {"look", "opening", "chdir", "unlink", "link", "linking", "create",
              "alloc", "get", "new", "fill", "child", "unlinked", "revert",
              "reverting"}
InoLocked == {"fill", "unlinked"}
OldLocked == {"reverting"}

Creates == {"creat", "mkdir", "mknod"}
InLink == {"start", "walk", "look", "found", "linking", "revert", "reverting"}
Naming1 == {"create", "alloc", "get", "new", "fill", "unlink", "child", "unlinked",
            "linking"}

(* What process p has at its place in a call. *)
PlaceOK(p) ==
    /\ Len(drops[p]) <= 6
    /\ pc[p] \notin {"user", "gone"} => call[p] \in menu /\ call[p].op # "exit"
    /\ pc[p] \in {"create", "alloc", "get", "new", "fill", "made"} =>
           call[p].op \in Creates
    /\ pc[p] \in {"unlink", "child", "unlinked"} => call[p].op = "unlink"
    /\ pc[p] \in {"link", "linking", "revert", "reverting"} => call[p].op = "link"
    /\ pc[p] = "chdir" => call[p].op = "chdir"
    /\ pc[p] = "opening" => call[p].op \in {"open", "creat"}
    /\ pc[p] \notin {"user", "gone"} /\ call[p].op \in {"open", "creat"} => file[p] = 0
    /\ ino[p] # 0 <=> pc[p] \in {"new", "fill", "child", "unlinked"}
    /\ old[p] # 0 => pc[p] \in InLink /\ call[p].op = "link"
    /\ pc[p] \in {"linking", "revert", "reverting"} => old[p] # 0
    /\ pc[p] \in {"user", "gone", "start"} => cur[p] = 0
    /\ pc[p] \notin {"user", "gone", "start", "revert", "reverting"} => cur[p] # 0
    /\ pc[p] = "gone" <=> cwd[p] = 0
    /\ pc[p] \in Naming1 => path[p] # <<>>
    /\ pc[p] = "found" /\ IsParent(p) => path[p] # <<>>
    /\ pc[p] = "look" => path[p] # <<>>
    /\ pc[p] \in {"get", "new", "fill"} => fresh[p] # 0

-----------------------------------------------------------------------------
(* Handles and locks, counted. *)
Bit(b) == IF b THEN 1 ELSE 0
Refers == {"ref", "trunc", "deref"}
Claims == {"guard", "trunc"}

One(x, i, K) == IF x.i = i /\ x.k \in K THEN 1 ELSE 0
At(s, n, i, K) == IF n <= Len(s) /\ s[n].i = i /\ s[n].k \in K THEN 1 ELSE 0
InQueue(s, i, K) == At(s, 1, i, K) + At(s, 2, i, K) + At(s, 3, i, K) + At(s, 4, i, K)
                  + At(s, 5, i, K) + At(s, 6, i, K) + At(s, 7, i, K) + At(s, 8, i, K)
InVars(a, b, c, d, e, i) == Bit(a = i) + Bit(b = i) + Bit(c = i) + Bit(d = i) + Bit(e = i)
AtPlace(at, a, b, c, i) == Bit(at \in CurLocked /\ a = i)
                         + Bit(at \in InoLocked /\ b = i)
                         + Bit(at \in OldLocked /\ c = i)

(* The handles that p has to slot i, and the locks. *)
VarHandles(p, i) == InVars(cur[p], ino[p], old[p], cwd[p], file[p], i)
Handles(p, i) == VarHandles(p, i) + InQueue(drops[p], i, Refers)
PlaceLocks(p, i) == AtPlace(pc[p], cur[p], ino[p], old[p], i)
Locks(p, i) == PlaceLocks(p, i) + InQueue(drops[p], i, Claims)

(* The owner of a sleep lock has exactly one guard of it. *)
LockInv == \A p \in Procs : \A i \in Slots : Locks(p, i) = Bit(owner[i] = p)

(* What a guard in a queue protects is referred to behind it, or by V. *)
Backed(s, V) ==
    \A n \in 1 .. Len(s) : s[n].k = "guard" =>
        \/ s[n].i \in V
        \/ \E m \in (n + 1) .. Len(s) : s[m].i = s[n].i /\ s[m].k \in Refers
BackedInv == \A p \in Procs : Backed(drops[p], {cur[p], old[p], cwd[p], file[p]})

(* A slot in use has an inode, and locked data has been read. *)
SlotInv == \A i \in Slots : /\ refs[i] > 0 => inum[i] # 0
                            /\ owner[i] # None => valid[i] # 0

(* An inode has at most one slot. *)
OneSlot == \A i, j \in Slots :
               refs[i] > 0 /\ refs[j] > 0 /\ inum[i] = inum[j] => i = j

PlaceInv == \A p \in Procs : PlaceOK(p)

CountInv == TypeOK /\ PlaceInv /\ RefsCounted /\ LockInv /\ BackedInv /\ SlotInv /\ OneSlot

-----------------------------------------------------------------------------
(* Data marked valid is that of the slot's inode, agrees with the disk and *)
(* is in use.                                                              *)
ValidInv == \A i \in Slots : valid[i] # 0 =>
               /\ refs[i] > 0 /\ valid[i] = inum[i]
               /\ din[i] = dino[inum[i]] /\ din[i].itype # "Empty"

(* An inode that put has freed is empty until its slot is given up. *)
FreedInv == \A q \in Procs : \A i \in Slots : Freeing(q, i) =>
               valid[i] = 0 /\ dino[inum[i]].itype = "Empty"

(* Where a call has an inode from inode_alloc, and its slot. *)
FreshAt(p) == /\ fresh[p] # 0 => pc[p] \in {"get", "new", "fill"}
              /\ pc[p] \in {"new", "fill"} => inum[ino[p]] = fresh[p] /\ drops[p] = <<>>
FreshInv == \A p \in Procs : FreshAt(p)

(* Who keeps an inode that has no links. *)
OrphanInv == \A n \in Inums : dino[n].itype # "Empty" /\ dino[n].nlink = 0 =>
                \/ \E p \in Procs : fresh[p] = n
                \/ \E i \in Slots : valid[i] = n
LiveInv == ValidInv /\ FreedInv /\ FreshInv /\ OrphanInv
DataInv == panicked = None /\ "reuse" \notin slips => LiveInv

-----------------------------------------------------------------------------
(***************************************************************************)
(* Lemmas about the operators of the model and about counting.             *)
(***************************************************************************)

(* A nonempty set of naturals has a least element, which First gives. *)
LEMMA FirstIn == ASSUME NEW S, S \subseteq Nat, S # {} PROVE First(S) \in S
<1>1. \E x \in S : \A y \in S : ~(<<y, x>> \in OpToRel(<, Nat))
  BY NatLessThanWellFounded, WFMin
<1>2. PICK x \in S : \A y \in S : ~(<<y, x>> \in OpToRel(<, Nat))  BY <1>1
<1>3. ASSUME NEW y \in S PROVE x <= y
  <2>1. <<y, x>> \in Nat \X Nat /\ x \in Nat /\ y \in Nat  OBVIOUS
  <2>2. ~(y < x)  BY <1>2, <2>1 DEF OpToRel
  <2> QED  BY <2>1, <2>2
<1> QED  BY <1>3 DEF First

(* Overwriting a place of a sequence leaves a sequence. *)
LEMMA PutInSeq ==
  ASSUME NEW S, NEW s \in Seq(S), NEW e \in S, NEW n
  PROVE  [s EXCEPT ![n] = e] \in Seq(S)
<1> DEFINE t == [s EXCEPT ![n] = e]
<1>1. Len(s) \in Nat /\ DOMAIN s = 1 .. Len(s)  OBVIOUS
<1>2. s \in [1 .. Len(s) -> S]  OBVIOUS
<1>3. t \in [1 .. Len(s) -> S]  BY <1>2
<1> QED  BY <1>1, <1>3

(* Sequences with the same elements are the same. *)
LEMMA SameSeq ==
  ASSUME NEW S, NEW s \in Seq(S), NEW t \in Seq(S), Len(s) = Len(t),
         \A n \in 1 .. Len(s) : s[n] = t[n]
  PROVE  s = t
OBVIOUS

(* The count of a slot goes down. *)
LEMMA RefsFall ==
  ASSUME NEW j, refs \in [Slots -> Int], refs' = [refs EXCEPT ![j] = refs[j] - 1]
  PROVE  /\ refs' \in [Slots -> Int]
         /\ \A i \in Slots : refs'[i] = IF i = j THEN refs[i] - 1 ELSE refs[i]
<1>1. CASE j \in Slots
  <2>1. refs[j] - 1 \in Int  BY <1>1
  <2> QED  BY <1>1, <2>1
<1>2. CASE j \notin Slots
  <2>1. refs' = refs  BY <1>2
  <2> QED  BY <1>2, <2>1
<1> QED  BY <1>1, <1>2

(* What is counted in a queue is counted at its head or in its tail. *)
LEMMA TailCount ==
  ASSUME NEW S, NEW s \in Seq(S), s # <<>>, Len(s) <= 8, NEW i, NEW K
  PROVE  InQueue(s, i, K) = One(Head(s), i, K) + InQueue(Tail(s), i, K)
<1>1. Len(s) \in Nat \ {0} /\ Len(Tail(s)) = Len(s) - 1 /\ Head(s) = s[1]  OBVIOUS
<1>2. At(s, 1, i, K) = One(Head(s), i, K)  BY <1>1 DEF At, One
<1>3. ASSUME NEW n \in 1 .. 8 PROVE At(s, n + 1, i, K) = At(Tail(s), n, i, K)
  <2>1. n <= Len(Tail(s)) => Tail(s)[n] = s[n + 1]  BY <1>1
  <2>2. n <= Len(Tail(s)) <=> n + 1 <= Len(s)  BY <1>1
  <2> QED  BY <2>1, <2>2 DEF At
<1>4. At(s, 9, i, K) = 0  BY <1>1 DEF At
<1>5. \A n \in 1 .. 9 : At(s, n, i, K) \in Int  BY DEF At
<1>6. /\ At(s, 2, i, K) = At(Tail(s), 1, i, K) /\ At(s, 3, i, K) = At(Tail(s), 2, i, K)
      /\ At(s, 4, i, K) = At(Tail(s), 3, i, K) /\ At(s, 5, i, K) = At(Tail(s), 4, i, K)
      /\ At(s, 6, i, K) = At(Tail(s), 5, i, K) /\ At(s, 7, i, K) = At(Tail(s), 6, i, K)
      /\ At(s, 8, i, K) = At(Tail(s), 7, i, K) /\ At(s, 9, i, K) = At(Tail(s), 8, i, K)
  BY <1>3
<1>7. PICK a \in Int, b \in Int, c \in Int, d \in Int, e \in Int, f \in Int, g \in Int,
           h \in Int :
        /\ a = At(s, 1, i, K) /\ b = At(s, 2, i, K) /\ c = At(s, 3, i, K)
        /\ d = At(s, 4, i, K) /\ e = At(s, 5, i, K) /\ f = At(s, 6, i, K)
        /\ g = At(s, 7, i, K) /\ h = At(s, 8, i, K)
  <2>1. /\ At(s, 1, i, K) \in Int /\ At(s, 2, i, K) \in Int /\ At(s, 3, i, K) \in Int
        /\ At(s, 4, i, K) \in Int /\ At(s, 5, i, K) \in Int /\ At(s, 6, i, K) \in Int
        /\ At(s, 7, i, K) \in Int /\ At(s, 8, i, K) \in Int
    BY <1>5
  <2> QED  BY <2>1, Zenon
<1>8. InQueue(s, i, K) = a + b + c + d + e + f + g + h  BY <1>7, Zenon DEF InQueue
<1>9. InQueue(Tail(s), i, K) = b + c + d + e + f + g + h + 0
  BY <1>4, <1>6, <1>7, Zenon DEF InQueue
<1>10. a + b + c + d + e + f + g + h = a + (b + c + d + e + f + g + h + 0)  OBVIOUS
<1> QED  BY <1>2, <1>7, <1>8, <1>9, <1>10, Zenon

(* Nothing is counted in an empty queue. *)
LEMMA NoneCount == ASSUME NEW i, NEW K PROVE InQueue(<<>>, i, K) = 0
<1>1. \A n \in 1 .. 8 : At(<<>>, n, i, K) = 0  BY Len(<<>>) = 0 DEF At
<1> QED  BY <1>1 DEF InQueue

(* An item in front of a queue. *)
LEMMA PushCount ==
  ASSUME NEW S, NEW x \in S, NEW s \in Seq(S), Len(s) <= 7, NEW i, NEW K
  PROVE  InQueue(<<x>> \o s, i, K) = One(x, i, K) + InQueue(s, i, K)
<1> DEFINE t == <<x>> \o s
<1>1. t \in Seq(S) /\ Len(t) = Len(s) + 1 /\ t # <<>>  OBVIOUS
<1>2. Head(t) = x /\ Tail(t) = s
  <2>1. Head(t) = x  OBVIOUS
  <2>2. Tail(t) \in Seq(S) /\ Len(Tail(t)) = Len(s)  BY <1>1
  <2>3. \A n \in 1 .. Len(s) : Tail(t)[n] = s[n]  BY <1>1
  <2> QED  BY <2>1, <2>2, <2>3
<1> HIDE DEF t
<1>3. Len(t) <= 8  BY <1>1
<1>4. InQueue(t, i, K) = One(Head(t), i, K) + InQueue(Tail(t), i, K)  BY <1>1, <1>3, TailCount
<1> QED  BY <1>2, <1>4 DEF t

(* A count is a natural number. *)
LEMMA CountNat == ASSUME NEW s, NEW i, NEW K PROVE InQueue(s, i, K) \in Nat
<1>1. \A n \in 1 .. 8 : At(s, n, i, K) \in {0, 1}  BY DEF At
<1> QED  BY <1>1 DEF InQueue

(* The elements of a set up to one more number. *)
LEMMA UpTo ==
  ASSUME NEW X, NEW n \in Nat
  PROVE  /\ IsFiniteSet(X \cap (1 .. n))
         /\ Cardinality(X \cap (1 .. n)) \in Nat
         /\ Cardinality(X \cap (1 .. (n + 1)))
            = Cardinality(X \cap (1 .. n)) + Bit((n + 1) \in X)
<1>1. IsFiniteSet(1 .. n)  BY FS_Interval
<1>2. IsFiniteSet(X \cap (1 .. n)) /\ Cardinality(X \cap (1 .. n)) \in Nat
  BY <1>1, FS_Subset, FS_CardinalityType
<1>3. 1 .. (n + 1) = (1 .. n) \cup {n + 1} /\ (n + 1) \notin 1 .. n  OBVIOUS
<1>4. CASE (n + 1) \in X
  <2>1. X \cap (1 .. (n + 1)) = (X \cap (1 .. n)) \cup {n + 1}  BY <1>3, <1>4
  <2>2. (n + 1) \notin X \cap (1 .. n)  BY <1>3
  <2> QED  BY <1>2, <1>4, <2>1, <2>2, FS_AddElement DEF Bit
<1>5. CASE (n + 1) \notin X
  <2>1. X \cap (1 .. (n + 1)) = X \cap (1 .. n)  BY <1>3, <1>5
  <2> QED  BY <1>2, <1>5, <2>1 DEF Bit
<1> QED  BY <1>2, <1>4, <1>5

(* Sets of at most five and of at most eight numbers. *)
LEMMA SmallSets ==
  ASSUME NEW X
  PROVE  /\ Cardinality(X \cap (1 .. 5))
            = Bit(1 \in X) + Bit(2 \in X) + Bit(3 \in X) + Bit(4 \in X) + Bit(5 \in X)
         /\ Cardinality(X \cap (1 .. 8))
            = Bit(1 \in X) + Bit(2 \in X) + Bit(3 \in X) + Bit(4 \in X) + Bit(5 \in X)
              + Bit(6 \in X) + Bit(7 \in X) + Bit(8 \in X)
<1> DEFINE C(n) == Cardinality(X \cap (1 .. n))
<1>1. C(0) = 0
  <2>1. X \cap (1 .. 0) = {}  OBVIOUS
  <2> QED  BY <2>1, FS_EmptySet
<1>2. \A n \in Nat : C(n + 1) = C(n) + Bit((n + 1) \in X) /\ C(n) \in Nat  BY UpTo
<1> HIDE DEF C
<1>3. /\ C(1) = C(0) + Bit(1 \in X) /\ C(2) = C(1) + Bit(2 \in X)
      /\ C(3) = C(2) + Bit(3 \in X) /\ C(4) = C(3) + Bit(4 \in X)
      /\ C(5) = C(4) + Bit(5 \in X) /\ C(6) = C(5) + Bit(6 \in X)
      /\ C(7) = C(6) + Bit(7 \in X) /\ C(8) = C(7) + Bit(8 \in X)
  <2>1. C(0 + 1) = C(0) + Bit((0 + 1) \in X)  BY <1>2
  <2>2. C(1 + 1) = C(1) + Bit((1 + 1) \in X)  BY <1>2
  <2>3. C(2 + 1) = C(2) + Bit((2 + 1) \in X)  BY <1>2
  <2>4. C(3 + 1) = C(3) + Bit((3 + 1) \in X)  BY <1>2
  <2>5. C(4 + 1) = C(4) + Bit((4 + 1) \in X)  BY <1>2
  <2>6. C(5 + 1) = C(5) + Bit((5 + 1) \in X)  BY <1>2
  <2>7. C(6 + 1) = C(6) + Bit((6 + 1) \in X)  BY <1>2
  <2>8. C(7 + 1) = C(7) + Bit((7 + 1) \in X)  BY <1>2
  <2>9. 0 + 1 = 1 /\ 1 + 1 = 2 /\ 2 + 1 = 3 /\ 3 + 1 = 4 /\ 4 + 1 = 5 /\ 5 + 1 = 6
        /\ 6 + 1 = 7 /\ 7 + 1 = 8  OBVIOUS
  <2> QED  BY <2>1, <2>2, <2>3, <2>4, <2>5, <2>6, <2>7, <2>8, <2>9, Zenon
<1>4. \A n \in 1 .. 8 : Bit(n \in X) \in Int  BY DEF Bit
<1>5. PICK a \in Int, b \in Int, c \in Int, d \in Int, e \in Int, f \in Int, g \in Int,
           h \in Int :
        /\ a = Bit(1 \in X) /\ b = Bit(2 \in X) /\ c = Bit(3 \in X) /\ d = Bit(4 \in X)
        /\ e = Bit(5 \in X) /\ f = Bit(6 \in X) /\ g = Bit(7 \in X) /\ h = Bit(8 \in X)
  <2>1. /\ Bit(1 \in X) \in Int /\ Bit(2 \in X) \in Int /\ Bit(3 \in X) \in Int
        /\ Bit(4 \in X) \in Int /\ Bit(5 \in X) \in Int /\ Bit(6 \in X) \in Int
        /\ Bit(7 \in X) \in Int /\ Bit(8 \in X) \in Int
    BY <1>4
  <2> QED  BY <2>1, Zenon
<1>6. C(1) = 0 + a /\ C(2) = C(1) + b /\ C(3) = C(2) + c /\ C(4) = C(3) + d
      /\ C(5) = C(4) + e /\ C(6) = C(5) + f /\ C(7) = C(6) + g /\ C(8) = C(7) + h
  BY <1>1, <1>3, <1>5, Zenon
<1>7. C(5) = a + b + c + d + e /\ C(8) = a + b + c + d + e + f + g + h
  BY <1>6
<1> QED  BY <1>5, <1>7, Zenon DEF C

(* The row of p in a set of pairs. *)
RowOf(m, p, A) == {k \in 1 .. m : <<p, k>> \in A}

(* A and B are sets of pairs that differ in the row of p only. *)
RowsAgree(P, m, p, A, B) ==
    /\ A \subseteq P \X (1 .. m)
    /\ B \subseteq P \X (1 .. m)
    /\ \A q \in P : \A k \in 1 .. m : q # p => (<<q, k>> \in A <=> <<q, k>> \in B)

(* Their cardinalities differ as those of the rows do. *)
RowsMove(m, p, A, B) ==
    /\ Cardinality(A) \in Nat /\ Cardinality(B) \in Nat
    /\ Cardinality(RowOf(m, p, A)) \in Nat
    /\ Cardinality(RowOf(m, p, B)) \in Nat
    /\ Cardinality(B) + Cardinality(RowOf(m, p, A))
       = Cardinality(A) + Cardinality(RowOf(m, p, B))

(* A set of pairs that changes at one first component only. *)
LEMMA PairsChange ==
  ASSUME NEW P, IsFiniteSet(P), NEW m \in Nat, NEW p \in P, NEW A, NEW B,
         RowsAgree(P, m, p, A, B)
  PROVE  RowsMove(m, p, A, B)
<1> USE DEF RowsAgree
<1> DEFINE Row(X) == RowOf(m, p, X)
           Rest(X) == {x \in X : x[1] # p}
<1>1. IsFiniteSet(1 .. m)  BY FS_Interval
<1>2. IsFiniteSet(P \X (1 .. m))  BY <1>1, FS_Product
<1>3. ASSUME NEW X, X \subseteq P \X (1 .. m)
      PROVE  /\ IsFiniteSet(X) /\ Cardinality(X) \in Nat /\ Cardinality(Row(X)) \in Nat
             /\ Cardinality(Rest(X)) \in Nat
             /\ Cardinality(X) = Cardinality(Rest(X)) + Cardinality(Row(X))
  <2>1. IsFiniteSet(X) /\ IsFiniteSet(Rest(X))  BY <1>2, <1>3, FS_Subset
  <2>2. Row(X) \subseteq 1 .. m  BY DEF RowOf
  <2>3. IsFiniteSet(Row(X)) /\ Cardinality(Row(X)) \in Nat  BY <1>1, <2>2, FS_Subset, FS_CardinalityType
  <2>4. IsFiniteSet({p}) /\ Cardinality({p}) = 1  BY FS_Singleton
  <2>5. IsFiniteSet({p} \X Row(X)) /\ Cardinality({p} \X Row(X)) = 1 * Cardinality(Row(X))
    BY <2>3, <2>4, FS_Product
  <2>6. Cardinality({p} \X Row(X)) = Cardinality(Row(X))  BY <2>3, <2>5
  <2>7. X = Rest(X) \cup ({p} \X Row(X))
    <3>1. ASSUME NEW x \in X PROVE x \in Rest(X) \cup ({p} \X Row(X))
      <4>1. PICK q \in P, k \in 1 .. m : x = <<q, k>>  BY <1>3
      <4> QED  BY <4>1 DEF RowOf
    <3>2. ASSUME NEW x \in Rest(X) \cup ({p} \X Row(X)) PROVE x \in X
      <4>1. CASE x \in {p} \X Row(X)
        <5>1. PICK k \in Row(X) : x = <<p, k>>  BY <4>1
        <5> QED  BY <5>1 DEF RowOf
      <4> QED  BY <4>1
    <3> QED  BY <3>1, <3>2
  <2>8. Rest(X) \cap ({p} \X Row(X)) = {}  OBVIOUS
  <2>9. Cardinality({}) = 0  BY FS_EmptySet
  <2>10. Cardinality(Rest(X)) \in Nat /\ Cardinality(X) \in Nat  BY <2>1, FS_CardinalityType
  <2> HIDE DEF Row, Rest
  <2>11. Cardinality(Rest(X) \cup ({p} \X Row(X)))
         = Cardinality(Rest(X)) + Cardinality({p} \X Row(X)) - Cardinality(Rest(X) \cap ({p} \X Row(X)))
    BY <2>1, <2>5, FS_Union
  <2>12. Cardinality(X) = Cardinality(Rest(X)) + Cardinality(Row(X)) - 0
    BY <2>6, <2>7, <2>8, <2>9, <2>11, Zenon
  <2> QED  BY <2>1, <2>3, <2>10, <2>12
<1>4. Rest(A) = Rest(B)
  <2>1. ASSUME NEW x \in P \X (1 .. m), x[1] # p PROVE x \in A <=> x \in B
    <3>1. PICK q \in P, k \in 1 .. m : x = <<q, k>>  OBVIOUS
    <3> QED  BY <2>1, <3>1
  <2> QED  BY <2>1
<1> HIDE DEF Row, Rest
<1>5. Cardinality(B) + Cardinality(Row(A)) = Cardinality(A) + Cardinality(Row(B))
  <2>1. Cardinality(A) = Cardinality(Rest(A)) + Cardinality(Row(A))  BY <1>3
  <2>2. Cardinality(B) = Cardinality(Rest(A)) + Cardinality(Row(B))  BY <1>3, <1>4
  <2>3. PICK a \in Nat, b \in Nat, r \in Nat :
          a = Cardinality(Row(A)) /\ b = Cardinality(Row(B)) /\ r = Cardinality(Rest(A))
    <3>1. Cardinality(Row(A)) \in Nat /\ Cardinality(Row(B)) \in Nat /\ Cardinality(Rest(A)) \in Nat
      BY <1>3
    <3> QED  BY <3>1, Zenon
  <2>4. (r + b) + a = (r + a) + b  OBVIOUS
  <2> QED  BY <2>1, <2>2, <2>3, <2>4, Zenon
<1> QED  BY <1>3, <1>5 DEF Row, RowsMove

(* The handles of p among those in variables, and among those in queues. *)
LEMMA HeldRow ==
  ASSUME NEW C, NEW N, NEW O, NEW W, NEW F, NEW p \in Procs, NEW i
  PROVE  Cardinality({k \in 1 .. 5 : <<p, k>> \in
             {h \in Procs \X (1 .. 5) : <<C, N, O, W, F>>[h[2]][h[1]] = i}})
         = InVars(C[p], N[p], O[p], W[p], F[p], i)
<1> DEFINE X == {k \in 1 .. 5 : <<p, k>> \in
                    {h \in Procs \X (1 .. 5) : <<C, N, O, W, F>>[h[2]][h[1]] = i}}
<1>1. ASSUME NEW k \in 1 .. 5 PROVE k \in X <=> <<C, N, O, W, F>>[k][p] = i  OBVIOUS
<1>2. X \cap (1 .. 5) = X  OBVIOUS
<1> HIDE DEF X
<1>3. /\ 1 \in X <=> C[p] = i
      /\ 2 \in X <=> N[p] = i
      /\ 3 \in X <=> O[p] = i
      /\ 4 \in X <=> W[p] = i
      /\ 5 \in X <=> F[p] = i
  BY <1>1
<1>4. Cardinality(X) = Bit(1 \in X) + Bit(2 \in X) + Bit(3 \in X) + Bit(4 \in X) + Bit(5 \in X)
  BY <1>2, SmallSets
<1>5. /\ Bit(1 \in X) = Bit(C[p] = i)
      /\ Bit(2 \in X) = Bit(N[p] = i)
      /\ Bit(3 \in X) = Bit(O[p] = i)
      /\ Bit(4 \in X) = Bit(W[p] = i)
      /\ Bit(5 \in X) = Bit(F[p] = i)
  BY <1>3 DEF Bit
<1> QED  BY <1>4, <1>5, Zenon DEF X, InVars

(* The same for queues. *)
LEMMA DroppedRow ==
  ASSUME NEW D, NEW p \in Procs, NEW i
  PROVE  Cardinality({k \in 1 .. 8 : <<p, k>> \in {h \in Procs \X (1 .. 8) :
             /\ h[2] <= Len(D[h[1]])
             /\ D[h[1]][h[2]].i = i
             /\ D[h[1]][h[2]].k \in {"ref", "trunc", "deref"}}})
         = InQueue(D[p], i, Refers)
<1> DEFINE X == {k \in 1 .. 8 : <<p, k>> \in {h \in Procs \X (1 .. 8) :
                    /\ h[2] <= Len(D[h[1]])
                    /\ D[h[1]][h[2]].i = i
                    /\ D[h[1]][h[2]].k \in {"ref", "trunc", "deref"}}}
<1>1. ASSUME NEW k \in 1 .. 8
      PROVE  k \in X <=> k <= Len(D[p]) /\ D[p][k].i = i /\ D[p][k].k \in Refers
  BY DEF Refers
<1>2. X \cap (1 .. 8) = X  OBVIOUS
<1> HIDE DEF X
<1>3. ASSUME NEW k \in 1 .. 8 PROVE Bit(k \in X) = At(D[p], k, i, Refers)
  BY <1>1 DEF Bit, At
<1>4. Cardinality(X) = Bit(1 \in X) + Bit(2 \in X) + Bit(3 \in X) + Bit(4 \in X) + Bit(5 \in X)
                       + Bit(6 \in X) + Bit(7 \in X) + Bit(8 \in X)
  BY <1>2, SmallSets
<1>5. /\ Bit(1 \in X) = At(D[p], 1, i, Refers) /\ Bit(2 \in X) = At(D[p], 2, i, Refers)
      /\ Bit(3 \in X) = At(D[p], 3, i, Refers) /\ Bit(4 \in X) = At(D[p], 4, i, Refers)
      /\ Bit(5 \in X) = At(D[p], 5, i, Refers) /\ Bit(6 \in X) = At(D[p], 6, i, Refers)
      /\ Bit(7 \in X) = At(D[p], 7, i, Refers) /\ Bit(8 \in X) = At(D[p], 8, i, Refers)
  BY <1>3
<1> QED  BY <1>4, <1>5, Zenon DEF X, InQueue

(* A step of p leaves what the other processes have. *)
OthersSame(p) ==
    \A q \in Procs : q # p =>
        /\ pc'[q] = pc[q] /\ call'[q] = call[q] /\ path'[q] = path[q]
        /\ cur'[q] = cur[q] /\ ino'[q] = ino[q] /\ old'[q] = old[q]
        /\ fresh'[q] = fresh[q] /\ drops'[q] = drops[q]
        /\ cwd'[q] = cwd[q] /\ file'[q] = file[q]

(* How many handles p has got or given up in a step. *)
RefsFollow(p) ==
    \A i \in Slots : refs'[i] = refs[i] + Handles(p, i)' - Handles(p, i)

(* Counts stay exact if they follow what the process that steps does. *)
LEMMA RefsStep ==
  ASSUME TypeOK, TypeOK', NEW p \in Procs, OthersSame(p), RefsFollow(p), RefsCounted
  PROVE  RefsCounted'
<1> SUFFICES ASSUME NEW i \in Slots
             PROVE  refs'[i] = Cardinality(Held(i)') + Cardinality(Dropped(i)')
  BY DEF RefsCounted
<1>1. IsFiniteSet(Procs)  BY InodesAssumption
<1>2. ASSUME NEW q \in Procs, NEW k \in 1 .. 5, q # p
      PROVE  <<q, k>> \in Held(i) <=> <<q, k>> \in Held(i)'
  <2>1. <<q, k>> \in Held(i) <=> <<cur, ino, old, cwd, file>>[k][q] = i  BY DEF Held
  <2>2. <<q, k>> \in Held(i)' <=> <<cur', ino', old', cwd', file'>>[k][q] = i  BY DEF Held
  <2>3. cur'[q] = cur[q] /\ ino'[q] = ino[q] /\ old'[q] = old[q] /\ cwd'[q] = cwd[q] /\ file'[q] = file[q]
    BY <1>2 DEF OthersSame
  <2>4. k = 1 \/ k = 2 \/ k = 3 \/ k = 4 \/ k = 5  OBVIOUS
  <2> QED  BY <2>1, <2>2, <2>3, <2>4
<1>3. ASSUME NEW q \in Procs, NEW k \in 1 .. 8, q # p
      PROVE  <<q, k>> \in Dropped(i) <=> <<q, k>> \in Dropped(i)'
  <2>1. drops'[q] = drops[q]  BY <1>3 DEF OthersSame
  <2> QED  BY <2>1 DEF Dropped, Queued
<1>4. Held(i) \subseteq Procs \X (1 .. 5) /\ Held(i)' \subseteq Procs \X (1 .. 5)  BY DEF Held
<1>5. Dropped(i) \subseteq Procs \X (1 .. 8) /\ Dropped(i)' \subseteq Procs \X (1 .. 8)  BY DEF Dropped
<1> DEFINE HR == RowOf(5, p, Held(i))
           HRn == RowOf(5, p, Held(i)')
           DR == RowOf(8, p, Dropped(i))
           DRn == RowOf(8, p, Dropped(i)')
<1>6. /\ Cardinality(Held(i)) \in Nat /\ Cardinality(Held(i)') \in Nat
      /\ Cardinality(HR) \in Nat /\ Cardinality(HRn) \in Nat
      /\ Cardinality(Held(i)') + Cardinality(HR) = Cardinality(Held(i)) + Cardinality(HRn)
  <2> DEFINE A == Held(i)
             B == Held(i)'
  <2>1. A \subseteq Procs \X (1 .. 5) /\ B \subseteq Procs \X (1 .. 5)  BY <1>4
  <2>2. \A q \in Procs : \A k \in 1 .. 5 : q # p => (<<q, k>> \in A <=> <<q, k>> \in B)
    BY <1>2
  <2> HIDE DEF A, B
  <2>3. RowsAgree(Procs, 5, p, A, B)  BY <2>1, <2>2 DEF RowsAgree
  <2>4. RowsMove(5, p, A, B)  BY <1>1, <2>3, PairsChange, 5 \in Nat
  <2> QED  BY <2>4, Zenon DEF A, B, RowsMove
<1>7. /\ Cardinality(Dropped(i)) \in Nat /\ Cardinality(Dropped(i)') \in Nat
      /\ Cardinality(DR) \in Nat /\ Cardinality(DRn) \in Nat
      /\ Cardinality(Dropped(i)') + Cardinality(DR) = Cardinality(Dropped(i)) + Cardinality(DRn)
  <2> DEFINE A == Dropped(i)
             B == Dropped(i)'
  <2>1. A \subseteq Procs \X (1 .. 8) /\ B \subseteq Procs \X (1 .. 8)  BY <1>5
  <2>2. \A q \in Procs : \A k \in 1 .. 8 : q # p => (<<q, k>> \in A <=> <<q, k>> \in B)
    BY <1>3
  <2> HIDE DEF A, B
  <2>3. RowsAgree(Procs, 8, p, A, B)  BY <2>1, <2>2 DEF RowsAgree
  <2>4. RowsMove(8, p, A, B)  BY <1>1, <2>3, PairsChange, 8 \in Nat
  <2> QED  BY <2>4, Zenon DEF A, B, RowsMove
<1>8. Cardinality(HR) = VarHandles(p, i)  BY HeldRow DEF Held, VarHandles, RowOf
<1>9. Cardinality(HRn) = VarHandles(p, i)'  BY HeldRow DEF Held, VarHandles, RowOf
<1>10. Cardinality(DR) = InQueue(drops[p], i, Refers)  BY DroppedRow DEF Dropped, Queued, RowOf
<1>11. Cardinality(DRn) = InQueue(drops'[p], i, Refers)  BY DroppedRow DEF Dropped, Queued, RowOf
<1>12. refs[i] = Cardinality(Held(i)) + Cardinality(Dropped(i))  BY DEF RefsCounted
<1>13. refs'[i] = refs[i] + Handles(p, i)' - Handles(p, i)  BY DEF RefsFollow
<1>14. /\ Handles(p, i) = Cardinality(HR) + Cardinality(DR)
       /\ Handles(p, i)' = Cardinality(HRn) + Cardinality(DRn)
  BY <1>8, <1>9, <1>10, <1>11, Zenon DEF Handles
<1> HIDE DEF HR, HRn, DR, DRn
<1>15. refs'[i] = Cardinality(Held(i)) + Cardinality(Dropped(i))
                  + (Cardinality(HRn) + Cardinality(DRn)) - (Cardinality(HR) + Cardinality(DR))
  BY <1>12, <1>13, <1>14, Zenon
<1>16. PICK a \in Nat, b \in Nat, c \in Nat, d \in Nat, an \in Nat, bn \in Nat, cn \in Nat,
            dn \in Nat :
        /\ a = Cardinality(Held(i)) /\ an = Cardinality(Held(i)') /\ b = Cardinality(HR)
        /\ bn = Cardinality(HRn) /\ c = Cardinality(Dropped(i))
        /\ cn = Cardinality(Dropped(i)') /\ d = Cardinality(DR) /\ dn = Cardinality(DRn)
  BY <1>6, <1>7, Zenon
<1>17. an + b = a + bn /\ cn + d = c + dn /\ refs'[i] = a + c + (bn + dn) - (b + d)
  BY <1>6, <1>7, <1>15, <1>16, Zenon
<1>18. a + c + (bn + dn) - (b + d) = an + cn  BY <1>17
<1> QED  BY <1>16, <1>17, <1>18, Zenon

(* The rows of two processes are disjoint. *)
LEMMA TwoRows ==
  ASSUME NEW P, IsFiniteSet(P), NEW m \in Nat, NEW p \in P, NEW A, A \subseteq P \X (1 .. m)
  PROVE  /\ Cardinality(RowOf(m, p, A)) \in Nat
         /\ Cardinality(A) \in Nat
         /\ Cardinality(RowOf(m, p, A)) <= Cardinality(A)
         /\ \A q \in P : q # p =>
              /\ Cardinality(RowOf(m, q, A)) \in Nat
              /\ Cardinality(RowOf(m, p, A))
                 + Cardinality(RowOf(m, q, A)) <= Cardinality(A)
<1> DEFINE B == {x \in A : x[1] # p}
<1>1. RowsAgree(P, m, p, A, B)
  <2>1. B \subseteq P \X (1 .. m)  OBVIOUS
  <2>2. ASSUME NEW q \in P, NEW k \in 1 .. m, q # p PROVE <<q, k>> \in A <=> <<q, k>> \in B
    BY <2>2
  <2> HIDE DEF B
  <2> QED  BY <2>1, <2>2 DEF RowsAgree
<1>2. RowsMove(m, p, A, B)  BY <1>1, PairsChange
<1>3. RowOf(m, p, B) = {}  BY DEF RowOf
<1>4. Cardinality(B) + Cardinality(RowOf(m, p, A)) = Cardinality(A)
  <2>1. Cardinality(RowOf(m, p, B)) = 0  BY <1>3, FS_EmptySet
  <2> HIDE DEF B
  <2> QED  BY <1>2, <2>1 DEF RowsMove
<1>5. ASSUME NEW q \in P, q # p
      PROVE  /\ Cardinality(RowOf(m, q, A)) \in Nat
             /\ Cardinality(RowOf(m, q, A)) <= Cardinality(B)
  <2> DEFINE C == {x \in B : x[1] # q}
  <2>1. RowsAgree(P, m, q, B, C)
    <3>1. C \subseteq P \X (1 .. m) /\ B \subseteq P \X (1 .. m)  OBVIOUS
    <3>2. ASSUME NEW r \in P, NEW k \in 1 .. m, r # q PROVE <<r, k>> \in B <=> <<r, k>> \in C
      BY <3>2
    <3> HIDE DEF B, C
    <3> QED  BY <3>1, <3>2 DEF RowsAgree
  <2>2. RowsMove(m, q, B, C)  BY <2>1, PairsChange
  <2>3. RowOf(m, q, C) = {}  BY DEF RowOf
  <2>4. RowOf(m, q, B) = RowOf(m, q, A)  BY <1>5 DEF RowOf
  <2>5. Cardinality(RowOf(m, q, C)) = 0  BY <2>3, FS_EmptySet
  <2> HIDE DEF B, C
  <2> QED  BY <2>2, <2>4, <2>5 DEF RowsMove
<1> HIDE DEF B
<1> QED  BY <1>2, <1>4, <1>5 DEF RowsMove

(* No process, and no two of them, have more handles than are counted. *)
LEMMA HandlesCounted ==
  ASSUME RefsCounted, NEW p \in Procs, NEW i \in Slots
  PROVE  /\ refs[i] \in Nat /\ Handles(p, i) \in Nat /\ Handles(p, i) <= refs[i]
         /\ \A q \in Procs : q # p => Handles(p, i) + Handles(q, i) <= refs[i]
<1>1. IsFiniteSet(Procs)  BY InodesAssumption
<1>2. Held(i) \subseteq Procs \X (1 .. 5) /\ Dropped(i) \subseteq Procs \X (1 .. 8)
  BY DEF Held, Dropped
<1>3. ASSUME NEW q \in Procs
      PROVE  /\ Cardinality(RowOf(5, q, Held(i))) = VarHandles(q, i)
             /\ Cardinality(RowOf(8, q, Dropped(i))) = InQueue(drops[q], i, Refers)
  <2>1. Cardinality(RowOf(5, q, Held(i))) = VarHandles(q, i)
    BY HeldRow DEF Held, VarHandles, RowOf
  <2>2. Cardinality(RowOf(8, q, Dropped(i))) = InQueue(drops[q], i, Refers)
    BY DroppedRow DEF Dropped, Queued, RowOf
  <2> QED  BY <2>1, <2>2
<1>4. refs[i] = Cardinality(Held(i)) + Cardinality(Dropped(i))  BY DEF RefsCounted
<1> DEFINE A == Held(i)
           B == Dropped(i)
           HA(q) == Cardinality(RowOf(5, q, A))
           HB(q) == Cardinality(RowOf(8, q, B))
<1>5. A \subseteq Procs \X (1 .. 5) /\ B \subseteq Procs \X (1 .. 8)  BY <1>2
<1> HIDE DEF A, B
<1>6. /\ HA(p) \in Nat /\ Cardinality(A) \in Nat /\ HA(p) <= Cardinality(A)
      /\ \A q \in Procs : q # p => HA(q) \in Nat /\ HA(p) + HA(q) <= Cardinality(A)
  BY <1>1, <1>5, TwoRows, 5 \in Nat
<1>7. /\ HB(p) \in Nat /\ Cardinality(B) \in Nat /\ HB(p) <= Cardinality(B)
      /\ \A q \in Procs : q # p => HB(q) \in Nat /\ HB(p) + HB(q) <= Cardinality(B)
  BY <1>1, <1>5, TwoRows, 8 \in Nat
<1>8. \A q \in Procs : HA(q) = VarHandles(q, i) /\ HB(q) = InQueue(drops[q], i, Refers)
  BY <1>3 DEF A, B
<1>9. refs[i] = Cardinality(A) + Cardinality(B)  BY <1>4 DEF A, B
<1> HIDE DEF HA, HB
<1>10. \A q \in Procs : Handles(q, i) = HA(q) + HB(q)  BY <1>8, Zenon DEF Handles
<1>11. Handles(p, i) = HA(p) + HB(p)  BY <1>10
<1>12. refs[i] \in Nat /\ Handles(p, i) \in Nat /\ Handles(p, i) <= refs[i]
  BY <1>6, <1>7, <1>9, <1>11
<1>13. ASSUME NEW q \in Procs, q # p PROVE Handles(p, i) + Handles(q, i) <= refs[i]
  <2>1. Handles(q, i) = HA(q) + HB(q)  BY <1>10
  <2>2. HA(q) \in Nat /\ HA(p) + HA(q) <= Cardinality(A)  BY <1>6, <1>13
  <2>3. HB(q) \in Nat /\ HB(p) + HB(q) <= Cardinality(B)  BY <1>7, <1>13
  <2> QED  BY <1>6, <1>7, <1>9, <1>11, <2>1, <2>2, <2>3
<1> QED  BY <1>12, <1>13

-----------------------------------------------------------------------------
(***************************************************************************)
(* Queues of things to drop.                                               *)
(***************************************************************************)

(* The items. *)
LEMMA ItemsAre ==
  ASSUME NEW j \in 0 .. NINODE
  PROVE  /\ Guard(j) \in Item /\ Ref(j) \in Item /\ Trunc(j) \in Item /\ Deref(j) \in Item
         /\ BeginOp \in Item /\ EndOp \in Item
BY InodesAssumption DEF Item, Guard, Ref, Trunc, Deref, BeginOp, EndOp

(* What an item counts for. *)
LEMMA OneIs ==
  ASSUME NEW j \in 0 .. NINODE, NEW i \in Slots
  PROVE  /\ One(Guard(j), i, Refers) = 0 /\ One(Guard(j), i, Claims) = Bit(j = i)
         /\ One(Ref(j), i, Refers) = Bit(j = i) /\ One(Ref(j), i, Claims) = 0
         /\ One(Trunc(j), i, Refers) = Bit(j = i) /\ One(Trunc(j), i, Claims) = Bit(j = i)
         /\ One(Deref(j), i, Refers) = Bit(j = i) /\ One(Deref(j), i, Claims) = 0
         /\ One(BeginOp, i, Refers) = 0 /\ One(BeginOp, i, Claims) = 0
         /\ One(EndOp, i, Refers) = 0 /\ One(EndOp, i, Claims) = 0
BY DEF One, Guard, Ref, Trunc, Deref, BeginOp, EndOp, Refers, Claims, Bit

(* Counting in short queues. *)
LEMMA Count1 ==
  ASSUME NEW a \in Item, NEW i, NEW K
  PROVE  <<a>> \in Seq(Item) /\ Len(<<a>>) = 1 /\ InQueue(<<a>>, i, K) = One(a, i, K)
<1> DEFINE s == <<a>>
<1>1. s \in Seq(Item) /\ Len(s) = 1 /\ s # <<>> /\ Head(s) = a  OBVIOUS
<1>2. Tail(s) = <<>>  OBVIOUS
<1> HIDE DEF s
<1>3. Len(s) <= 8  BY <1>1
<1>4. InQueue(s, i, K) = One(Head(s), i, K) + InQueue(Tail(s), i, K)  BY <1>1, <1>3, TailCount
<1>5. InQueue(Tail(s), i, K) = 0  BY <1>2, NoneCount
<1>6. One(a, i, K) \in Int  BY DEF One
<1>7. One(a, i, K) + 0 = One(a, i, K)  BY <1>6
<1> QED  BY <1>1, <1>4, <1>5, <1>7, Zenon DEF s

(* Two items. *)
LEMMA Count2 ==
  ASSUME NEW a \in Item, NEW b \in Item, NEW i, NEW K
  PROVE  /\ <<a, b>> \in Seq(Item) /\ Len(<<a, b>>) = 2
         /\ InQueue(<<a, b>>, i, K) = One(a, i, K) + One(b, i, K)
<1> DEFINE s == <<a, b>>
           t == <<b>>
<1>1. s \in Seq(Item) /\ Len(s) = 2 /\ s # <<>> /\ Head(s) = a  OBVIOUS
<1>2. Tail(s) = t
  <2>1. Tail(s) \in Seq(Item) /\ t \in Seq(Item) /\ Len(Tail(s)) = 1 /\ Len(t) = 1  OBVIOUS
  <2>2. ASSUME NEW n \in 1 .. 1 PROVE Tail(s)[n] = t[n]
    <3>1. Tail(s)[n] = s[n + 1]  BY <1>1
    <3> QED  BY <3>1
  <2> HIDE DEF s, t
  <2>3. Len(Tail(s)) = Len(t) /\ \A n \in 1 .. Len(Tail(s)) : Tail(s)[n] = t[n]  BY <2>1, <2>2
  <2> QED  BY <2>1, <2>3, SameSeq
<1>3. InQueue(t, i, K) = One(b, i, K)
  BY Count1
<1> HIDE DEF s, t
<1>4. Len(s) <= 8  BY <1>1
<1>5. InQueue(s, i, K) = One(Head(s), i, K) + InQueue(Tail(s), i, K)  BY <1>1, <1>4, TailCount
<1> QED  BY <1>1, <1>2, <1>3, <1>5, Zenon DEF s

(* Three items. *)
LEMMA Count3 ==
  ASSUME NEW a \in Item, NEW b \in Item, NEW c \in Item, NEW i, NEW K
  PROVE  /\ <<a, b, c>> \in Seq(Item) /\ Len(<<a, b, c>>) = 3
         /\ InQueue(<<a, b, c>>, i, K) = One(a, i, K) + (One(b, i, K) + One(c, i, K))
<1> DEFINE s == <<a, b, c>>
           t == <<b, c>>
<1>1. s \in Seq(Item) /\ Len(s) = 3 /\ s # <<>> /\ Head(s) = a  OBVIOUS
<1>2. Tail(s) = t
  <2>1. Tail(s) \in Seq(Item) /\ t \in Seq(Item) /\ Len(Tail(s)) = 2 /\ Len(t) = 2  OBVIOUS
  <2>2. ASSUME NEW n \in 1 .. 2 PROVE Tail(s)[n] = t[n]
    <3>1. Tail(s)[n] = s[n + 1]  BY <1>1
    <3> QED  BY <3>1
  <2> HIDE DEF s, t
  <2>3. Len(Tail(s)) = Len(t) /\ \A n \in 1 .. Len(Tail(s)) : Tail(s)[n] = t[n]  BY <2>1, <2>2
  <2> QED  BY <2>1, <2>3, SameSeq
<1>3. InQueue(t, i, K) = One(b, i, K) + One(c, i, K)
  BY Count2
<1> HIDE DEF s, t
<1>4. Len(s) <= 8  BY <1>1
<1>5. InQueue(s, i, K) = One(Head(s), i, K) + InQueue(Tail(s), i, K)  BY <1>1, <1>4, TailCount
<1> QED  BY <1>1, <1>2, <1>3, <1>5, Zenon DEF s

(* Four items. *)
LEMMA Count4 ==
  ASSUME NEW a \in Item, NEW b \in Item, NEW c \in Item, NEW d \in Item, NEW i, NEW K
  PROVE  /\ <<a, b, c, d>> \in Seq(Item) /\ Len(<<a, b, c, d>>) = 4
         /\ InQueue(<<a, b, c, d>>, i, K)
            = One(a, i, K) + (One(b, i, K) + (One(c, i, K) + One(d, i, K)))
<1> DEFINE s == <<a, b, c, d>>
           t == <<b, c, d>>
<1>1. s \in Seq(Item) /\ Len(s) = 4 /\ s # <<>> /\ Head(s) = a  OBVIOUS
<1>2. Tail(s) = t
  <2>1. Tail(s) \in Seq(Item) /\ t \in Seq(Item) /\ Len(Tail(s)) = 3 /\ Len(t) = 3  OBVIOUS
  <2>2. ASSUME NEW n \in 1 .. 3 PROVE Tail(s)[n] = t[n]
    <3>1. Tail(s)[n] = s[n + 1]  BY <1>1
    <3> QED  BY <3>1
  <2> HIDE DEF s, t
  <2>3. Len(Tail(s)) = Len(t) /\ \A n \in 1 .. Len(Tail(s)) : Tail(s)[n] = t[n]  BY <2>1, <2>2
  <2> QED  BY <2>1, <2>3, SameSeq
<1>3. InQueue(t, i, K) = One(b, i, K) + (One(c, i, K) + One(d, i, K))
  BY Count3
<1> HIDE DEF s, t
<1>4. Len(s) <= 8  BY <1>1
<1>5. InQueue(s, i, K) = One(Head(s), i, K) + InQueue(Tail(s), i, K)  BY <1>1, <1>4, TailCount
<1> QED  BY <1>1, <1>2, <1>3, <1>5, Zenon DEF s

(* Five items. *)
LEMMA Count5 ==
  ASSUME NEW a \in Item, NEW b \in Item, NEW c \in Item, NEW d \in Item, NEW e \in Item,
         NEW i, NEW K
  PROVE  /\ <<a, b, c, d, e>> \in Seq(Item) /\ Len(<<a, b, c, d, e>>) = 5
         /\ InQueue(<<a, b, c, d, e>>, i, K)
            = One(a, i, K) + (One(b, i, K) + (One(c, i, K) + (One(d, i, K) + One(e, i, K))))
<1> DEFINE s == <<a, b, c, d, e>>
           t == <<b, c, d, e>>
<1>1. s \in Seq(Item) /\ Len(s) = 5 /\ s # <<>> /\ Head(s) = a  OBVIOUS
<1>2. Tail(s) = t
  <2>1. Tail(s) \in Seq(Item) /\ t \in Seq(Item) /\ Len(Tail(s)) = 4 /\ Len(t) = 4  OBVIOUS
  <2>2. ASSUME NEW n \in 1 .. 4 PROVE Tail(s)[n] = t[n]
    <3>1. Tail(s)[n] = s[n + 1]  BY <1>1
    <3> QED  BY <3>1
  <2> HIDE DEF s, t
  <2>3. Len(Tail(s)) = Len(t) /\ \A n \in 1 .. Len(Tail(s)) : Tail(s)[n] = t[n]  BY <2>1, <2>2
  <2> QED  BY <2>1, <2>3, SameSeq
<1>3. InQueue(t, i, K) = One(b, i, K) + (One(c, i, K) + (One(d, i, K) + One(e, i, K)))
  BY Count4
<1> HIDE DEF s, t
<1>4. Len(s) <= 8  BY <1>1
<1>5. InQueue(s, i, K) = One(Head(s), i, K) + InQueue(Tail(s), i, K)  BY <1>1, <1>4, TailCount
<1> QED  BY <1>1, <1>2, <1>3, <1>5, Zenon DEF s

(* Six items. *)
LEMMA Count6 ==
  ASSUME NEW a \in Item, NEW b \in Item, NEW c \in Item, NEW d \in Item, NEW e \in Item,
         NEW f \in Item, NEW i, NEW K
  PROVE  /\ <<a, b, c, d, e, f>> \in Seq(Item) /\ Len(<<a, b, c, d, e, f>>) = 6
         /\ InQueue(<<a, b, c, d, e, f>>, i, K)
            = One(a, i, K) + (One(b, i, K) + (One(c, i, K)
              + (One(d, i, K) + (One(e, i, K) + One(f, i, K)))))
<1> DEFINE s == <<a, b, c, d, e, f>>
           t == <<b, c, d, e, f>>
<1>1. s \in Seq(Item) /\ Len(s) = 6 /\ s # <<>> /\ Head(s) = a  OBVIOUS
<1>2. Tail(s) = t
  <2>1. Tail(s) \in Seq(Item) /\ t \in Seq(Item) /\ Len(Tail(s)) = 5 /\ Len(t) = 5  OBVIOUS
  <2>2. ASSUME NEW n \in 1 .. 5 PROVE Tail(s)[n] = t[n]
    <3>1. Tail(s)[n] = s[n + 1]  BY <1>1
    <3> QED  BY <3>1
  <2> HIDE DEF s, t
  <2>3. Len(Tail(s)) = Len(t) /\ \A n \in 1 .. Len(Tail(s)) : Tail(s)[n] = t[n]  BY <2>1, <2>2
  <2> QED  BY <2>1, <2>3, SameSeq
<1>3. InQueue(t, i, K) = One(b, i, K) + (One(c, i, K) + (One(d, i, K) + (One(e, i, K) + One(f, i, K))))
  BY Count5
<1> HIDE DEF s, t
<1>4. Len(s) <= 8  BY <1>1
<1>5. InQueue(s, i, K) = One(Head(s), i, K) + InQueue(Tail(s), i, K)  BY <1>1, <1>4, TailCount
<1> QED  BY <1>1, <1>2, <1>3, <1>5, Zenon DEF s

(* The queue that Dropping leaves, and the slot that it unlocks, or 0. *)
After(s) == IF s # <<>> /\ Head(s).k = "guard" THEN Tail(s) ELSE s
Unlocked(s) == IF s # <<>> /\ Head(s).k = "guard" THEN Head(s).i ELSE 0

(* A guard that is dropped at once takes no handle with it. *)
LEMMA AfterCount ==
  ASSUME NEW s \in Seq(Item), Len(s) <= 8
  PROVE  /\ After(s) \in Seq(Item) /\ Len(After(s)) <= Len(s)
         /\ \A i \in Slots : /\ InQueue(After(s), i, Refers) = InQueue(s, i, Refers)
                             /\ InQueue(s, i, Claims)
                                = InQueue(After(s), i, Claims) + Bit(Unlocked(s) = i)
<1>1. CASE s # <<>> /\ Head(s).k = "guard"
  <2>1. After(s) = Tail(s) /\ Unlocked(s) = Head(s).i  BY <1>1 DEF After, Unlocked
  <2>2. Tail(s) \in Seq(Item) /\ Len(Tail(s)) <= Len(s)  BY <1>1
  <2>3. ASSUME NEW i \in Slots
        PROVE  /\ InQueue(After(s), i, Refers) = InQueue(s, i, Refers)
               /\ InQueue(s, i, Claims) = InQueue(After(s), i, Claims) + Bit(Unlocked(s) = i)
    <3>1. One(Head(s), i, Refers) = 0 /\ One(Head(s), i, Claims) = Bit(Head(s).i = i)
      BY <1>1 DEF One, Refers, Claims, Bit
    <3>2. /\ InQueue(s, i, Refers) = One(Head(s), i, Refers) + InQueue(Tail(s), i, Refers)
          /\ InQueue(s, i, Claims) = One(Head(s), i, Claims) + InQueue(Tail(s), i, Claims)
      BY <1>1, TailCount
    <3>3. InQueue(Tail(s), i, Refers) \in Nat /\ InQueue(Tail(s), i, Claims) \in Nat
      BY CountNat
    <3>4. Bit(Head(s).i = i) \in Nat  BY DEF Bit
    <3> QED  BY <2>1, <3>1, <3>2, <3>3, <3>4
  <2> QED  BY <2>1, <2>2, <2>3
<1>2. CASE ~(s # <<>> /\ Head(s).k = "guard")
  <2>1. After(s) = s /\ Unlocked(s) = 0  BY <1>2 DEF After, Unlocked
  <2>2. ASSUME NEW i \in Slots
        PROVE  /\ InQueue(After(s), i, Refers) = InQueue(s, i, Refers)
               /\ InQueue(s, i, Claims) = InQueue(After(s), i, Claims) + Bit(Unlocked(s) = i)
    <3>1. Bit(0 = i) = 0  BY InodesAssumption DEF Bit, Slots
    <3>2. InQueue(s, i, Claims) \in Nat  BY CountNat
    <3> QED  BY <2>1, <3>1, <3>2
  <2> QED  BY <2>1, <2>2
<1> QED  BY <1>1, <1>2

(* What is backed stays so when the head of the queue is gone. *)
LEMMA TailBacked ==
  ASSUME NEW s \in Seq(Item), s # <<>>, NEW V, Backed(s, V) PROVE Backed(Tail(s), V)
<1> SUFFICES ASSUME NEW n \in 1 .. Len(Tail(s)), Tail(s)[n].k = "guard"
             PROVE  \/ Tail(s)[n].i \in V
                    \/ \E m \in (n + 1) .. Len(Tail(s)) :
                          Tail(s)[m].i = Tail(s)[n].i /\ Tail(s)[m].k \in Refers
  BY DEF Backed
<1>1. Len(s) \in Nat /\ Len(Tail(s)) = Len(s) - 1  OBVIOUS
<1>2. \A m \in 1 .. Len(Tail(s)) : Tail(s)[m] = s[m + 1]  OBVIOUS
<1>3. n + 1 \in 1 .. Len(s) /\ s[n + 1].k = "guard" /\ Tail(s)[n] = s[n + 1]  BY <1>1, <1>2
<1>4. \/ s[n + 1].i \in V
      \/ \E m \in (n + 2) .. Len(s) : s[m].i = s[n + 1].i /\ s[m].k \in Refers
  BY <1>3 DEF Backed
<1>5. CASE \E m \in (n + 2) .. Len(s) : s[m].i = s[n + 1].i /\ s[m].k \in Refers
  <2>1. PICK m \in (n + 2) .. Len(s) : s[m].i = s[n + 1].i /\ s[m].k \in Refers  BY <1>5
  <2>2. m - 1 \in (n + 1) .. Len(Tail(s)) /\ Tail(s)[m - 1] = s[m]  BY <1>1, <1>2
  <2> QED  BY <1>3, <2>1, <2>2
<1> QED  BY <1>3, <1>4, <1>5

(* The same for what Dropping leaves. *)
LEMMA AfterBacked ==
  ASSUME NEW s \in Seq(Item), NEW V, Backed(s, V) PROVE Backed(After(s), V)
BY TailBacked DEF After

(* Queues put together. *)
LEMMA Concats ==
  ASSUME NEW a \in Item, NEW b \in Item, NEW c \in Item
  PROVE  /\ <<a>> \o <<b>> = <<a, b>>
         /\ <<a, b>> \o <<c>> = <<a, b, c>>
         /\ <<a, b, c>> \o <<>> = <<a, b, c>>
         /\ <<>> \o <<a, b, c>> = <<a, b, c>>
<1>1. <<a>> \o <<b>> = <<a, b>>
  <2> DEFINE x == <<a>>
             y == <<b>>
             z == <<a, b>>
  <2>1. x \in Seq(Item) /\ y \in Seq(Item) /\ z \in Seq(Item)  OBVIOUS
  <2>2. Len(x) = 1 /\ Len(y) = 1 /\ Len(z) = 2  OBVIOUS
  <2>3. ASSUME NEW n \in 1 .. 2 PROVE (x \o y)[n] = z[n]
    <3>1. (x \o y)[n] = IF n <= 1 THEN x[n] ELSE y[n - 1]  BY <2>1, <2>2
    <3> QED  BY <3>1
  <2> HIDE DEF x, y, z
  <2>4. (x \o y) \in Seq(Item) /\ Len(x \o y) = 2
    <3>1. (x \o y) \in Seq(Item) /\ Len(x \o y) = Len(x) + Len(y)  BY <2>1
    <3> QED  BY <2>2, <3>1
  <2>5. Len(x \o y) = Len(z) /\ \A n \in 1 .. Len(x \o y) : (x \o y)[n] = z[n]  BY <2>2, <2>3, <2>4
  <2>6. x \o y = z  BY <2>1, <2>4, <2>5, SameSeq
  <2> QED  BY <2>6 DEF x, y, z
<1>2. <<a, b>> \o <<c>> = <<a, b, c>>
  <2> DEFINE x == <<a, b>>
             y == <<c>>
             z == <<a, b, c>>
  <2>1. x \in Seq(Item) /\ y \in Seq(Item) /\ z \in Seq(Item)  OBVIOUS
  <2>2. Len(x) = 2 /\ Len(y) = 1 /\ Len(z) = 3  OBVIOUS
  <2>3. ASSUME NEW n \in 1 .. 3 PROVE (x \o y)[n] = z[n]
    <3>1. (x \o y)[n] = IF n <= 2 THEN x[n] ELSE y[n - 2]  BY <2>1, <2>2
    <3> QED  BY <3>1
  <2> HIDE DEF x, y, z
  <2>4. (x \o y) \in Seq(Item) /\ Len(x \o y) = 3
    <3>1. (x \o y) \in Seq(Item) /\ Len(x \o y) = Len(x) + Len(y)  BY <2>1
    <3> QED  BY <2>2, <3>1
  <2>5. Len(x \o y) = Len(z) /\ \A n \in 1 .. Len(x \o y) : (x \o y)[n] = z[n]  BY <2>2, <2>3, <2>4
  <2>6. x \o y = z  BY <2>1, <2>4, <2>5, SameSeq
  <2> QED  BY <2>6 DEF x, y, z
<1>3. <<a, b, c>> \o <<>> = <<a, b, c>>
  <2> DEFINE x == <<a, b, c>>
             y == <<>>
             z == <<a, b, c>>
  <2>1. x \in Seq(Item) /\ y \in Seq(Item) /\ z \in Seq(Item)  OBVIOUS
  <2>2. Len(x) = 3 /\ Len(y) = 0 /\ Len(z) = 3  OBVIOUS
  <2>3. ASSUME NEW n \in 1 .. 3 PROVE (x \o y)[n] = z[n]
    <3>1. (x \o y)[n] = IF n <= 3 THEN x[n] ELSE y[n - 3]  BY <2>1, <2>2
    <3> QED  BY <3>1
  <2> HIDE DEF x, y, z
  <2>4. (x \o y) \in Seq(Item) /\ Len(x \o y) = 3
    <3>1. (x \o y) \in Seq(Item) /\ Len(x \o y) = Len(x) + Len(y)  BY <2>1
    <3> QED  BY <2>2, <3>1
  <2>5. Len(x \o y) = Len(z) /\ \A n \in 1 .. Len(x \o y) : (x \o y)[n] = z[n]  BY <2>2, <2>3, <2>4
  <2>6. x \o y = z  BY <2>1, <2>4, <2>5, SameSeq
  <2> QED  BY <2>6 DEF x, y, z
<1>4. <<>> \o <<a, b, c>> = <<a, b, c>>
  <2> DEFINE x == <<>>
             y == <<a, b, c>>
             z == <<a, b, c>>
  <2>1. x \in Seq(Item) /\ y \in Seq(Item) /\ z \in Seq(Item)  OBVIOUS
  <2>2. Len(x) = 0 /\ Len(y) = 3 /\ Len(z) = 3  OBVIOUS
  <2>3. ASSUME NEW n \in 1 .. 3 PROVE (x \o y)[n] = z[n]
    <3>1. (x \o y)[n] = IF n <= 0 THEN x[n] ELSE y[n - 0]  BY <2>1, <2>2
    <3> QED  BY <3>1
  <2> HIDE DEF x, y, z
  <2>4. (x \o y) \in Seq(Item) /\ Len(x \o y) = 3
    <3>1. (x \o y) \in Seq(Item) /\ Len(x \o y) = Len(x) + Len(y)  BY <2>1
    <3> QED  BY <2>2, <3>1
  <2>5. Len(x \o y) = Len(z) /\ \A n \in 1 .. Len(x \o y) : (x \o y)[n] = z[n]  BY <2>2, <2>3, <2>4
  <2>6. x \o y = z  BY <2>1, <2>4, <2>5, SameSeq
  <2> QED  BY <2>6 DEF x, y, z
<1> QED  BY <1>1, <1>2, <1>3, <1>4

(* A pair before three items. *)
LEMMA Concat23 ==
  ASSUME NEW a \in Item, NEW b \in Item, NEW c \in Item, NEW d \in Item, NEW e \in Item
  PROVE  <<a, b>> \o <<c, d, e>> = <<a, b, c, d, e>>
<1> DEFINE x == <<a, b>>
           y == <<c, d, e>>
           z == <<a, b, c, d, e>>
<1>1. x \in Seq(Item) /\ y \in Seq(Item) /\ z \in Seq(Item)  OBVIOUS
<1>2. Len(x) = 2 /\ Len(y) = 3 /\ Len(z) = 5  OBVIOUS
<1>3. ASSUME NEW n \in 1 .. 5 PROVE (x \o y)[n] = z[n]
  <2>1. (x \o y)[n] = IF n <= 2 THEN x[n] ELSE y[n - 2]  BY <1>1, <1>2
  <2> QED  BY <2>1
<1> HIDE DEF x, y, z
<1>4. (x \o y) \in Seq(Item) /\ Len(x \o y) = 5
  <2>1. (x \o y) \in Seq(Item) /\ Len(x \o y) = Len(x) + Len(y)  BY <1>1
  <2> QED  BY <1>2, <2>1
<1>5. Len(x \o y) = Len(z) /\ \A n \in 1 .. Len(x \o y) : (x \o y)[n] = z[n]  BY <1>2, <1>3, <1>4
<1>6. x \o y = z  BY <1>1, <1>4, <1>5, SameSeq
<1> QED  BY <1>6 DEF x, y, z

(* Three items before a pair. *)
LEMMA Concat32 ==
  ASSUME NEW a \in Item, NEW b \in Item, NEW c \in Item, NEW d \in Item, NEW e \in Item
  PROVE  <<a, b, c>> \o <<d, e>> = <<a, b, c, d, e>>
<1> DEFINE x == <<a, b, c>>
           y == <<d, e>>
           z == <<a, b, c, d, e>>
<1>1. x \in Seq(Item) /\ y \in Seq(Item) /\ z \in Seq(Item)  OBVIOUS
<1>2. Len(x) = 3 /\ Len(y) = 2 /\ Len(z) = 5  OBVIOUS
<1>3. ASSUME NEW n \in 1 .. 5 PROVE (x \o y)[n] = z[n]
  <2>1. (x \o y)[n] = IF n <= 3 THEN x[n] ELSE y[n - 3]  BY <1>1, <1>2
  <2> QED  BY <2>1
<1> HIDE DEF x, y, z
<1>4. (x \o y) \in Seq(Item) /\ Len(x \o y) = 5
  <2>1. (x \o y) \in Seq(Item) /\ Len(x \o y) = Len(x) + Len(y)  BY <1>1
  <2> QED  BY <1>2, <2>1
<1>5. Len(x \o y) = Len(z) /\ \A n \in 1 .. Len(x \o y) : (x \o y)[n] = z[n]  BY <1>2, <1>3, <1>4
<1>6. x \o y = z  BY <1>1, <1>4, <1>5, SameSeq
<1> QED  BY <1>6 DEF x, y, z

(* Three items before three. *)
LEMMA Concat33 ==
  ASSUME NEW a \in Item, NEW b \in Item, NEW c \in Item, NEW d \in Item, NEW e \in Item,
         NEW f \in Item
  PROVE  <<a, b, c>> \o <<d, e, f>> = <<a, b, c, d, e, f>>
<1> DEFINE x == <<a, b, c>>
           y == <<d, e, f>>
           z == <<a, b, c, d, e, f>>
<1>1. x \in Seq(Item) /\ y \in Seq(Item) /\ z \in Seq(Item)  OBVIOUS
<1>2. Len(x) = 3 /\ Len(y) = 3 /\ Len(z) = 6  OBVIOUS
<1>3. ASSUME NEW n \in 1 .. 6 PROVE (x \o y)[n] = z[n]
  <2>1. (x \o y)[n] = IF n <= 3 THEN x[n] ELSE y[n - 3]  BY <1>1, <1>2
  <2> QED  BY <2>1
<1> HIDE DEF x, y, z
<1>4. (x \o y) \in Seq(Item) /\ Len(x \o y) = 6
  <2>1. (x \o y) \in Seq(Item) /\ Len(x \o y) = Len(x) + Len(y)  BY <1>1
  <2> QED  BY <1>2, <2>1
<1>5. Len(x \o y) = Len(z) /\ \A n \in 1 .. Len(x \o y) : (x \o y)[n] = z[n]  BY <1>2, <1>3, <1>4
<1>6. x \o y = z  BY <1>1, <1>4, <1>5, SameSeq
<1> QED  BY <1>6 DEF x, y, z

-----------------------------------------------------------------------------
(***************************************************************************)
(* Steps, seen from the counts.                                            *)
(***************************************************************************)

(* What Dropping does. *)
LEMMA DroppingIs ==
  ASSUME TypeOK, NEW p \in Procs, NEW s \in Seq(Item), Len(s) <= 8, Dropping(p, s)
  PROVE  /\ drops' = [drops EXCEPT ![p] = After(s)]
         /\ drops' \in [Procs -> Seq(Item)] /\ drops'[p] = After(s)
         /\ owner' \in [Slots -> Procs \cup {None}]
         /\ \A i \in Slots : owner'[i] = IF Unlocked(s) = i THEN None ELSE owner[i]
<1>1. drops \in [Procs -> Seq(Item)] /\ owner \in [Slots -> Procs \cup {None}]  BY DEF TypeOK
<1>2. After(s) \in Seq(Item)  BY AfterCount
<1>3. drops' = [drops EXCEPT ![p] = After(s)]  BY DEF Dropping, Queue, After
<1>4. drops' \in [Procs -> Seq(Item)] /\ drops'[p] = After(s)  BY <1>1, <1>2, <1>3
<1>5. CASE s # <<>> /\ Head(s).k = "guard"
  <2>1. owner' = [owner EXCEPT ![Head(s).i] = None] /\ Unlocked(s) = Head(s).i
    BY <1>5 DEF Dropping, Unlocked
  <2> QED  BY <1>1, <1>3, <1>4, <2>1
<1>6. CASE ~(s # <<>> /\ Head(s).k = "guard")
  <2>1. owner' = owner /\ Unlocked(s) = 0  BY <1>6 DEF Dropping, Unlocked
  <2>2. \A i \in Slots : i # 0  BY InodesAssumption DEF Slots
  <2> QED  BY <1>1, <1>3, <1>4, <2>1, <2>2
<1> QED  BY <1>5, <1>6

(* Only locks of p, or free ones, change hands. *)
OwnLocks(p) ==
    \A i \in Slots : \/ owner'[i] = owner[i]
                     \/ owner[i] \in {p, None} /\ owner'[i] \in {p, None}

(* A step of p keeps locks and guards in line. *)
LEMMA LockKeep ==
  ASSUME TypeOK, LockInv, NEW p \in Procs, OthersSame(p), OwnLocks(p),
         \A i \in Slots : Locks(p, i)' = Bit(owner'[i] = p)
  PROVE  LockInv'
<1> SUFFICES ASSUME NEW q \in Procs, NEW i \in Slots PROVE Locks(q, i)' = Bit(owner'[i] = q)
  BY DEF LockInv
<1>1. CASE q = p  BY <1>1
<1>2. CASE q # p
  <2>1. Locks(q, i)' = Locks(q, i)
    <3>1. pc'[q] = pc[q] /\ cur'[q] = cur[q] /\ ino'[q] = ino[q] /\ old'[q] = old[q]
          /\ drops'[q] = drops[q]
      BY <1>2 DEF OthersSame
    <3> QED  BY <3>1 DEF Locks, PlaceLocks
  <2>2. Locks(q, i) = Bit(owner[i] = q)  BY DEF LockInv
  <2>3. q # None  BY InodesAssumption
  <2>4. owner'[i] = q <=> owner[i] = q  BY <1>2, <2>3 DEF OwnLocks
  <2> QED  BY <2>1, <2>2, <2>4 DEF Bit
<1> QED  BY <1>1, <1>2

(* The locks of p are those of its new place and those it drops. *)
LockMoves(p, s) == \A i \in Slots : PlaceLocks(p, i)' + InQueue(s, i, Claims) = Locks(p, i)

(* A step that ends in Dropping. *)
LEMMA LockStep ==
  ASSUME TypeOK, LockInv, NEW p \in Procs, OthersSame(p),
         NEW s \in Seq(Item), Len(s) <= 8, Dropping(p, s), LockMoves(p, s)
  PROVE  LockInv'
<1>1. /\ drops'[p] = After(s)
      /\ \A i \in Slots : owner'[i] = IF Unlocked(s) = i THEN None ELSE owner[i]
  BY DroppingIs
<1>2. ASSUME NEW i \in Slots
      PROVE  /\ Locks(p, i)' = Bit(owner'[i] = p)
             /\ Unlocked(s) = i => owner[i] = p
  <2>1. InQueue(s, i, Claims) = InQueue(After(s), i, Claims) + Bit(Unlocked(s) = i)
    BY AfterCount
  <2>2. PlaceLocks(p, i)' + InQueue(s, i, Claims) = Locks(p, i)  BY DEF LockMoves
  <2>3. Locks(p, i) = Bit(owner[i] = p)  BY DEF LockInv
  <2>4. Locks(p, i)' = PlaceLocks(p, i)' + InQueue(After(s), i, Claims)  BY <1>1 DEF Locks
  <2>5. PICK a \in Nat, b \in Nat :
          a = PlaceLocks(p, i)' /\ b = InQueue(After(s), i, Claims)
    <3>1. InQueue(After(s), i, Claims) \in Nat  BY CountNat
    <3>2. PlaceLocks(p, i)' \in Nat  BY DEF PlaceLocks, AtPlace, Bit
    <3> QED  BY <3>1, <3>2, Zenon
  <2>6. a + (b + Bit(Unlocked(s) = i)) = Bit(owner[i] = p)  BY <2>1, <2>2, <2>3, <2>5, Zenon
  <2>7. owner'[i] = IF Unlocked(s) = i THEN None ELSE owner[i]  BY <1>1
  <2>8. p # None  BY InodesAssumption
  <2>9. a + b = Bit(owner'[i] = p) /\ (Unlocked(s) = i => owner[i] = p)
    BY <2>6, <2>7, <2>8 DEF Bit
  <2> QED  BY <2>4, <2>5, <2>9, Zenon
<1>3. OwnLocks(p)  BY <1>1, <1>2 DEF OwnLocks
<1> QED  BY <1>2, <1>3, LockKeep

(* The handles of p are those of its variables and those it drops. *)
RefsMove(p, s) ==
    \A i \in Slots : refs'[i] = refs[i] + (VarHandles(p, i)' + InQueue(s, i, Refers))
                                - Handles(p, i)

(* A step that ends in Dropping keeps the counts exact. *)
LEMMA RefsDrop ==
  ASSUME TypeOK, NEW p \in Procs, NEW s \in Seq(Item), Len(s) <= 8, Dropping(p, s),
         RefsMove(p, s)
  PROVE  RefsFollow(p)
<1>1. drops'[p] = After(s)  BY DroppingIs
<1> SUFFICES ASSUME NEW i \in Slots
             PROVE  refs'[i] = refs[i] + Handles(p, i)' - Handles(p, i)
  BY DEF RefsFollow
<1>2. InQueue(After(s), i, Refers) = InQueue(s, i, Refers)  BY AfterCount
<1>3. Handles(p, i)' = VarHandles(p, i)' + InQueue(s, i, Refers)
  BY <1>1, <1>2, Zenon DEF Handles
<1>4. refs'[i] = refs[i] + (VarHandles(p, i)' + InQueue(s, i, Refers)) - Handles(p, i)
  BY DEF RefsMove
<1> QED  BY <1>3, <1>4, Zenon

(* What is dropped stays backed. *)
LEMMA BackedStep ==
  ASSUME BackedInv, NEW p \in Procs, OthersSame(p),
         Backed(drops'[p], {cur'[p], old'[p], cwd'[p], file'[p]})
  PROVE  BackedInv'
<1> SUFFICES ASSUME NEW q \in Procs
             PROVE  Backed(drops'[q], {cur'[q], old'[q], cwd'[q], file'[q]})
  BY DEF BackedInv
<1>1. CASE q = p  BY <1>1
<1>2. CASE q # p
  <2>1. drops'[q] = drops[q] /\ cur'[q] = cur[q] /\ old'[q] = old[q] /\ cwd'[q] = cwd[q]
        /\ file'[q] = file[q]
    BY <1>2 DEF OthersSame
  <2>2. Backed(drops[q], {cur[q], old[q], cwd[q], file[q]})  BY DEF BackedInv
  <2> QED  BY <2>1, <2>2
<1> QED  BY <1>1, <1>2

(* The same for a step that ends in Dropping. *)
LEMMA BackedDrop ==
  ASSUME TypeOK, BackedInv, NEW p \in Procs, OthersSame(p),
         NEW s \in Seq(Item), Len(s) <= 8, Dropping(p, s),
         Backed(s, {cur'[p], old'[p], cwd'[p], file'[p]})
  PROVE  BackedInv'
<1>1. drops'[p] = After(s)  BY DroppingIs
<1>2. Backed(After(s), {cur'[p], old'[p], cwd'[p], file'[p]})  BY AfterBacked
<1> QED  BY <1>1, <1>2, BackedStep

-----------------------------------------------------------------------------
(***************************************************************************)
(* Types.  WalkOK is about what Return changes, RestOK about the rest.     *)
(***************************************************************************)
WalkOK == /\ owner \in [Slots -> Procs \cup {None}]
          /\ pc \in [Procs -> PCs]
          /\ DOMAIN call = Procs
          /\ path \in [Procs -> Seq(Names)]
          /\ cur \in [Procs -> 0 .. NINODE]
          /\ ino \in [Procs -> 0 .. NINODE]
          /\ old \in [Procs -> 0 .. NINODE]
          /\ fresh \in [Procs -> 0 .. NINUM]
          /\ drops \in [Procs -> Seq(Item)]
RestOK == /\ menu \in Menus
          /\ inum \in [Slots -> 0 .. NINUM]
          /\ refs \in [Slots -> Int]
          /\ valid \in [Slots -> 0 .. NINUM]
          /\ din \in [Slots -> Dinode]
          /\ dino \in [Inums -> Dinode]
          /\ ents \in [Inums -> Seq(DirEntry)]
          /\ cwd \in [Procs -> 0 .. NINODE]
          /\ file \in [Procs -> 0 .. NINODE]
          /\ inop \in [Procs -> BOOLEAN]
          /\ asserted \in BOOLEAN

(* The two make up the type invariant. *)
LEMMA TypeParts == TypeOK <=> WalkOK /\ RestOK
BY DEF TypeOK, WalkOK, RestOK

(* The two make up the type invariant of the next state. *)
LEMMA TypePartsNext == WalkOK' /\ RestOK' => TypeOK'
BY DEF TypeOK, WalkOK, RestOK

(* Other processes keep what Return changes. *)
WalkSame(p) ==
    \A q \in Procs : q # p =>
        /\ pc'[q] = pc[q] /\ call'[q] = call[q] /\ path'[q] = path[q]
        /\ cur'[q] = cur[q] /\ ino'[q] = ino[q] /\ old'[q] = old[q]
        /\ fresh'[q] = fresh[q] /\ drops'[q] = drops[q]

(* The state of p after a return. *)
Returned(p, s) ==
    /\ pc'[p] = "user" /\ drops'[p] = After(s)
    /\ cur'[p] = 0 /\ ino'[p] = 0 /\ old'[p] = 0 /\ path'[p] = <<>>
    /\ fresh' = fresh

(* What Return does. *)
LEMMA ReturnIs ==
  ASSUME TypeOK, NEW p \in Procs, NEW s \in Seq(Item), Len(s) <= 8, Return(p, s)
  PROVE  WalkOK' /\ WalkSame(p) /\ Returned(p, s) /\ Dropping(p, s)
<1> USE DEF Return, Goto
<1>1. Dropping(p, s)  OBVIOUS
<1>2. /\ drops' = [drops EXCEPT ![p] = After(s)]
      /\ drops' \in [Procs -> Seq(Item)] /\ drops'[p] = After(s)
      /\ owner' \in [Slots -> Procs \cup {None}]
  BY <1>1, DroppingIs
<1>3. 0 \in 0 .. NINODE  BY InodesAssumption
<1>4. WalkOK'
  <2>1. pc' \in [Procs -> PCs]  BY DEF TypeOK, PCs
  <2>2. DOMAIN call' = Procs  BY DEF TypeOK
  <2>3. path' \in [Procs -> Seq(Names)]
    <3>1. <<>> \in Seq(Names)  OBVIOUS
    <3> QED  BY <3>1 DEF TypeOK
  <2>4. cur' \in [Procs -> 0 .. NINODE]  BY <1>3 DEF TypeOK
  <2>5. ino' \in [Procs -> 0 .. NINODE]  BY <1>3 DEF TypeOK
  <2>6. old' \in [Procs -> 0 .. NINODE]  BY <1>3 DEF TypeOK
  <2>7. fresh' \in [Procs -> 0 .. NINUM]  BY DEF TypeOK
  <2> QED  BY <1>2, <2>1, <2>2, <2>3, <2>4, <2>5, <2>6, <2>7 DEF WalkOK
<1>5. WalkSame(p)
  <2>1. ASSUME NEW q \in Procs, q # p
        PROVE  /\ pc'[q] = pc[q] /\ call'[q] = call[q] /\ path'[q] = path[q]
               /\ cur'[q] = cur[q] /\ ino'[q] = ino[q] /\ old'[q] = old[q]
    BY <2>1 DEF TypeOK
  <2>2. ASSUME NEW q \in Procs, q # p PROVE fresh'[q] = fresh[q] /\ drops'[q] = drops[q]
    BY <1>2, <2>2 DEF TypeOK
  <2> QED  BY <2>1, <2>2 DEF WalkSame
<1>6. Returned(p, s)
  <2>1. pc'[p] = "user" /\ cur'[p] = 0 /\ ino'[p] = 0 /\ old'[p] = 0 /\ path'[p] = <<>>
    BY DEF TypeOK
  <2> QED  BY <1>2, <2>1 DEF Returned
<1> QED  BY <1>1, <1>4, <1>5, <1>6

(* What Dropping leaves when nothing else of a call changes. *)
LEMMA DropOthers ==
  ASSUME TypeOK, NEW p \in Procs, NEW s \in Seq(Item), Len(s) <= 8, Dropping(p, s)
  PROVE  \A q \in Procs : q # p => drops'[q] = drops[q]
<1>1. drops' = [drops EXCEPT ![p] = After(s)]  BY DroppingIs
<1>2. drops \in [Procs -> Seq(Item)]  BY DEF TypeOK
<1> QED  BY <1>1, <1>2

(* get returns a slot: one that holds the inode, or an unused one. *)
LEMMA GetIs ==
  ASSUME TypeOK, NEW n \in 0 .. NINUM, Get(n)
  PROVE  /\ GetSlot(n) \in Slots
         /\ inum' \in [Slots -> 0 .. NINUM] /\ refs' \in [Slots -> Int]
         /\ inum'[GetSlot(n)] = n /\ refs'[GetSlot(n)] = refs[GetSlot(n)] + 1
         /\ \A i \in Slots : i # GetSlot(n) => inum'[i] = inum[i] /\ refs'[i] = refs[i]
         /\ \/ refs[GetSlot(n)] > 0 /\ inum[GetSlot(n)] = n /\ panicked' = panicked
            \/ /\ \A i \in Slots : refs[i] > 0 => inum[i] # n
               /\ \/ refs[GetSlot(n)] = 0 /\ panicked' = panicked
                  \/ panicked' # None
<1>1. Slots \subseteq Nat /\ 1 \in Slots  BY InodesAssumption DEF Slots
<1>2. Holding(n) \subseteq Slots /\ FreeSlots \subseteq Slots  BY DEF Holding, FreeSlots
<1>3. Holding(n) # {} => First(Holding(n)) \in Holding(n)  BY <1>1, <1>2, FirstIn
<1>4. FreeSlots # {} => First(FreeSlots) \in FreeSlots  BY <1>1, <1>2, FirstIn
<1>5. GetSlot(n) \in Slots  BY <1>1, <1>2, <1>3, <1>4 DEF GetSlot
<1>6. /\ inum' \in [Slots -> 0 .. NINUM] /\ refs' \in [Slots -> Int]
      /\ inum'[GetSlot(n)] = n /\ refs'[GetSlot(n)] = refs[GetSlot(n)] + 1
      /\ \A i \in Slots : i # GetSlot(n) => inum'[i] = inum[i] /\ refs'[i] = refs[i]
  <2> DEFINE g == GetSlot(n)
  <2>1. inum' = [inum EXCEPT ![g] = n] /\ refs' = [refs EXCEPT ![g] = refs[g] + 1]  BY DEF Get
  <2>2. g \in Slots /\ inum \in [Slots -> 0 .. NINUM] /\ refs \in [Slots -> Int]
    BY <1>5 DEF TypeOK
  <2> HIDE DEF g
  <2>3. refs[g] + 1 \in Int  BY <2>2
  <2>4. inum' \in [Slots -> 0 .. NINUM] /\ inum'[g] = n
        /\ \A i \in Slots : i # g => inum'[i] = inum[i]
    BY <2>1, <2>2
  <2>5. refs' \in [Slots -> Int] /\ refs'[g] = refs[g] + 1
        /\ \A i \in Slots : i # g => refs'[i] = refs[i]
    BY <2>1, <2>2, <2>3
  <2> QED  BY <2>4, <2>5 DEF g
<1>7. CASE Holding(n) # {}
  <2>1. GetSlot(n) \in Holding(n)  BY <1>3, <1>7 DEF GetSlot
  <2>2. panicked' = panicked  BY <1>7 DEF Get
  <2> QED  BY <1>5, <1>6, <2>1, <2>2 DEF Holding
<1>8. CASE Holding(n) = {}
  <2>1. \A i \in Slots : refs[i] > 0 => inum[i] # n  BY <1>8 DEF Holding
  <2>2. CASE FreeSlots # {}
    <3>1. GetSlot(n) \in FreeSlots  BY <1>4, <1>8, <2>2 DEF GetSlot
    <3>2. panicked' = panicked  BY <2>2 DEF Get
    <3> QED  BY <1>5, <1>6, <2>1, <3>1, <3>2 DEF FreeSlots
  <2>3. CASE FreeSlots = {}
    <3>1. panicked' # None  BY <1>8, <2>3 DEF Get, None
    <3> QED  BY <1>5, <1>6, <2>1, <3>1
  <2> QED  BY <2>2, <2>3
<1> QED  BY <1>7, <1>8

(* dir_lookup returns an inum, or 0. *)
LEMMA LookupIs ==
  ASSUME TypeOK, NEW n \in Inums, NEW nm PROVE DirLookup(n, nm) \in 0 .. NINUM
<1>1. ents[n] \in Seq(DirEntry)  BY DEF TypeOK
<1>2. Matches(n, nm) \subseteq 1 .. Len(ents[n]) /\ Len(ents[n]) \in Nat  BY <1>1 DEF Matches
<1>3. CASE Matches(n, nm) = {}  BY <1>3, InodesAssumption DEF DirLookup
<1>4. CASE Matches(n, nm) # {}
  <2>1. First(Matches(n, nm)) \in 1 .. Len(ents[n])  BY <1>2, <1>4, FirstIn
  <2>2. ents[n][First(Matches(n, nm))] \in DirEntry  BY <1>1, <2>1
  <2> QED  BY <1>4, <2>2 DEF DirLookup, DirEntry
<1> QED  BY <1>3, <1>4

(* dir_link leaves a directory. *)
LEMMA LinkIs ==
  ASSUME NEW s \in Seq(DirEntry), NEW nm \in Names, NEW n \in 0 .. NINUM
  PROVE  DirLink(s, nm, n) \in Seq(DirEntry)
<1>1. Entry(nm, n) \in DirEntry  BY DEF Entry, DirEntry
<1> QED  BY <1>1, PutInSeq DEF DirLink

-----------------------------------------------------------------------------
(***************************************************************************)
(* The queues of the model: what they count for, and that guards in them   *)
(* are backed.                                                             *)
(***************************************************************************)
(* Ref(c). *)
LEMMA QueueR ==
  ASSUME NEW c \in 0 .. NINODE
  PROVE  /\ <<Ref(c)>> \in Seq(Item) /\ Len(<<Ref(c)>>) = 1
         /\ \A i \in Slots : /\ InQueue(<<Ref(c)>>, i, Refers) = Bit(c = i)
                             /\ InQueue(<<Ref(c)>>, i, Claims) = 0
         /\ \A V : Backed(<<Ref(c)>>, V)
<1> DEFINE s == <<Ref(c)>>
<1>1. Ref(c) \in Item
  BY ItemsAre, InodesAssumption
<1>2. s \in Seq(Item) /\ Len(s) = 1  BY <1>1, Count1
<1>3. ASSUME NEW i \in Slots
      PROVE  InQueue(s, i, Refers) = Bit(c = i) /\ InQueue(s, i, Claims) = 0
  <2>1. InQueue(s, i, Refers) = One(Ref(c), i, Refers)
    BY <1>1, Count1
  <2>2. InQueue(s, i, Claims) = One(Ref(c), i, Claims)
    BY <1>1, Count1
  <2>3. /\ One(Ref(c), i, Claims) = 0
        /\ One(Ref(c), i, Refers) = Bit(c = i)
    BY OneIs, InodesAssumption
  <2>4. InQueue(s, i, Refers) = Bit(c = i)
    BY <2>1, <2>3, Zenon
  <2>5. InQueue(s, i, Claims) = 0
    BY <2>2, <2>3, Zenon
  <2> HIDE DEF s
  <2> QED  BY <2>4, <2>5 DEF Bit
<1>4. ASSUME NEW V PROVE Backed(s, V)
  <2>1. ASSUME NEW n \in 1 .. 1 PROVE s[n].k # "guard"
    BY DEF Guard, Ref, EndOp, BeginOp
  <2> HIDE DEF s
  <2> QED  BY <1>2, <2>1 DEF Backed
<1> QED  BY <1>2, <1>3, <1>4

(* Ref(c), EndOp. *)
LEMMA QueueRE ==
  ASSUME NEW c \in 0 .. NINODE
  PROVE  /\ <<Ref(c), EndOp>> \in Seq(Item) /\ Len(<<Ref(c), EndOp>>) = 2
         /\ \A i \in Slots : /\ InQueue(<<Ref(c), EndOp>>, i, Refers) = Bit(c = i)
                             /\ InQueue(<<Ref(c), EndOp>>, i, Claims) = 0
         /\ \A V : Backed(<<Ref(c), EndOp>>, V)
<1> DEFINE s == <<Ref(c), EndOp>>
<1>1. EndOp \in Item /\ Ref(c) \in Item
  BY ItemsAre, InodesAssumption
<1>2. s \in Seq(Item) /\ Len(s) = 2  BY <1>1, Count2
<1>3. ASSUME NEW i \in Slots
      PROVE  InQueue(s, i, Refers) = Bit(c = i) /\ InQueue(s, i, Claims) = 0
  <2>1. InQueue(s, i, Refers) = One(Ref(c), i, Refers) + One(EndOp, i, Refers)
    BY <1>1, Count2
  <2>2. InQueue(s, i, Claims) = One(Ref(c), i, Claims) + One(EndOp, i, Claims)
    BY <1>1, Count2
  <2>3. /\ One(EndOp, i, Claims) = 0
        /\ One(EndOp, i, Refers) = 0
        /\ One(Ref(c), i, Claims) = 0
        /\ One(Ref(c), i, Refers) = Bit(c = i)
    BY OneIs, InodesAssumption
  <2>4. InQueue(s, i, Refers) = Bit(c = i) + 0
    BY <2>1, <2>3, Zenon
  <2>5. InQueue(s, i, Claims) = 0 + 0
    BY <2>2, <2>3, Zenon
  <2> HIDE DEF s
  <2> QED  BY <2>4, <2>5 DEF Bit
<1>4. ASSUME NEW V PROVE Backed(s, V)
  <2>1. ASSUME NEW n \in 1 .. 2 PROVE s[n].k # "guard"
    BY DEF Guard, Ref, EndOp, BeginOp
  <2> HIDE DEF s
  <2> QED  BY <1>2, <2>1 DEF Backed
<1> QED  BY <1>2, <1>3, <1>4

(* Guard(c), Ref(c). *)
LEMMA QueueGR ==
  ASSUME NEW c \in 0 .. NINODE
  PROVE  /\ <<Guard(c), Ref(c)>> \in Seq(Item) /\ Len(<<Guard(c), Ref(c)>>) = 2
         /\ \A i \in Slots : /\ InQueue(<<Guard(c), Ref(c)>>, i, Refers) = Bit(c = i)
                             /\ InQueue(<<Guard(c), Ref(c)>>, i, Claims) = Bit(c = i)
         /\ \A V : Backed(<<Guard(c), Ref(c)>>, V)
<1> DEFINE s == <<Guard(c), Ref(c)>>
<1>1. Guard(c) \in Item /\ Ref(c) \in Item
  BY ItemsAre, InodesAssumption
<1>2. s \in Seq(Item) /\ Len(s) = 2  BY <1>1, Count2
<1>3. ASSUME NEW i \in Slots
      PROVE  InQueue(s, i, Refers) = Bit(c = i) /\ InQueue(s, i, Claims) = Bit(c = i)
  <2>1. InQueue(s, i, Refers) = One(Guard(c), i, Refers) + One(Ref(c), i, Refers)
    BY <1>1, Count2
  <2>2. InQueue(s, i, Claims) = One(Guard(c), i, Claims) + One(Ref(c), i, Claims)
    BY <1>1, Count2
  <2>3. /\ One(Guard(c), i, Claims) = Bit(c = i)
        /\ One(Guard(c), i, Refers) = 0
        /\ One(Ref(c), i, Claims) = 0
        /\ One(Ref(c), i, Refers) = Bit(c = i)
    BY OneIs, InodesAssumption
  <2>4. InQueue(s, i, Refers) = 0 + Bit(c = i)
    BY <2>1, <2>3, Zenon
  <2>5. InQueue(s, i, Claims) = Bit(c = i) + 0
    BY <2>2, <2>3, Zenon
  <2> HIDE DEF s
  <2> QED  BY <2>4, <2>5 DEF Bit
<1>4. ASSUME NEW V PROVE Backed(s, V)
  <2>1. /\ s[1] = Guard(c)
        /\ s[2] = Ref(c)
    OBVIOUS
  <2> HIDE DEF s
  <2>2. ASSUME NEW n \in 1 .. 2, s[n].k = "guard" PROVE n = 1
    BY <2>1, <2>2 DEF Guard, Ref, EndOp, BeginOp
  <2>3. 2 \in 2 .. 2 /\ s[2].i = s[1].i /\ s[2].k \in Refers
    BY <2>1 DEF Guard, Ref, Refers
  <2>4. ASSUME NEW n \in 1 .. 2, s[n].k = "guard"
        PROVE  \/ s[n].i \in V
               \/ \E m \in (n + 1) .. 2 : s[m].i = s[n].i /\ s[m].k \in Refers
    BY <2>2, <2>4, <2>3
  <2> QED  BY <1>2, <2>4 DEF Backed
<1> QED  BY <1>2, <1>3, <1>4

(* Guard(c), Ref(c), EndOp. *)
LEMMA QueueGRE ==
  ASSUME NEW c \in 0 .. NINODE
  PROVE  /\ <<Guard(c), Ref(c), EndOp>> \in Seq(Item) /\ Len(<<Guard(c), Ref(c), EndOp>>) = 3
         /\ \A i \in Slots : /\ InQueue(<<Guard(c), Ref(c), EndOp>>, i, Refers) = Bit(c = i)
                             /\ InQueue(<<Guard(c), Ref(c), EndOp>>, i, Claims) = Bit(c = i)
         /\ \A V : Backed(<<Guard(c), Ref(c), EndOp>>, V)
<1> DEFINE s == <<Guard(c), Ref(c), EndOp>>
<1>1. EndOp \in Item /\ Guard(c) \in Item /\ Ref(c) \in Item
  BY ItemsAre, InodesAssumption
<1>2. s \in Seq(Item) /\ Len(s) = 3  BY <1>1, Count3
<1>3. ASSUME NEW i \in Slots
      PROVE  InQueue(s, i, Refers) = Bit(c = i) /\ InQueue(s, i, Claims) = Bit(c = i)
  <2>1. InQueue(s, i, Refers) = One(Guard(c), i, Refers) + (One(Ref(c), i, Refers) + One(EndOp, i, Refers))
    BY <1>1, Count3
  <2>2. InQueue(s, i, Claims) = One(Guard(c), i, Claims) + (One(Ref(c), i, Claims) + One(EndOp, i, Claims))
    BY <1>1, Count3
  <2>3. /\ One(EndOp, i, Claims) = 0
        /\ One(EndOp, i, Refers) = 0
        /\ One(Guard(c), i, Claims) = Bit(c = i)
        /\ One(Guard(c), i, Refers) = 0
        /\ One(Ref(c), i, Claims) = 0
        /\ One(Ref(c), i, Refers) = Bit(c = i)
    BY OneIs, InodesAssumption
  <2>4. InQueue(s, i, Refers) = 0 + (Bit(c = i) + 0)
    BY <2>1, <2>3, Zenon
  <2>5. InQueue(s, i, Claims) = Bit(c = i) + (0 + 0)
    BY <2>2, <2>3, Zenon
  <2> HIDE DEF s
  <2> QED  BY <2>4, <2>5 DEF Bit
<1>4. ASSUME NEW V PROVE Backed(s, V)
  <2>1. /\ s[1] = Guard(c)
        /\ s[2] = Ref(c)
        /\ s[3] = EndOp
    OBVIOUS
  <2> HIDE DEF s
  <2>2. ASSUME NEW n \in 1 .. 3, s[n].k = "guard" PROVE n = 1
    BY <2>1, <2>2 DEF Guard, Ref, EndOp, BeginOp
  <2>3. 2 \in 2 .. 3 /\ s[2].i = s[1].i /\ s[2].k \in Refers
    BY <2>1 DEF Guard, Ref, Refers
  <2>4. ASSUME NEW n \in 1 .. 3, s[n].k = "guard"
        PROVE  \/ s[n].i \in V
               \/ \E m \in (n + 1) .. 3 : s[m].i = s[n].i /\ s[m].k \in Refers
    BY <2>2, <2>4, <2>3
  <2> QED  BY <1>2, <2>4 DEF Backed
<1> QED  BY <1>2, <1>3, <1>4

(* Guard(c). *)
LEMMA QueueG ==
  ASSUME NEW c \in 0 .. NINODE
  PROVE  /\ <<Guard(c)>> \in Seq(Item) /\ Len(<<Guard(c)>>) = 1
         /\ \A i \in Slots : /\ InQueue(<<Guard(c)>>, i, Refers) = 0
                             /\ InQueue(<<Guard(c)>>, i, Claims) = Bit(c = i)
         /\ \A V : c \in V => Backed(<<Guard(c)>>, V)
<1> DEFINE s == <<Guard(c)>>
<1>1. Guard(c) \in Item
  BY ItemsAre, InodesAssumption
<1>2. s \in Seq(Item) /\ Len(s) = 1  BY <1>1, Count1
<1>3. ASSUME NEW i \in Slots
      PROVE  InQueue(s, i, Refers) = 0 /\ InQueue(s, i, Claims) = Bit(c = i)
  <2>1. InQueue(s, i, Refers) = One(Guard(c), i, Refers)
    BY <1>1, Count1
  <2>2. InQueue(s, i, Claims) = One(Guard(c), i, Claims)
    BY <1>1, Count1
  <2>3. /\ One(Guard(c), i, Claims) = Bit(c = i)
        /\ One(Guard(c), i, Refers) = 0
    BY OneIs, InodesAssumption
  <2>4. InQueue(s, i, Refers) = 0
    BY <2>1, <2>3, Zenon
  <2>5. InQueue(s, i, Claims) = Bit(c = i)
    BY <2>2, <2>3, Zenon
  <2> HIDE DEF s
  <2> QED  BY <2>4, <2>5 DEF Bit
<1>4. ASSUME NEW V, c \in V PROVE Backed(s, V)
  <2>1. /\ s[1] = Guard(c)
    OBVIOUS
  <2> HIDE DEF s
  <2>2. ASSUME NEW n \in 1 .. 1, s[n].k = "guard" PROVE n = 1
    BY <2>1, <2>2 DEF Guard, Ref, EndOp, BeginOp
  <2>3. s[1].i \in V  BY <1>4, <2>1 DEF Guard
  <2>4. ASSUME NEW n \in 1 .. 1, s[n].k = "guard"
        PROVE  \/ s[n].i \in V
               \/ \E m \in (n + 1) .. 1 : s[m].i = s[n].i /\ s[m].k \in Refers
    BY <2>2, <2>4, <2>3
  <2> QED  BY <1>2, <2>4 DEF Backed
<1> QED  BY <1>2, <1>3, <1>4

(* Guard(c), EndOp. *)
LEMMA QueueGE ==
  ASSUME NEW c \in 0 .. NINODE
  PROVE  /\ <<Guard(c), EndOp>> \in Seq(Item) /\ Len(<<Guard(c), EndOp>>) = 2
         /\ \A i \in Slots : /\ InQueue(<<Guard(c), EndOp>>, i, Refers) = 0
                             /\ InQueue(<<Guard(c), EndOp>>, i, Claims) = Bit(c = i)
         /\ \A V : c \in V => Backed(<<Guard(c), EndOp>>, V)
<1> DEFINE s == <<Guard(c), EndOp>>
<1>1. EndOp \in Item /\ Guard(c) \in Item
  BY ItemsAre, InodesAssumption
<1>2. s \in Seq(Item) /\ Len(s) = 2  BY <1>1, Count2
<1>3. ASSUME NEW i \in Slots
      PROVE  InQueue(s, i, Refers) = 0 /\ InQueue(s, i, Claims) = Bit(c = i)
  <2>1. InQueue(s, i, Refers) = One(Guard(c), i, Refers) + One(EndOp, i, Refers)
    BY <1>1, Count2
  <2>2. InQueue(s, i, Claims) = One(Guard(c), i, Claims) + One(EndOp, i, Claims)
    BY <1>1, Count2
  <2>3. /\ One(EndOp, i, Claims) = 0
        /\ One(EndOp, i, Refers) = 0
        /\ One(Guard(c), i, Claims) = Bit(c = i)
        /\ One(Guard(c), i, Refers) = 0
    BY OneIs, InodesAssumption
  <2>4. InQueue(s, i, Refers) = 0 + 0
    BY <2>1, <2>3, Zenon
  <2>5. InQueue(s, i, Claims) = Bit(c = i) + 0
    BY <2>2, <2>3, Zenon
  <2> HIDE DEF s
  <2> QED  BY <2>4, <2>5 DEF Bit
<1>4. ASSUME NEW V, c \in V PROVE Backed(s, V)
  <2>1. /\ s[1] = Guard(c)
        /\ s[2] = EndOp
    OBVIOUS
  <2> HIDE DEF s
  <2>2. ASSUME NEW n \in 1 .. 2, s[n].k = "guard" PROVE n = 1
    BY <2>1, <2>2 DEF Guard, Ref, EndOp, BeginOp
  <2>3. s[1].i \in V  BY <1>4, <2>1 DEF Guard
  <2>4. ASSUME NEW n \in 1 .. 2, s[n].k = "guard"
        PROVE  \/ s[n].i \in V
               \/ \E m \in (n + 1) .. 2 : s[m].i = s[n].i /\ s[m].k \in Refers
    BY <2>2, <2>4, <2>3
  <2> QED  BY <1>2, <2>4 DEF Backed
<1> QED  BY <1>2, <1>3, <1>4

(* Guard(c), Ref(w), EndOp. *)
LEMMA QueueGWE ==
  ASSUME NEW c \in 0 .. NINODE, NEW w \in 0 .. NINODE
  PROVE  /\ <<Guard(c), Ref(w), EndOp>> \in Seq(Item) /\ Len(<<Guard(c), Ref(w), EndOp>>) = 3
         /\ \A i \in Slots : /\ InQueue(<<Guard(c), Ref(w), EndOp>>, i, Refers) = Bit(w = i)
                             /\ InQueue(<<Guard(c), Ref(w), EndOp>>, i, Claims) = Bit(c = i)
         /\ \A V : c \in V => Backed(<<Guard(c), Ref(w), EndOp>>, V)
<1> DEFINE s == <<Guard(c), Ref(w), EndOp>>
<1>1. EndOp \in Item /\ Guard(c) \in Item /\ Ref(w) \in Item
  BY ItemsAre, InodesAssumption
<1>2. s \in Seq(Item) /\ Len(s) = 3  BY <1>1, Count3
<1>3. ASSUME NEW i \in Slots
      PROVE  InQueue(s, i, Refers) = Bit(w = i) /\ InQueue(s, i, Claims) = Bit(c = i)
  <2>1. InQueue(s, i, Refers) = One(Guard(c), i, Refers) + (One(Ref(w), i, Refers) + One(EndOp, i, Refers))
    BY <1>1, Count3
  <2>2. InQueue(s, i, Claims) = One(Guard(c), i, Claims) + (One(Ref(w), i, Claims) + One(EndOp, i, Claims))
    BY <1>1, Count3
  <2>3. /\ One(EndOp, i, Claims) = 0
        /\ One(EndOp, i, Refers) = 0
        /\ One(Guard(c), i, Claims) = Bit(c = i)
        /\ One(Guard(c), i, Refers) = 0
        /\ One(Ref(w), i, Claims) = 0
        /\ One(Ref(w), i, Refers) = Bit(w = i)
    BY OneIs, InodesAssumption
  <2>4. InQueue(s, i, Refers) = 0 + (Bit(w = i) + 0)
    BY <2>1, <2>3, Zenon
  <2>5. InQueue(s, i, Claims) = Bit(c = i) + (0 + 0)
    BY <2>2, <2>3, Zenon
  <2> HIDE DEF s
  <2> QED  BY <2>4, <2>5 DEF Bit
<1>4. ASSUME NEW V, c \in V PROVE Backed(s, V)
  <2>1. /\ s[1] = Guard(c)
        /\ s[2] = Ref(w)
        /\ s[3] = EndOp
    OBVIOUS
  <2> HIDE DEF s
  <2>2. ASSUME NEW n \in 1 .. 3, s[n].k = "guard" PROVE n = 1
    BY <2>1, <2>2 DEF Guard, Ref, EndOp, BeginOp
  <2>3. s[1].i \in V  BY <1>4, <2>1 DEF Guard
  <2>4. ASSUME NEW n \in 1 .. 3, s[n].k = "guard"
        PROVE  \/ s[n].i \in V
               \/ \E m \in (n + 1) .. 3 : s[m].i = s[n].i /\ s[m].k \in Refers
    BY <2>2, <2>4, <2>3
  <2> QED  BY <1>2, <2>4 DEF Backed
<1> QED  BY <1>2, <1>3, <1>4

(* Ref(w), Guard(c), Ref(c), EndOp. *)
LEMMA QueueRGRE ==
  ASSUME NEW c \in 0 .. NINODE, NEW w \in 0 .. NINODE
  PROVE  /\ <<Ref(w), Guard(c), Ref(c), EndOp>> \in Seq(Item) /\ Len(<<Ref(w), Guard(c), Ref(c), EndOp>>) = 4
         /\ \A i \in Slots : /\ InQueue(<<Ref(w), Guard(c), Ref(c), EndOp>>, i, Refers) = Bit(w = i) + Bit(c = i)
                             /\ InQueue(<<Ref(w), Guard(c), Ref(c), EndOp>>, i, Claims) = Bit(c = i)
         /\ \A V : Backed(<<Ref(w), Guard(c), Ref(c), EndOp>>, V)
<1> DEFINE s == <<Ref(w), Guard(c), Ref(c), EndOp>>
<1>1. EndOp \in Item /\ Guard(c) \in Item /\ Ref(c) \in Item /\ Ref(w) \in Item
  BY ItemsAre, InodesAssumption
<1>2. s \in Seq(Item) /\ Len(s) = 4  BY <1>1, Count4
<1>3. ASSUME NEW i \in Slots
      PROVE  InQueue(s, i, Refers) = Bit(w = i) + Bit(c = i) /\ InQueue(s, i, Claims) = Bit(c = i)
  <2>1. InQueue(s, i, Refers) = One(Ref(w), i, Refers) + (One(Guard(c), i, Refers) + (One(Ref(c), i, Refers) + One(EndOp, i, Refers)))
    BY <1>1, Count4
  <2>2. InQueue(s, i, Claims) = One(Ref(w), i, Claims) + (One(Guard(c), i, Claims) + (One(Ref(c), i, Claims) + One(EndOp, i, Claims)))
    BY <1>1, Count4
  <2>3. /\ One(EndOp, i, Claims) = 0
        /\ One(EndOp, i, Refers) = 0
        /\ One(Guard(c), i, Claims) = Bit(c = i)
        /\ One(Guard(c), i, Refers) = 0
        /\ One(Ref(c), i, Claims) = 0
        /\ One(Ref(c), i, Refers) = Bit(c = i)
        /\ One(Ref(w), i, Claims) = 0
        /\ One(Ref(w), i, Refers) = Bit(w = i)
    BY OneIs, InodesAssumption
  <2>4. InQueue(s, i, Refers) = Bit(w = i) + (0 + (Bit(c = i) + 0))
    BY <2>1, <2>3, Zenon
  <2>5. InQueue(s, i, Claims) = 0 + (Bit(c = i) + (0 + 0))
    BY <2>2, <2>3, Zenon
  <2> HIDE DEF s
  <2> QED  BY <2>4, <2>5 DEF Bit
<1>4. ASSUME NEW V PROVE Backed(s, V)
  <2>1. /\ s[1] = Ref(w)
        /\ s[2] = Guard(c)
        /\ s[3] = Ref(c)
        /\ s[4] = EndOp
    OBVIOUS
  <2> HIDE DEF s
  <2>2. ASSUME NEW n \in 1 .. 4, s[n].k = "guard" PROVE n = 2
    BY <2>1, <2>2 DEF Guard, Ref, EndOp, BeginOp
  <2>3. 3 \in 3 .. 4 /\ s[3].i = s[2].i /\ s[3].k \in Refers
    BY <2>1 DEF Guard, Ref, Refers
  <2>4. ASSUME NEW n \in 1 .. 4, s[n].k = "guard"
        PROVE  \/ s[n].i \in V
               \/ \E m \in (n + 1) .. 4 : s[m].i = s[n].i /\ s[m].k \in Refers
    BY <2>2, <2>4, <2>3
  <2> QED  BY <1>2, <2>4 DEF Backed
<1> QED  BY <1>2, <1>3, <1>4

(* Guard(c), Ref(c), Guard(w). *)
LEMMA QueueGRG ==
  ASSUME NEW c \in 0 .. NINODE, NEW w \in 0 .. NINODE
  PROVE  /\ <<Guard(c), Ref(c), Guard(w)>> \in Seq(Item) /\ Len(<<Guard(c), Ref(c), Guard(w)>>) = 3
         /\ \A i \in Slots : /\ InQueue(<<Guard(c), Ref(c), Guard(w)>>, i, Refers) = Bit(c = i)
                             /\ InQueue(<<Guard(c), Ref(c), Guard(w)>>, i, Claims) = Bit(c = i) + Bit(w = i)
         /\ \A V : w \in V => Backed(<<Guard(c), Ref(c), Guard(w)>>, V)
<1> DEFINE s == <<Guard(c), Ref(c), Guard(w)>>
<1>1. Guard(c) \in Item /\ Guard(w) \in Item /\ Ref(c) \in Item
  BY ItemsAre, InodesAssumption
<1>2. s \in Seq(Item) /\ Len(s) = 3  BY <1>1, Count3
<1>3. ASSUME NEW i \in Slots
      PROVE  InQueue(s, i, Refers) = Bit(c = i) /\ InQueue(s, i, Claims) = Bit(c = i) + Bit(w = i)
  <2>1. InQueue(s, i, Refers) = One(Guard(c), i, Refers) + (One(Ref(c), i, Refers) + One(Guard(w), i, Refers))
    BY <1>1, Count3
  <2>2. InQueue(s, i, Claims) = One(Guard(c), i, Claims) + (One(Ref(c), i, Claims) + One(Guard(w), i, Claims))
    BY <1>1, Count3
  <2>3. /\ One(Guard(c), i, Claims) = Bit(c = i)
        /\ One(Guard(c), i, Refers) = 0
        /\ One(Guard(w), i, Claims) = Bit(w = i)
        /\ One(Guard(w), i, Refers) = 0
        /\ One(Ref(c), i, Claims) = 0
        /\ One(Ref(c), i, Refers) = Bit(c = i)
    BY OneIs, InodesAssumption
  <2>4. InQueue(s, i, Refers) = 0 + (Bit(c = i) + 0)
    BY <2>1, <2>3, Zenon
  <2>5. InQueue(s, i, Claims) = Bit(c = i) + (0 + Bit(w = i))
    BY <2>2, <2>3, Zenon
  <2> HIDE DEF s
  <2> QED  BY <2>4, <2>5 DEF Bit
<1>4. ASSUME NEW V, w \in V PROVE Backed(s, V)
  <2>1. /\ s[1] = Guard(c)
        /\ s[2] = Ref(c)
        /\ s[3] = Guard(w)
    OBVIOUS
  <2> HIDE DEF s
  <2>2. ASSUME NEW n \in 1 .. 3, s[n].k = "guard" PROVE n = 1 \/ n = 3
    BY <2>1, <2>2 DEF Guard, Ref, EndOp, BeginOp
  <2>3. 2 \in 2 .. 3 /\ s[2].i = s[1].i /\ s[2].k \in Refers
    BY <2>1 DEF Guard, Ref, Refers
  <2>4. s[3].i \in V  BY <1>4, <2>1 DEF Guard
  <2>5. ASSUME NEW n \in 1 .. 3, s[n].k = "guard"
        PROVE  \/ s[n].i \in V
               \/ \E m \in (n + 1) .. 3 : s[m].i = s[n].i /\ s[m].k \in Refers
    BY <2>2, <2>5, <2>3, <2>4
  <2> QED  BY <1>2, <2>5 DEF Backed
<1> QED  BY <1>2, <1>3, <1>4

(* Guard(w), Ref(w), Guard(c), Ref(c), EndOp. *)
LEMMA QueueGRGRE ==
  ASSUME NEW c \in 0 .. NINODE, NEW w \in 0 .. NINODE
  PROVE  /\ <<Guard(w), Ref(w), Guard(c), Ref(c), EndOp>> \in Seq(Item) /\ Len(<<Guard(w), Ref(w), Guard(c), Ref(c), EndOp>>) = 5
         /\ \A i \in Slots : /\ InQueue(<<Guard(w), Ref(w), Guard(c), Ref(c), EndOp>>, i, Refers) = Bit(w = i) + Bit(c = i)
                             /\ InQueue(<<Guard(w), Ref(w), Guard(c), Ref(c), EndOp>>, i, Claims) = Bit(w = i) + Bit(c = i)
         /\ \A V : Backed(<<Guard(w), Ref(w), Guard(c), Ref(c), EndOp>>, V)
<1> DEFINE s == <<Guard(w), Ref(w), Guard(c), Ref(c), EndOp>>
<1>1. EndOp \in Item /\ Guard(c) \in Item /\ Guard(w) \in Item /\ Ref(c) \in Item /\ Ref(w) \in Item
  BY ItemsAre, InodesAssumption
<1>2. s \in Seq(Item) /\ Len(s) = 5  BY <1>1, Count5
<1>3. ASSUME NEW i \in Slots
      PROVE  InQueue(s, i, Refers) = Bit(w = i) + Bit(c = i) /\ InQueue(s, i, Claims) = Bit(w = i) + Bit(c = i)
  <2>1. InQueue(s, i, Refers) = One(Guard(w), i, Refers) + (One(Ref(w), i, Refers) + (One(Guard(c), i, Refers) + (One(Ref(c), i, Refers) + One(EndOp, i, Refers))))
    BY <1>1, Count5
  <2>2. InQueue(s, i, Claims) = One(Guard(w), i, Claims) + (One(Ref(w), i, Claims) + (One(Guard(c), i, Claims) + (One(Ref(c), i, Claims) + One(EndOp, i, Claims))))
    BY <1>1, Count5
  <2>3. /\ One(EndOp, i, Claims) = 0
        /\ One(EndOp, i, Refers) = 0
        /\ One(Guard(c), i, Claims) = Bit(c = i)
        /\ One(Guard(c), i, Refers) = 0
        /\ One(Guard(w), i, Claims) = Bit(w = i)
        /\ One(Guard(w), i, Refers) = 0
        /\ One(Ref(c), i, Claims) = 0
        /\ One(Ref(c), i, Refers) = Bit(c = i)
        /\ One(Ref(w), i, Claims) = 0
        /\ One(Ref(w), i, Refers) = Bit(w = i)
    BY OneIs, InodesAssumption
  <2>4. InQueue(s, i, Refers) = 0 + (Bit(w = i) + (0 + (Bit(c = i) + 0)))
    BY <2>1, <2>3, Zenon
  <2>5. InQueue(s, i, Claims) = Bit(w = i) + (0 + (Bit(c = i) + (0 + 0)))
    BY <2>2, <2>3, Zenon
  <2> HIDE DEF s
  <2> QED  BY <2>4, <2>5 DEF Bit
<1>4. ASSUME NEW V PROVE Backed(s, V)
  <2>1. /\ s[1] = Guard(w)
        /\ s[2] = Ref(w)
        /\ s[3] = Guard(c)
        /\ s[4] = Ref(c)
        /\ s[5] = EndOp
    OBVIOUS
  <2> HIDE DEF s
  <2>2. ASSUME NEW n \in 1 .. 5, s[n].k = "guard" PROVE n = 1 \/ n = 3
    BY <2>1, <2>2 DEF Guard, Ref, EndOp, BeginOp
  <2>3. 2 \in 2 .. 5 /\ s[2].i = s[1].i /\ s[2].k \in Refers
    BY <2>1 DEF Guard, Ref, Refers
  <2>4. 4 \in 4 .. 5 /\ s[4].i = s[3].i /\ s[4].k \in Refers
    BY <2>1 DEF Guard, Ref, Refers
  <2>5. ASSUME NEW n \in 1 .. 5, s[n].k = "guard"
        PROVE  \/ s[n].i \in V
               \/ \E m \in (n + 1) .. 5 : s[m].i = s[n].i /\ s[m].k \in Refers
    BY <2>2, <2>5, <2>3, <2>4
  <2> QED  BY <1>2, <2>5 DEF Backed
<1> QED  BY <1>2, <1>3, <1>4

(* EndOp, Guard(c), Ref(c). *)
LEMMA QueueEGR ==
  ASSUME NEW c \in 0 .. NINODE
  PROVE  /\ <<EndOp, Guard(c), Ref(c)>> \in Seq(Item) /\ Len(<<EndOp, Guard(c), Ref(c)>>) = 3
         /\ \A i \in Slots : /\ InQueue(<<EndOp, Guard(c), Ref(c)>>, i, Refers) = Bit(c = i)
                             /\ InQueue(<<EndOp, Guard(c), Ref(c)>>, i, Claims) = Bit(c = i)
         /\ \A V : Backed(<<EndOp, Guard(c), Ref(c)>>, V)
<1> DEFINE s == <<EndOp, Guard(c), Ref(c)>>
<1>1. EndOp \in Item /\ Guard(c) \in Item /\ Ref(c) \in Item
  BY ItemsAre, InodesAssumption
<1>2. s \in Seq(Item) /\ Len(s) = 3  BY <1>1, Count3
<1>3. ASSUME NEW i \in Slots
      PROVE  InQueue(s, i, Refers) = Bit(c = i) /\ InQueue(s, i, Claims) = Bit(c = i)
  <2>1. InQueue(s, i, Refers) = One(EndOp, i, Refers) + (One(Guard(c), i, Refers) + One(Ref(c), i, Refers))
    BY <1>1, Count3
  <2>2. InQueue(s, i, Claims) = One(EndOp, i, Claims) + (One(Guard(c), i, Claims) + One(Ref(c), i, Claims))
    BY <1>1, Count3
  <2>3. /\ One(EndOp, i, Claims) = 0
        /\ One(EndOp, i, Refers) = 0
        /\ One(Guard(c), i, Claims) = Bit(c = i)
        /\ One(Guard(c), i, Refers) = 0
        /\ One(Ref(c), i, Claims) = 0
        /\ One(Ref(c), i, Refers) = Bit(c = i)
    BY OneIs, InodesAssumption
  <2>4. InQueue(s, i, Refers) = 0 + (0 + Bit(c = i))
    BY <2>1, <2>3, Zenon
  <2>5. InQueue(s, i, Claims) = 0 + (Bit(c = i) + 0)
    BY <2>2, <2>3, Zenon
  <2> HIDE DEF s
  <2> QED  BY <2>4, <2>5 DEF Bit
<1>4. ASSUME NEW V PROVE Backed(s, V)
  <2>1. /\ s[1] = EndOp
        /\ s[2] = Guard(c)
        /\ s[3] = Ref(c)
    OBVIOUS
  <2> HIDE DEF s
  <2>2. ASSUME NEW n \in 1 .. 3, s[n].k = "guard" PROVE n = 2
    BY <2>1, <2>2 DEF Guard, Ref, EndOp, BeginOp
  <2>3. 3 \in 3 .. 3 /\ s[3].i = s[2].i /\ s[3].k \in Refers
    BY <2>1 DEF Guard, Ref, Refers
  <2>4. ASSUME NEW n \in 1 .. 3, s[n].k = "guard"
        PROVE  \/ s[n].i \in V
               \/ \E m \in (n + 1) .. 3 : s[m].i = s[n].i /\ s[m].k \in Refers
    BY <2>2, <2>4, <2>3
  <2> QED  BY <1>2, <2>4 DEF Backed
<1> QED  BY <1>2, <1>3, <1>4

(* Guard(c), Ref(c), Ref(w), EndOp. *)
LEMMA QueueGRRE ==
  ASSUME NEW c \in 0 .. NINODE, NEW w \in 0 .. NINODE
  PROVE  /\ <<Guard(c), Ref(c), Ref(w), EndOp>> \in Seq(Item) /\ Len(<<Guard(c), Ref(c), Ref(w), EndOp>>) = 4
         /\ \A i \in Slots : /\ InQueue(<<Guard(c), Ref(c), Ref(w), EndOp>>, i, Refers) = Bit(c = i) + Bit(w = i)
                             /\ InQueue(<<Guard(c), Ref(c), Ref(w), EndOp>>, i, Claims) = Bit(c = i)
         /\ \A V : Backed(<<Guard(c), Ref(c), Ref(w), EndOp>>, V)
<1> DEFINE s == <<Guard(c), Ref(c), Ref(w), EndOp>>
<1>1. EndOp \in Item /\ Guard(c) \in Item /\ Ref(c) \in Item /\ Ref(w) \in Item
  BY ItemsAre, InodesAssumption
<1>2. s \in Seq(Item) /\ Len(s) = 4  BY <1>1, Count4
<1>3. ASSUME NEW i \in Slots
      PROVE  InQueue(s, i, Refers) = Bit(c = i) + Bit(w = i) /\ InQueue(s, i, Claims) = Bit(c = i)
  <2>1. InQueue(s, i, Refers) = One(Guard(c), i, Refers) + (One(Ref(c), i, Refers) + (One(Ref(w), i, Refers) + One(EndOp, i, Refers)))
    BY <1>1, Count4
  <2>2. InQueue(s, i, Claims) = One(Guard(c), i, Claims) + (One(Ref(c), i, Claims) + (One(Ref(w), i, Claims) + One(EndOp, i, Claims)))
    BY <1>1, Count4
  <2>3. /\ One(EndOp, i, Claims) = 0
        /\ One(EndOp, i, Refers) = 0
        /\ One(Guard(c), i, Claims) = Bit(c = i)
        /\ One(Guard(c), i, Refers) = 0
        /\ One(Ref(c), i, Claims) = 0
        /\ One(Ref(c), i, Refers) = Bit(c = i)
        /\ One(Ref(w), i, Claims) = 0
        /\ One(Ref(w), i, Refers) = Bit(w = i)
    BY OneIs, InodesAssumption
  <2>4. InQueue(s, i, Refers) = 0 + (Bit(c = i) + (Bit(w = i) + 0))
    BY <2>1, <2>3, Zenon
  <2>5. InQueue(s, i, Claims) = Bit(c = i) + (0 + (0 + 0))
    BY <2>2, <2>3, Zenon
  <2> HIDE DEF s
  <2> QED  BY <2>4, <2>5 DEF Bit
<1>4. ASSUME NEW V PROVE Backed(s, V)
  <2>1. /\ s[1] = Guard(c)
        /\ s[2] = Ref(c)
        /\ s[3] = Ref(w)
        /\ s[4] = EndOp
    OBVIOUS
  <2> HIDE DEF s
  <2>2. ASSUME NEW n \in 1 .. 4, s[n].k = "guard" PROVE n = 1
    BY <2>1, <2>2 DEF Guard, Ref, EndOp, BeginOp
  <2>3. 2 \in 2 .. 4 /\ s[2].i = s[1].i /\ s[2].k \in Refers
    BY <2>1 DEF Guard, Ref, Refers
  <2>4. ASSUME NEW n \in 1 .. 4, s[n].k = "guard"
        PROVE  \/ s[n].i \in V
               \/ \E m \in (n + 1) .. 4 : s[m].i = s[n].i /\ s[m].k \in Refers
    BY <2>2, <2>4, <2>3
  <2> QED  BY <1>2, <2>4 DEF Backed
<1> QED  BY <1>2, <1>3, <1>4

(* Guard(w), Ref(w), EndOp, Guard(c), Ref(c). *)
LEMMA QueueGREGR ==
  ASSUME NEW c \in 0 .. NINODE, NEW w \in 0 .. NINODE
  PROVE  /\ <<Guard(w), Ref(w), EndOp, Guard(c), Ref(c)>> \in Seq(Item) /\ Len(<<Guard(w), Ref(w), EndOp, Guard(c), Ref(c)>>) = 5
         /\ \A i \in Slots : /\ InQueue(<<Guard(w), Ref(w), EndOp, Guard(c), Ref(c)>>, i, Refers) = Bit(w = i) + Bit(c = i)
                             /\ InQueue(<<Guard(w), Ref(w), EndOp, Guard(c), Ref(c)>>, i, Claims) = Bit(w = i) + Bit(c = i)
         /\ \A V : Backed(<<Guard(w), Ref(w), EndOp, Guard(c), Ref(c)>>, V)
<1> DEFINE s == <<Guard(w), Ref(w), EndOp, Guard(c), Ref(c)>>
<1>1. EndOp \in Item /\ Guard(c) \in Item /\ Guard(w) \in Item /\ Ref(c) \in Item /\ Ref(w) \in Item
  BY ItemsAre, InodesAssumption
<1>2. s \in Seq(Item) /\ Len(s) = 5  BY <1>1, Count5
<1>3. ASSUME NEW i \in Slots
      PROVE  InQueue(s, i, Refers) = Bit(w = i) + Bit(c = i) /\ InQueue(s, i, Claims) = Bit(w = i) + Bit(c = i)
  <2>1. InQueue(s, i, Refers) = One(Guard(w), i, Refers) + (One(Ref(w), i, Refers) + (One(EndOp, i, Refers) + (One(Guard(c), i, Refers) + One(Ref(c), i, Refers))))
    BY <1>1, Count5
  <2>2. InQueue(s, i, Claims) = One(Guard(w), i, Claims) + (One(Ref(w), i, Claims) + (One(EndOp, i, Claims) + (One(Guard(c), i, Claims) + One(Ref(c), i, Claims))))
    BY <1>1, Count5
  <2>3. /\ One(EndOp, i, Claims) = 0
        /\ One(EndOp, i, Refers) = 0
        /\ One(Guard(c), i, Claims) = Bit(c = i)
        /\ One(Guard(c), i, Refers) = 0
        /\ One(Guard(w), i, Claims) = Bit(w = i)
        /\ One(Guard(w), i, Refers) = 0
        /\ One(Ref(c), i, Claims) = 0
        /\ One(Ref(c), i, Refers) = Bit(c = i)
        /\ One(Ref(w), i, Claims) = 0
        /\ One(Ref(w), i, Refers) = Bit(w = i)
    BY OneIs, InodesAssumption
  <2>4. InQueue(s, i, Refers) = 0 + (Bit(w = i) + (0 + (0 + Bit(c = i))))
    BY <2>1, <2>3, Zenon
  <2>5. InQueue(s, i, Claims) = Bit(w = i) + (0 + (0 + (Bit(c = i) + 0)))
    BY <2>2, <2>3, Zenon
  <2> HIDE DEF s
  <2> QED  BY <2>4, <2>5 DEF Bit
<1>4. ASSUME NEW V PROVE Backed(s, V)
  <2>1. /\ s[1] = Guard(w)
        /\ s[2] = Ref(w)
        /\ s[3] = EndOp
        /\ s[4] = Guard(c)
        /\ s[5] = Ref(c)
    OBVIOUS
  <2> HIDE DEF s
  <2>2. ASSUME NEW n \in 1 .. 5, s[n].k = "guard" PROVE n = 1 \/ n = 4
    BY <2>1, <2>2 DEF Guard, Ref, EndOp, BeginOp
  <2>3. 2 \in 2 .. 5 /\ s[2].i = s[1].i /\ s[2].k \in Refers
    BY <2>1 DEF Guard, Ref, Refers
  <2>4. 5 \in 5 .. 5 /\ s[5].i = s[4].i /\ s[5].k \in Refers
    BY <2>1 DEF Guard, Ref, Refers
  <2>5. ASSUME NEW n \in 1 .. 5, s[n].k = "guard"
        PROVE  \/ s[n].i \in V
               \/ \E m \in (n + 1) .. 5 : s[m].i = s[n].i /\ s[m].k \in Refers
    BY <2>2, <2>5, <2>3, <2>4
  <2> QED  BY <1>2, <2>5 DEF Backed
<1> QED  BY <1>2, <1>3, <1>4

(* BeginOp, Ref(c), EndOp. *)
LEMMA QueueBRE ==
  ASSUME NEW c \in 0 .. NINODE
  PROVE  /\ <<BeginOp, Ref(c), EndOp>> \in Seq(Item) /\ Len(<<BeginOp, Ref(c), EndOp>>) = 3
         /\ \A i \in Slots : /\ InQueue(<<BeginOp, Ref(c), EndOp>>, i, Refers) = Bit(c = i)
                             /\ InQueue(<<BeginOp, Ref(c), EndOp>>, i, Claims) = 0
         /\ \A V : Backed(<<BeginOp, Ref(c), EndOp>>, V)
<1> DEFINE s == <<BeginOp, Ref(c), EndOp>>
<1>1. BeginOp \in Item /\ EndOp \in Item /\ Ref(c) \in Item
  BY ItemsAre, InodesAssumption
<1>2. s \in Seq(Item) /\ Len(s) = 3  BY <1>1, Count3
<1>3. ASSUME NEW i \in Slots
      PROVE  InQueue(s, i, Refers) = Bit(c = i) /\ InQueue(s, i, Claims) = 0
  <2>1. InQueue(s, i, Refers) = One(BeginOp, i, Refers) + (One(Ref(c), i, Refers) + One(EndOp, i, Refers))
    BY <1>1, Count3
  <2>2. InQueue(s, i, Claims) = One(BeginOp, i, Claims) + (One(Ref(c), i, Claims) + One(EndOp, i, Claims))
    BY <1>1, Count3
  <2>3. /\ One(BeginOp, i, Claims) = 0
        /\ One(BeginOp, i, Refers) = 0
        /\ One(EndOp, i, Claims) = 0
        /\ One(EndOp, i, Refers) = 0
        /\ One(Ref(c), i, Claims) = 0
        /\ One(Ref(c), i, Refers) = Bit(c = i)
    BY OneIs, InodesAssumption
  <2>4. InQueue(s, i, Refers) = 0 + (Bit(c = i) + 0)
    BY <2>1, <2>3, Zenon
  <2>5. InQueue(s, i, Claims) = 0 + (0 + 0)
    BY <2>2, <2>3, Zenon
  <2> HIDE DEF s
  <2> QED  BY <2>4, <2>5 DEF Bit
<1>4. ASSUME NEW V PROVE Backed(s, V)
  <2>1. ASSUME NEW n \in 1 .. 3 PROVE s[n].k # "guard"
    BY DEF Guard, Ref, EndOp, BeginOp
  <2> HIDE DEF s
  <2> QED  BY <1>2, <2>1 DEF Backed
<1> QED  BY <1>2, <1>3, <1>4

(* BeginOp, Ref(w), EndOp, BeginOp, Ref(c), EndOp. *)
LEMMA QueueBREBRE ==
  ASSUME NEW c \in 0 .. NINODE, NEW w \in 0 .. NINODE
  PROVE  /\ <<BeginOp, Ref(w), EndOp, BeginOp, Ref(c), EndOp>> \in Seq(Item) /\ Len(<<BeginOp, Ref(w), EndOp, BeginOp, Ref(c), EndOp>>) = 6
         /\ \A i \in Slots : /\ InQueue(<<BeginOp, Ref(w), EndOp, BeginOp, Ref(c), EndOp>>, i, Refers) = Bit(w = i) + Bit(c = i)
                             /\ InQueue(<<BeginOp, Ref(w), EndOp, BeginOp, Ref(c), EndOp>>, i, Claims) = 0
         /\ \A V : Backed(<<BeginOp, Ref(w), EndOp, BeginOp, Ref(c), EndOp>>, V)
<1> DEFINE s == <<BeginOp, Ref(w), EndOp, BeginOp, Ref(c), EndOp>>
<1>1. BeginOp \in Item /\ EndOp \in Item /\ Ref(c) \in Item /\ Ref(w) \in Item
  BY ItemsAre, InodesAssumption
<1>2. s \in Seq(Item) /\ Len(s) = 6  BY <1>1, Count6
<1>3. ASSUME NEW i \in Slots
      PROVE  InQueue(s, i, Refers) = Bit(w = i) + Bit(c = i) /\ InQueue(s, i, Claims) = 0
  <2>1. InQueue(s, i, Refers) = One(BeginOp, i, Refers) + (One(Ref(w), i, Refers) + (One(EndOp, i, Refers) + (One(BeginOp, i, Refers) + (One(Ref(c), i, Refers) + One(EndOp, i, Refers)))))
    BY <1>1, Count6
  <2>2. InQueue(s, i, Claims) = One(BeginOp, i, Claims) + (One(Ref(w), i, Claims) + (One(EndOp, i, Claims) + (One(BeginOp, i, Claims) + (One(Ref(c), i, Claims) + One(EndOp, i, Claims)))))
    BY <1>1, Count6
  <2>3. /\ One(BeginOp, i, Claims) = 0
        /\ One(BeginOp, i, Refers) = 0
        /\ One(EndOp, i, Claims) = 0
        /\ One(EndOp, i, Refers) = 0
        /\ One(Ref(c), i, Claims) = 0
        /\ One(Ref(c), i, Refers) = Bit(c = i)
        /\ One(Ref(w), i, Claims) = 0
        /\ One(Ref(w), i, Refers) = Bit(w = i)
    BY OneIs, InodesAssumption
  <2>4. InQueue(s, i, Refers) = 0 + (Bit(w = i) + (0 + (0 + (Bit(c = i) + 0))))
    BY <2>1, <2>3, Zenon
  <2>5. InQueue(s, i, Claims) = 0 + (0 + (0 + (0 + (0 + 0))))
    BY <2>2, <2>3, Zenon
  <2> HIDE DEF s
  <2> QED  BY <2>4, <2>5 DEF Bit
<1>4. ASSUME NEW V PROVE Backed(s, V)
  <2>1. ASSUME NEW n \in 1 .. 6 PROVE s[n].k # "guard"
    BY DEF Guard, Ref, EndOp, BeginOp
  <2> HIDE DEF s
  <2> QED  BY <1>2, <2>1 DEF Backed
<1> QED  BY <1>2, <1>3, <1>4

-----------------------------------------------------------------------------
(***************************************************************************)
(* Three kinds of steps: a call goes on with nothing to drop, a call ends  *)
(* or goes on with Dropping, or the head of the queue is dropped.          *)
(***************************************************************************)

(* What a step of p must keep. *)
Kept(p) == RefsFollow(p) /\ LockInv' /\ BackedInv'

(* Counts are natural numbers. *)
LEMMA VarsNat ==
  ASSUME NEW a, NEW b, NEW c, NEW d, NEW e, NEW i
  PROVE  InVars(a, b, c, d, e, i) \in Nat /\ AtPlace(d, a, b, c, i) \in Nat
<1>1. \A x : Bit(x) \in Nat  BY DEF Bit
<1>2. /\ Bit(a = i) \in Nat /\ Bit(b = i) \in Nat /\ Bit(c = i) \in Nat /\ Bit(d = i) \in Nat
      /\ Bit(e = i) \in Nat
  BY DEF Bit
<1>3. /\ Bit(d \in CurLocked /\ a = i) \in Nat /\ Bit(d \in InoLocked /\ b = i) \in Nat
      /\ Bit(d \in OldLocked /\ c = i) \in Nat
  BY DEF Bit
<1> QED  BY <1>2, <1>3 DEF InVars, AtPlace

(* With an empty queue, only the variables and the place count. *)
LEMMA CalmCounts ==
  ASSUME NEW p \in Procs, drops[p] = <<>>, NEW i
  PROVE  Handles(p, i) = VarHandles(p, i) /\ Locks(p, i) = PlaceLocks(p, i)
<1>1. InQueue(drops[p], i, Refers) = 0 /\ InQueue(drops[p], i, Claims) = 0  BY NoneCount
<1>2. VarHandles(p, i) \in Nat /\ PlaceLocks(p, i) \in Nat  BY VarsNat DEF VarHandles, PlaceLocks
<1>3. Handles(p, i) = VarHandles(p, i) + 0 /\ Locks(p, i) = PlaceLocks(p, i) + 0
  BY <1>1, Zenon DEF Handles, Locks
<1> QED  BY <1>2, <1>3

(* The same in the next state. *)
LEMMA CalmCountsNext ==
  ASSUME NEW p \in Procs, drops'[p] = <<>>, NEW i
  PROVE  Handles(p, i)' = VarHandles(p, i)' /\ Locks(p, i)' = PlaceLocks(p, i)'
<1>1. InQueue(drops'[p], i, Refers) = 0 /\ InQueue(drops'[p], i, Claims) = 0  BY NoneCount
<1>2. VarHandles(p, i)' \in Nat /\ PlaceLocks(p, i)' \in Nat  BY VarsNat DEF VarHandles, PlaceLocks
<1>3. Handles(p, i)' = VarHandles(p, i)' + 0 /\ Locks(p, i)' = PlaceLocks(p, i)' + 0
  BY <1>1, Zenon DEF Handles, Locks
<1> QED  BY <1>2, <1>3

(* What must hold of a step with nothing to drop before or after it. *)
CalmRefs(p) == \A i \in Slots : refs'[i] = refs[i] + VarHandles(p, i)' - VarHandles(p, i)
CalmLocks(p) == \A i \in Slots : PlaceLocks(p, i)' = Bit(owner'[i] = p)

(* Such a step keeps counts, locks and guards in line. *)
LEMMA CalmStep ==
  ASSUME CountInv, NEW p \in Procs, OthersSame(p), OwnLocks(p),
         drops[p] = <<>>, drops'[p] = <<>>, CalmRefs(p), CalmLocks(p)
  PROVE  Kept(p)
<1>1. RefsFollow(p)  BY CalmCounts, CalmCountsNext DEF CalmRefs, RefsFollow
<1>2. \A i \in Slots : Locks(p, i)' = Bit(owner'[i] = p)  BY CalmCountsNext DEF CalmLocks
<1>3. LockInv'  BY <1>2, LockKeep DEF CountInv
<1>4. Backed(<<>>, {cur'[p], old'[p], cwd'[p], file'[p]})
  <2>1. Len(<<>>) = 0  OBVIOUS
  <2> QED  BY <2>1 DEF Backed
<1>5. BackedInv'  BY <1>4, BackedStep DEF CountInv
<1> QED  BY <1>1, <1>3, <1>5 DEF Kept

(* A step that ends in Dropping. *)
LEMMA DropStep ==
  ASSUME CountInv, NEW p \in Procs, OthersSame(p),
         NEW s \in Seq(Item), Len(s) <= 8, Dropping(p, s), LockMoves(p, s), RefsMove(p, s),
         Backed(s, {cur'[p], old'[p], cwd'[p], file'[p]})
  PROVE  Kept(p)
<1>1. RefsFollow(p)  BY RefsDrop DEF CountInv
<1>2. LockInv'  BY LockStep DEF CountInv
<1>3. BackedInv'  BY BackedDrop DEF CountInv
<1> QED  BY <1>1, <1>2, <1>3 DEF Kept

(* What must hold of a step that drops the head of the queue and leaves    *)
(* variables and place.                                                    *)
SameVars(p) == /\ pc'[p] = pc[p] /\ cur'[p] = cur[p] /\ ino'[p] = ino[p] /\ old'[p] = old[p]
               /\ cwd'[p] = cwd[p] /\ file'[p] = file[p]
HeadRefs(p) == \A i \in Slots : refs'[i] = refs[i] - One(Head(drops[p]), i, Refers)
HeadLocks(p) == \A i \in Slots :
                   Bit(owner'[i] = p) = Bit(owner[i] = p) - One(Head(drops[p]), i, Claims)

(* Such a step keeps counts, locks and guards in line. *)
LEMMA HeadStep ==
  ASSUME CountInv, NEW p \in Procs, OthersSame(p), OwnLocks(p), SameVars(p),
         drops[p] # <<>>, drops'[p] = Tail(drops[p]), HeadRefs(p), HeadLocks(p)
  PROVE  Kept(p)
<1>1. drops[p] \in Seq(Item) /\ Len(drops[p]) <= 8 /\ refs \in [Slots -> Int]
  BY DEF CountInv, TypeOK, PlaceInv, PlaceOK
<1>2. ASSUME NEW i \in Slots
      PROVE  /\ refs'[i] = refs[i] + Handles(p, i)' - Handles(p, i)
             /\ Locks(p, i)' = Bit(owner'[i] = p)
  <2>1. /\ InQueue(drops[p], i, Refers)
           = One(Head(drops[p]), i, Refers) + InQueue(Tail(drops[p]), i, Refers)
        /\ InQueue(drops[p], i, Claims)
           = One(Head(drops[p]), i, Claims) + InQueue(Tail(drops[p]), i, Claims)
    BY <1>1, TailCount
  <2>2. VarHandles(p, i)' = VarHandles(p, i) /\ PlaceLocks(p, i)' = PlaceLocks(p, i)
    BY DEF SameVars, VarHandles, PlaceLocks
  <2>3. PICK v \in Nat, l \in Nat : v = VarHandles(p, i) /\ l = PlaceLocks(p, i)
    <3>1. VarHandles(p, i) \in Nat /\ PlaceLocks(p, i) \in Nat
      BY VarsNat DEF VarHandles, PlaceLocks
    <3> QED  BY <3>1, Zenon
  <2>4. PICK a \in Nat, b \in Nat : /\ a = InQueue(Tail(drops[p]), i, Refers)
                                    /\ b = InQueue(Tail(drops[p]), i, Claims)
    <3>1. /\ InQueue(Tail(drops[p]), i, Refers) \in Nat
          /\ InQueue(Tail(drops[p]), i, Claims) \in Nat
      BY CountNat
    <3> QED  BY <3>1, Zenon
  <2>5. PICK x \in Nat, y \in Nat : /\ x = One(Head(drops[p]), i, Refers)
                                    /\ y = One(Head(drops[p]), i, Claims)
    <3>1. One(Head(drops[p]), i, Refers) \in Nat /\ One(Head(drops[p]), i, Claims) \in Nat
      BY DEF One
    <3> QED  BY <3>1, Zenon
  <2>6. Handles(p, i) = v + (x + a) /\ Handles(p, i)' = v + a
    BY <2>1, <2>2, <2>3, <2>4, <2>5, Zenon DEF Handles
  <2>7. Locks(p, i) = l + (y + b) /\ Locks(p, i)' = l + b
    BY <2>1, <2>2, <2>3, <2>4, <2>5, Zenon DEF Locks
  <2>8. PICK r \in Int : r = refs[i]  BY <1>1
  <2>9. refs'[i] = r - x  BY <2>5, <2>8, Zenon DEF HeadRefs
  <2>10. r - x = r + (v + a) - (v + (x + a))  OBVIOUS
  <2>11. refs'[i] = refs[i] + Handles(p, i)' - Handles(p, i)  BY <2>6, <2>8, <2>9, <2>10, Zenon
  <2>12. Locks(p, i) = Bit(owner[i] = p)  BY DEF CountInv, LockInv
  <2>13. Bit(owner'[i] = p) = (l + (y + b)) - y
    <3>1. Bit(owner'[i] = p) = Bit(owner[i] = p) - One(Head(drops[p]), i, Claims)
      BY DEF HeadLocks
    <3> QED  BY <2>5, <2>7, <2>12, <3>1, Zenon
  <2>14. l + b = (l + (y + b)) - y  OBVIOUS
  <2> QED  BY <2>7, <2>11, <2>13, <2>14, Zenon
<1>3. RefsFollow(p)  BY <1>2 DEF RefsFollow
<1>4. LockInv'  BY <1>2, LockKeep DEF CountInv
<1>5. Backed(drops[p], {cur[p], old[p], cwd[p], file[p]})  BY DEF CountInv, BackedInv
<1>6. Backed(drops'[p], {cur'[p], old'[p], cwd'[p], file'[p]})
  BY <1>1, <1>5, TailBacked DEF SameVars
<1>7. BackedInv'  BY <1>6, BackedStep DEF CountInv
<1> QED  BY <1>3, <1>4, <1>7 DEF Kept

-----------------------------------------------------------------------------
(***************************************************************************)
(* The actions, one by one: types, places, counts and locks.               *)
(***************************************************************************)

(* What is shown of a step of p. *)
Good(p) == TypeOK' /\ OthersSame(p) /\ PlaceOK(p)' /\ Kept(p)

(* The other processes keep their files and working directories. *)
FilesSame(p) == \A q \in Procs : q # p => cwd'[q] = cwd[q] /\ file'[q] = file[q]

(* The other processes keep all they have. *)
LEMMA SameParts == ASSUME NEW p, WalkSame(p), FilesSame(p) PROVE OthersSame(p)
BY DEF WalkSame, FilesSame, OthersSame

(* A process at its start or back from a call. *)
LEMMA PlaceUser ==
  ASSUME NEW p \in Procs, pc'[p] = "user", cur'[p] = 0, ino'[p] = 0, old'[p] = 0,
         cwd'[p] # 0, Len(drops'[p]) <= 6
  PROVE  PlaceOK(p)'
BY DEF PlaceOK, InLink, Naming1

(* Handles and guards move from variables and place into the queue. *)
ReturnRefs(p, s) ==
    \A i \in Slots :
        refs'[i] = refs[i] + (InVars(0, 0, 0, cwd'[p], file'[p], i) + InQueue(s, i, Refers))
                   - InVars(cur[p], ino[p], old[p], cwd[p], file[p], i)
ReturnLocks(p, s) ==
    \A i \in Slots : InQueue(s, i, Claims) = AtPlace(pc[p], cur[p], ino[p], old[p], i)

(* A call returns. *)
LEMMA ReturnStep ==
  ASSUME CountInv, NEW p \in Procs, drops[p] = <<>>,
         NEW s \in Seq(Item), Len(s) <= 6, Return(p, s), RestOK', FilesSame(p), cwd'[p] # 0,
         ReturnRefs(p, s), ReturnLocks(p, s), Backed(s, {0, 0, cwd'[p], file'[p]})
  PROVE  Good(p)
<1>1. Len(s) <= 8 /\ TypeOK  BY DEF CountInv
<1>2. WalkOK' /\ WalkSame(p) /\ Returned(p, s) /\ Dropping(p, s)  BY <1>1, ReturnIs
<1>3. TypeOK'  BY <1>2, TypePartsNext
<1>4. OthersSame(p)  BY <1>2, SameParts
<1>5. After(s) \in Seq(Item) /\ Len(After(s)) <= Len(s)  BY <1>1, AfterCount
<1>6. PlaceOK(p)'
  <2>1. Len(drops'[p]) <= 6  BY <1>2, <1>5 DEF Returned
  <2> QED  BY <1>2, <2>1, PlaceUser DEF Returned
<1>7. ASSUME NEW i \in Slots
      PROVE  /\ PlaceLocks(p, i)' + InQueue(s, i, Claims) = Locks(p, i)
             /\ refs'[i] = refs[i] + (VarHandles(p, i)' + InQueue(s, i, Refers)) - Handles(p, i)
  <2>1. Handles(p, i) = VarHandles(p, i) /\ Locks(p, i) = PlaceLocks(p, i)  BY CalmCounts
  <2>2. VarHandles(p, i)' = InVars(0, 0, 0, cwd'[p], file'[p], i)
    BY <1>2 DEF Returned, VarHandles
  <2>3. PlaceLocks(p, i)' = 0
    <3>1. PlaceLocks(p, i)' = AtPlace("user", 0, 0, 0, i)  BY <1>2 DEF Returned, PlaceLocks
    <3> QED  BY <3>1 DEF AtPlace, Bit, CurLocked, InoLocked, OldLocked
  <2>4. InQueue(s, i, Claims) = PlaceLocks(p, i)  BY DEF ReturnLocks, PlaceLocks
  <2>5. PlaceLocks(p, i) \in Nat  BY VarsNat DEF PlaceLocks
  <2>6. PlaceLocks(p, i)' + InQueue(s, i, Claims) = Locks(p, i)
    BY <2>1, <2>3, <2>4, <2>5
  <2>7. refs'[i] = refs[i] + (InVars(0, 0, 0, cwd'[p], file'[p], i) + InQueue(s, i, Refers))
                   - VarHandles(p, i)
    BY DEF ReturnRefs, VarHandles
  <2> QED  BY <2>1, <2>2, <2>6, <2>7, Zenon
<1>8. LockMoves(p, s)  BY <1>7 DEF LockMoves
<1>9. RefsMove(p, s)  BY <1>7 DEF RefsMove
<1>10. Backed(s, {cur'[p], old'[p], cwd'[p], file'[p]})  BY <1>2 DEF Returned
<1>11. Kept(p)  BY <1>1, <1>2, <1>4, <1>8, <1>9, <1>10, DropStep
<1> QED  BY <1>3, <1>4, <1>6, <1>11 DEF Good

(* What a call that runs may use: its handles are slots or 0, and it has a *)
(* working directory.                                                      *)
LEMMA RunningIs ==
  ASSUME CountInv, NEW p \in Procs, NEW at, at # "gone", Running(p, at)
  PROVE  /\ TypeOK /\ RestOK /\ PlaceOK(p) /\ pc[p] = at /\ drops[p] = <<>> /\ panicked = None
         /\ cur[p] \in 0 .. NINODE /\ ino[p] \in 0 .. NINODE /\ old[p] \in 0 .. NINODE
         /\ cwd[p] \in 0 .. NINODE /\ file[p] \in 0 .. NINODE /\ cwd[p] # 0
         /\ refs \in [Slots -> Int] /\ \A i \in Slots : i # 0
<1>1. TypeOK /\ PlaceOK(p)  BY DEF CountInv, PlaceInv
<1>2. RestOK  BY <1>1, TypeParts
<1>3. pc[p] = at /\ drops[p] = <<>> /\ panicked = None  BY DEF Running
<1>4. cwd[p] # 0  BY <1>1, <1>3 DEF PlaceOK
<1>5. \A i \in Slots : i # 0  BY InodesAssumption DEF Slots
<1> QED  BY <1>1, <1>2, <1>3, <1>4, <1>5 DEF TypeOK

(* sys_mkdir and sys_mknod return. *)
LEMMA MadeGood ==
  ASSUME CountInv, NEW p \in Procs, NEW op, Made(p, op) PROVE Good(p)
<1> DEFINE c == cur[p]
           s == <<Ref(c), EndOp>>
<1>1. /\ TypeOK /\ RestOK /\ PlaceOK(p) /\ pc[p] = "made" /\ drops[p] = <<>>
      /\ c \in 0 .. NINODE /\ cwd[p] # 0 /\ refs \in [Slots -> Int] /\ \A i \in Slots : i # 0
  BY RunningIs DEF Made
<1>2. ino[p] = 0 /\ old[p] = 0  BY <1>1 DEF PlaceOK, InLink
<1>3. /\ Return(p, s)
      /\ UNCHANGED <<menu, inum, refs, valid, din, dino, ents, cwd, file, inop, asserted, panicked>>
  BY DEF Made, disk
<1>4. RestOK' /\ FilesSame(p) /\ cwd'[p] # 0  BY <1>1, <1>3 DEF RestOK, FilesSame
<1>5. s \in Seq(Item) /\ Len(s) <= 6 /\ Backed(s, {0, 0, cwd'[p], file'[p]})  BY <1>1, QueueRE
<1>6. ReturnRefs(p, s)
  <2>1. ASSUME NEW i \in Slots
        PROVE  refs'[i] = refs[i] + (InVars(0, 0, 0, cwd'[p], file'[p], i) + InQueue(s, i, Refers))
                          - InVars(c, ino[p], old[p], cwd[p], file[p], i)
    <3>1. InQueue(s, i, Refers) = Bit(c = i)  BY <1>1, QueueRE
    <3>2. refs'[i] = refs[i] /\ cwd'[p] = cwd[p] /\ file'[p] = file[p] /\ refs[i] \in Int /\ i # 0
      BY <1>1, <1>3
    <3> HIDE DEF s
    <3> QED  BY <1>2, <3>1, <3>2 DEF InVars, Bit
  <2> QED  BY <2>1 DEF ReturnRefs
<1>7. ReturnLocks(p, s)
  <2>1. ASSUME NEW i \in Slots
        PROVE  InQueue(s, i, Claims) = AtPlace(pc[p], c, ino[p], old[p], i)
    <3>1. InQueue(s, i, Claims) = 0  BY <1>1, QueueRE
    <3> HIDE DEF s
    <3> QED  BY <1>1, <1>2, <3>1 DEF AtPlace, Bit, CurLocked, InoLocked, OldLocked
  <2> QED  BY <2>1 DEF ReturnLocks
<1> HIDE DEF s
<1> QED  BY <1>1, <1>3, <1>4, <1>5, <1>6, <1>7, ReturnStep

(* What must hold of a step that replaces the head of the queue by x. *)
SwapRefs(p, x) == \A i \in Slots : /\ refs'[i] = refs[i]
                                   /\ One(x, i, Refers) = One(Head(drops[p]), i, Refers)
SwapLocks(p, x) == \A i \in Slots :
                      Bit(owner'[i] = p)
                      = Bit(owner[i] = p) - One(Head(drops[p]), i, Claims) + One(x, i, Claims)

(* What is backed stays so behind an item that is no guard. *)
LEMMA PushBacked ==
  ASSUME NEW s \in Seq(Item), NEW V, Backed(s, V), NEW x \in Item, x.k # "guard"
  PROVE  Backed(<<x>> \o s, V)
<1> DEFINE t == <<x>> \o s
<1>1. t \in Seq(Item) /\ Len(t) = Len(s) + 1 /\ Len(s) \in Nat  OBVIOUS
<1>2. t[1] = x /\ \A n \in 1 .. Len(s) : t[n + 1] = s[n]  OBVIOUS
<1> HIDE DEF t
<1> SUFFICES ASSUME NEW n \in 1 .. Len(t), t[n].k = "guard"
             PROVE  \/ t[n].i \in V
                    \/ \E m \in (n + 1) .. Len(t) : t[m].i = t[n].i /\ t[m].k \in Refers
  BY DEF Backed, t
<1>3. n - 1 \in 1 .. Len(s) /\ t[n] = s[n - 1]
  <2>1. n # 1  BY <1>2
  <2>2. n - 1 \in 1 .. Len(s)  BY <1>1, <2>1
  <2>3. t[(n - 1) + 1] = s[n - 1] /\ (n - 1) + 1 = n  BY <1>2, <2>2
  <2> QED  BY <2>2, <2>3
<1>4. \/ s[n - 1].i \in V
      \/ \E m \in ((n - 1) + 1) .. Len(s) : s[m].i = s[n - 1].i /\ s[m].k \in Refers
  BY <1>3 DEF Backed
<1>5. CASE \E m \in ((n - 1) + 1) .. Len(s) : s[m].i = s[n - 1].i /\ s[m].k \in Refers
  <2>1. PICK m \in ((n - 1) + 1) .. Len(s) : s[m].i = s[n - 1].i /\ s[m].k \in Refers  BY <1>5
  <2>2. m \in 1 .. Len(s) /\ m + 1 \in (n + 1) .. Len(t)  BY <1>1, <1>3
  <2>3. t[m + 1] = s[m]  BY <1>2, <2>2
  <2> QED  BY <1>3, <2>1, <2>2, <2>3
<1> QED  BY <1>3, <1>4, <1>5

(* Such a step keeps counts, locks and guards in line. *)
LEMMA SwapStep ==
  ASSUME CountInv, NEW p \in Procs, OthersSame(p), OwnLocks(p), SameVars(p),
         NEW x \in Item, x.k # "guard",
         drops[p] # <<>>, drops'[p] = <<x>> \o Tail(drops[p]), SwapRefs(p, x), SwapLocks(p, x)
  PROVE  Kept(p)
<1>1. drops[p] \in Seq(Item) /\ Len(drops[p]) <= 6 /\ refs \in [Slots -> Int]
  BY DEF CountInv, TypeOK, PlaceInv, PlaceOK
<1>2. Tail(drops[p]) \in Seq(Item) /\ Len(Tail(drops[p])) <= 7  BY <1>1
<1>3. ASSUME NEW i \in Slots
      PROVE  /\ refs'[i] = refs[i] + Handles(p, i)' - Handles(p, i)
             /\ Locks(p, i)' = Bit(owner'[i] = p)
  <2>1. /\ InQueue(drops[p], i, Refers)
           = One(Head(drops[p]), i, Refers) + InQueue(Tail(drops[p]), i, Refers)
        /\ InQueue(drops[p], i, Claims)
           = One(Head(drops[p]), i, Claims) + InQueue(Tail(drops[p]), i, Claims)
    <3>1. Len(drops[p]) <= 8  BY <1>1
    <3> QED  BY <1>1, <3>1, TailCount
  <2>2. /\ InQueue(drops'[p], i, Refers)
           = One(x, i, Refers) + InQueue(Tail(drops[p]), i, Refers)
        /\ InQueue(drops'[p], i, Claims)
           = One(x, i, Claims) + InQueue(Tail(drops[p]), i, Claims)
    <3> DEFINE t == Tail(drops[p])
    <3>1. t \in Seq(Item) /\ Len(t) <= 7  BY <1>2
    <3> HIDE DEF t
    <3>2. /\ InQueue(<<x>> \o t, i, Refers) = One(x, i, Refers) + InQueue(t, i, Refers)
          /\ InQueue(<<x>> \o t, i, Claims) = One(x, i, Claims) + InQueue(t, i, Claims)
      BY <3>1, PushCount
    <3> QED  BY <3>2, Zenon DEF t
  <2>3. VarHandles(p, i)' = VarHandles(p, i) /\ PlaceLocks(p, i)' = PlaceLocks(p, i)
    BY DEF SameVars, VarHandles, PlaceLocks
  <2>4. PICK v \in Nat, l \in Nat : v = VarHandles(p, i) /\ l = PlaceLocks(p, i)
    <3>1. VarHandles(p, i) \in Nat /\ PlaceLocks(p, i) \in Nat
      BY VarsNat DEF VarHandles, PlaceLocks
    <3> QED  BY <3>1, Zenon
  <2>5. PICK a \in Nat, b \in Nat : /\ a = InQueue(Tail(drops[p]), i, Refers)
                                    /\ b = InQueue(Tail(drops[p]), i, Claims)
    <3>1. /\ InQueue(Tail(drops[p]), i, Refers) \in Nat
          /\ InQueue(Tail(drops[p]), i, Claims) \in Nat
      BY CountNat
    <3> QED  BY <3>1, Zenon
  <2>6. PICK y \in Nat, z \in Nat, w \in Nat :
           y = One(Head(drops[p]), i, Refers) /\ z = One(Head(drops[p]), i, Claims)
           /\ w = One(x, i, Claims)
    <3>1. One(Head(drops[p]), i, Refers) \in Nat /\ One(Head(drops[p]), i, Claims) \in Nat
          /\ One(x, i, Claims) \in Nat
      BY DEF One
    <3> QED  BY <3>1, Zenon
  <2>7. One(x, i, Refers) = y /\ refs'[i] = refs[i]  BY <2>6 DEF SwapRefs
  <2>8. Handles(p, i) = v + (y + a) /\ Handles(p, i)' = v + (y + a)
    BY <2>1, <2>2, <2>3, <2>4, <2>5, <2>6, <2>7, Zenon DEF Handles
  <2>9. Locks(p, i) = l + (z + b) /\ Locks(p, i)' = l + (w + b)
    BY <2>1, <2>2, <2>3, <2>4, <2>5, <2>6, Zenon DEF Locks
  <2>10. PICK r \in Int : r = refs[i]  BY <1>1
  <2>11. r = r + (v + (y + a)) - (v + (y + a))  OBVIOUS
  <2>12. refs'[i] = refs[i] + Handles(p, i)' - Handles(p, i)
    BY <2>7, <2>8, <2>10, <2>11, Zenon
  <2>13. Locks(p, i) = Bit(owner[i] = p)  BY DEF CountInv, LockInv
  <2>14. Bit(owner'[i] = p) = (l + (z + b)) - z + w
    <3>1. Bit(owner'[i] = p)
          = Bit(owner[i] = p) - One(Head(drops[p]), i, Claims) + One(x, i, Claims)
      BY DEF SwapLocks
    <3> QED  BY <2>6, <2>9, <2>13, <3>1, Zenon
  <2>15. l + (w + b) = (l + (z + b)) - z + w  OBVIOUS
  <2> QED  BY <2>9, <2>12, <2>14, <2>15, Zenon
<1>4. RefsFollow(p)  BY <1>3 DEF RefsFollow
<1>5. LockInv'  BY <1>3, LockKeep DEF CountInv
<1>6. Backed(drops[p], {cur[p], old[p], cwd[p], file[p]})  BY DEF CountInv, BackedInv
<1>7. Backed(Tail(drops[p]), {cur[p], old[p], cwd[p], file[p]})  BY <1>1, <1>6, TailBacked
<1>8. Backed(drops'[p], {cur'[p], old'[p], cwd'[p], file'[p]})
  BY <1>2, <1>7, PushBacked DEF SameVars
<1>9. BackedInv'  BY <1>8, BackedStep DEF CountInv
<1> QED  BY <1>4, <1>5, <1>9 DEF Kept

(* What the head of a queue is. *)
LEMMA HeadIs ==
  ASSUME CountInv, NEW p \in Procs, NEW k, Drops(p, k)
  PROVE  /\ drops[p] \in Seq(Item) /\ drops[p] # <<>> /\ Len(drops[p]) <= 6
         /\ Head(drops[p]) \in Item /\ Head(drops[p]).k = k
         /\ Head(drops[p]).i \in 0 .. NINODE
         /\ Tail(drops[p]) \in Seq(Item) /\ Len(Tail(drops[p])) = Len(drops[p]) - 1
         /\ panicked = None /\ TypeOK
<1>1. drops[p] \in Seq(Item) /\ Len(drops[p]) <= 6 /\ TypeOK
  BY DEF CountInv, TypeOK, PlaceInv, PlaceOK
<1>2. drops[p] # <<>> /\ Head(drops[p]).k = k /\ panicked = None  BY DEF Drops
<1>3. Head(drops[p]) \in Item  BY <1>1, <1>2
<1>4. Head(drops[p]).i \in 0 .. NINODE  BY <1>3 DEF Item
<1>5. Tail(drops[p]) \in Seq(Item) /\ Len(Tail(drops[p])) = Len(drops[p]) - 1  BY <1>1, <1>2
<1> QED  BY <1>1, <1>2, <1>3, <1>4, <1>5

(* A step that changes no more of p's place than the queue. *)
LEMMA PlaceHead ==
  ASSUME CountInv, NEW p \in Procs, SameVars(p), call' = call, path' = path, fresh' = fresh,
         menu' = menu, Len(drops'[p]) <= 6
  PROVE  PlaceOK(p)'
<1>1. PlaceOK(p)  BY DEF CountInv, PlaceInv
<1>2. IsParent(p)' <=> IsParent(p)  BY DEF IsParent, SameVars
<1> QED  BY <1>1, <1>2 DEF PlaceOK, SameVars

(* The drop of a guard. *)
LEMMA DropGuardGood == ASSUME CountInv, NEW p \in Procs, DropGuard(p) PROVE Good(p)
<1> DEFINE h == Head(drops[p])
<1>1. /\ drops[p] \in Seq(Item) /\ drops[p] # <<>> /\ Len(drops[p]) <= 6 /\ h \in Item
      /\ h.k = "guard" /\ h.i \in 0 .. NINODE /\ Tail(drops[p]) \in Seq(Item)
      /\ Len(Tail(drops[p])) = Len(drops[p]) - 1 /\ TypeOK
  BY HeadIs DEF DropGuard
<1>2. owner' = [owner EXCEPT ![h.i] = None] /\ drops' = [drops EXCEPT ![p] = Tail(drops[p])]
      /\ UNCHANGED <<menu, inum, refs, valid, din, dino, ents, pc, call, path, cur, ino, old,
                     fresh, cwd, file, inop, asserted>>
  BY DEF DropGuard, Queue, disk, prog
<1>3. drops' \in [Procs -> Seq(Item)] /\ drops'[p] = Tail(drops[p])
      /\ \A q \in Procs : q # p => drops'[q] = drops[q]
  <2>1. drops \in [Procs -> Seq(Item)]  BY <1>1 DEF TypeOK
  <2> QED  BY <1>1, <1>2, <2>1
<1>4. owner' \in [Slots -> Procs \cup {None}]
      /\ \A i \in Slots : owner'[i] = IF i = h.i THEN None ELSE owner[i]
  <2>1. owner \in [Slots -> Procs \cup {None}]  BY <1>1 DEF TypeOK
  <2> QED  BY <1>2, <2>1
<1>5. TypeOK'  BY <1>1, <1>2, <1>3, <1>4 DEF TypeOK
<1>6. OthersSame(p) /\ SameVars(p)  BY <1>2, <1>3 DEF OthersSame, SameVars
<1>7. PlaceOK(p)'  BY <1>1, <1>2, <1>3, <1>6, PlaceHead
<1>8. HeadRefs(p)
  <2>1. refs \in [Slots -> Int]  BY <1>1 DEF TypeOK
  <2>2. \A i \in Slots : One(h, i, Refers) = 0  BY <1>1 DEF One, Refers
  <2> HIDE DEF h
  <2>3. \A i \in Slots : refs'[i] = refs[i] - One(h, i, Refers)  BY <1>2, <2>1, <2>2
  <2> QED  BY <2>3 DEF HeadRefs, h
<1>9. ASSUME NEW i \in Slots, i = h.i PROVE owner[i] = p
  <2>1. One(h, i, Claims) = 1  BY <1>1, <1>9 DEF One, Claims
  <2>2. InQueue(drops[p], i, Claims) = One(h, i, Claims) + InQueue(Tail(drops[p]), i, Claims)
    <3>1. Len(drops[p]) <= 8  BY <1>1
    <3> QED  BY <1>1, <3>1, TailCount
  <2>3. PICK a \in Nat, b \in Nat :
           a = InQueue(Tail(drops[p]), i, Claims) /\ b = PlaceLocks(p, i)
    <3>1. InQueue(Tail(drops[p]), i, Claims) \in Nat  BY CountNat
    <3>2. PlaceLocks(p, i) \in Nat  BY VarsNat DEF PlaceLocks
    <3> QED  BY <3>1, <3>2, Zenon
  <2>4. b + (1 + a) = Bit(owner[i] = p)
    <3>1. Locks(p, i) = Bit(owner[i] = p)  BY DEF CountInv, LockInv
    <3> QED  BY <2>1, <2>2, <2>3, <3>1, Zenon DEF Locks
  <2> QED  BY <2>4 DEF Bit
<1>10. HeadLocks(p)
  <2>1. \A i \in Slots : One(h, i, Claims) = Bit(i = h.i)  BY <1>1 DEF One, Claims, Bit
  <2>2. p # None  BY InodesAssumption
  <2> HIDE DEF h
  <2>3. \A i \in Slots : Bit(owner'[i] = p) = Bit(owner[i] = p) - One(h, i, Claims)
    BY <1>4, <1>9, <2>1, <2>2 DEF Bit
  <2> QED  BY <2>3 DEF HeadLocks, h
<1>11. OwnLocks(p)  BY <1>4, <1>9 DEF OwnLocks
<1>12. Kept(p)  BY <1>1, <1>3, <1>6, <1>8, <1>10, <1>11, HeadStep
<1> QED  BY <1>5, <1>6, <1>7, <1>12 DEF Good

(* begin_op and end_op. *)
LEMMA DropOpGood == ASSUME CountInv, NEW p \in Procs, DropOp(p) PROVE Good(p)
<1> DEFINE h == Head(drops[p])
<1>1. /\ drops[p] \in Seq(Item) /\ drops[p] # <<>> /\ Len(drops[p]) <= 6
      /\ h.k \in {"begin", "end"} /\ Tail(drops[p]) \in Seq(Item)
      /\ Len(Tail(drops[p])) = Len(drops[p]) - 1 /\ TypeOK
  <2>1. CASE Drops(p, "begin")  BY <2>1, HeadIs
  <2>2. CASE Drops(p, "end")  BY <2>2, HeadIs
  <2> QED  BY <2>1, <2>2 DEF DropOp
<1>2. inop' = [inop EXCEPT ![p] = (h.k = "begin")]
      /\ drops' = [drops EXCEPT ![p] = Tail(drops[p])]
      /\ UNCHANGED <<menu, inum, refs, owner, valid, din, dino, ents, pc, call, path, cur, ino,
                     old, fresh, cwd, file, asserted>>
  BY DEF DropOp, Queue, disk, prog, cache
<1>3. drops' \in [Procs -> Seq(Item)] /\ drops'[p] = Tail(drops[p])
      /\ \A q \in Procs : q # p => drops'[q] = drops[q]
  <2>1. drops \in [Procs -> Seq(Item)]  BY <1>1 DEF TypeOK
  <2> QED  BY <1>1, <1>2, <2>1
<1>4. inop' \in [Procs -> BOOLEAN]
  <2>1. inop \in [Procs -> BOOLEAN]  BY <1>1 DEF TypeOK
  <2>2. (h.k = "begin") \in BOOLEAN  OBVIOUS
  <2> QED  BY <1>2, <2>1, <2>2
<1>5. TypeOK'  BY <1>1, <1>2, <1>3, <1>4 DEF TypeOK
<1>6. OthersSame(p) /\ SameVars(p)  BY <1>2, <1>3 DEF OthersSame, SameVars
<1>7. PlaceOK(p)'  BY <1>1, <1>2, <1>3, <1>6, PlaceHead
<1>8. \A i \in Slots : One(h, i, Refers) = 0 /\ One(h, i, Claims) = 0
  BY <1>1 DEF One, Refers, Claims
<1> HIDE DEF h
<1>9. HeadRefs(p)
  <2>1. refs \in [Slots -> Int]  BY <1>1 DEF TypeOK
  <2>3. \A i \in Slots : refs'[i] = refs[i] - One(h, i, Refers)  BY <1>2, <1>8, <2>1
  <2> QED  BY <2>3 DEF HeadRefs, h
<1>10. HeadLocks(p)
  <2>3. \A i \in Slots : Bit(owner'[i] = p) = Bit(owner[i] = p) - One(h, i, Claims)
    BY <1>2, <1>8 DEF Bit
  <2> QED  BY <2>3 DEF HeadLocks, h
<1>11. OwnLocks(p)  BY <1>2 DEF OwnLocks
<1>12. Kept(p)  BY <1>1, <1>3, <1>6, <1>9, <1>10, <1>11, HeadStep
<1> QED  BY <1>5, <1>6, <1>7, <1>12 DEF Good

(* The locked part of put that gives up a slot. *)
LEMMA PutDerefGood == ASSUME CountInv, NEW p \in Procs, PutDeref(p) PROVE Good(p)
<1> DEFINE h == Head(drops[p])
<1>1. /\ drops[p] \in Seq(Item) /\ drops[p] # <<>> /\ Len(drops[p]) <= 6 /\ h \in Item
      /\ h.k = "deref" /\ h.i \in 0 .. NINODE /\ Tail(drops[p]) \in Seq(Item)
      /\ Len(Tail(drops[p])) = Len(drops[p]) - 1 /\ TypeOK
  BY HeadIs DEF PutDeref
<1>2. /\ refs' = [refs EXCEPT ![h.i] = @ - 1] /\ drops' = [drops EXCEPT ![p] = Tail(drops[p])]
      /\ inum' = [inum EXCEPT ![h.i] = IF refs'[h.i] = 0 THEN 0 ELSE @]
      /\ asserted' = (asserted \/ refs[h.i] # 1)
      /\ UNCHANGED <<menu, owner, valid, din, dino, ents, pc, call, path, cur, ino, old,
                     fresh, cwd, file, inop>>
  BY DEF PutDeref, Queue, disk, prog
<1>3. drops' \in [Procs -> Seq(Item)] /\ drops'[p] = Tail(drops[p])
      /\ \A q \in Procs : q # p => drops'[q] = drops[q]
  <2>1. drops \in [Procs -> Seq(Item)]  BY <1>1 DEF TypeOK
  <2> QED  BY <1>1, <1>2, <2>1
<1>4. /\ refs' \in [Slots -> Int]
      /\ \A i \in Slots : refs'[i] = IF i = h.i THEN refs[i] - 1 ELSE refs[i]
  <2>1. refs \in [Slots -> Int]  BY <1>1 DEF TypeOK
  <2> HIDE DEF h
  <2>2. refs' = [refs EXCEPT ![h.i] = refs[h.i] - 1]  BY <1>2
  <2> QED  BY <2>1, <2>2, RefsFall
<1>5. inum' \in [Slots -> 0 .. NINUM]
  <2>1. inum \in [Slots -> 0 .. NINUM] /\ 0 \in 0 .. NINUM  BY <1>1, InodesAssumption DEF TypeOK
  <2> HIDE DEF h
  <2>2. inum' = inum \/ inum' = [inum EXCEPT ![h.i] = 0]
    <3>1. CASE refs'[h.i] = 0  BY <1>2, <2>1, <3>1
    <3>2. CASE refs'[h.i] # 0
      <4>1. inum' = [inum EXCEPT ![h.i] = inum[h.i]]  BY <1>2, <3>2
      <4> QED  BY <2>1, <4>1
    <3> QED  BY <3>1, <3>2
  <2> QED  BY <2>1, <2>2
<1>6. asserted' \in BOOLEAN  BY <1>2
<1>7. TypeOK'  BY <1>1, <1>2, <1>3, <1>4, <1>5, <1>6 DEF TypeOK
<1>8. OthersSame(p) /\ SameVars(p)  BY <1>2, <1>3 DEF OthersSame, SameVars
<1>9. PlaceOK(p)'  BY <1>1, <1>2, <1>3, <1>8, PlaceHead
<1>10. \A i \in Slots : One(h, i, Refers) = Bit(i = h.i) /\ One(h, i, Claims) = 0
  BY <1>1 DEF One, Refers, Claims, Bit
<1> HIDE DEF h
<1>11. HeadRefs(p)
  <2>1. refs \in [Slots -> Int]  BY <1>1 DEF TypeOK
  <2>2. \A i \in Slots : refs'[i] = refs[i] - One(h, i, Refers)
    BY <1>4, <1>10, <2>1 DEF Bit
  <2> QED  BY <2>2 DEF HeadRefs, h
<1>12. HeadLocks(p)
  <2>1. \A i \in Slots : Bit(owner'[i] = p) = Bit(owner[i] = p) - One(h, i, Claims)
    BY <1>2, <1>10 DEF Bit
  <2> QED  BY <2>1 DEF HeadLocks, h
<1>13. OwnLocks(p)  BY <1>2 DEF OwnLocks
<1>14. Kept(p)  BY <1>1, <1>3, <1>8, <1>11, <1>12, <1>13, HeadStep
<1> QED  BY <1>7, <1>8, <1>9, <1>14 DEF Good

(* An inode that is not in use. *)
LEMMA EmptyIs == Empty \in Dinode
BY DEF Empty, Dinode, ITypes

(* put up to the end of its first locked part. *)
LEMMA PutGood == ASSUME CountInv, NEW p \in Procs, Put(p) PROVE Good(p)
<1> DEFINE h == Head(drops[p])
           t == Tail(drops[p])
           k == h.i
<1>1. /\ drops[p] \in Seq(Item) /\ drops[p] # <<>> /\ Len(drops[p]) <= 6 /\ h \in Item
      /\ h.k = "ref" /\ k \in 0 .. NINODE /\ t \in Seq(Item)
      /\ Len(t) = Len(drops[p]) - 1 /\ TypeOK
  BY HeadIs DEF Put
<1>2. /\ refs \in [Slots -> Int] /\ inum \in [Slots -> 0 .. NINUM]
      /\ owner \in [Slots -> Procs \cup {None}] /\ valid \in [Slots -> 0 .. NINUM]
      /\ din \in [Slots -> Dinode] /\ drops \in [Procs -> Seq(Item)] /\ 0 \in 0 .. NINUM
  BY <1>1, InodesAssumption DEF TypeOK
<1>3. /\ inum' = [inum EXCEPT ![k] = IF refs'[k] = 0 THEN 0 ELSE @]
      /\ UNCHANGED <<menu, dino, ents, pc, call, path, cur, ino, old, fresh, cwd, file, inop,
                     asserted, panicked>>
  BY DEF Put, disk, prog
<1>4. /\ \A i \in Slots : One(h, i, Refers) = Bit(i = k) /\ One(h, i, Claims) = 0
      /\ \A i \in Slots : One(Trunc(k), i, Refers) = Bit(i = k)
                          /\ One(Trunc(k), i, Claims) = Bit(i = k)
      /\ Trunc(k) \in Item /\ Trunc(k).k # "guard"
  <2>1. \A i \in Slots : One(h, i, Refers) = Bit(i = k) /\ One(h, i, Claims) = 0
    BY <1>1 DEF One, Refers, Claims, Bit
  <2> HIDE DEF k
  <2>2. \A i \in Slots : One(Trunc(k), i, Refers) = Bit(i = k)
                         /\ One(Trunc(k), i, Claims) = Bit(i = k)
    BY DEF One, Refers, Claims, Bit, Trunc
  <2>3. Trunc(k) \in Item /\ Trunc(k).k # "guard"  BY <1>1, ItemsAre DEF Trunc
  <2> QED  BY <2>1, <2>2, <2>3
<1>5. \/ /\ refs' = [refs EXCEPT ![k] = refs[k] - 1] /\ drops' = [drops EXCEPT ![p] = t]
         /\ owner' = owner /\ valid' = valid /\ din' = din
      \/ /\ refs[k] = 1 /\ owner[k] = None /\ refs' = [refs EXCEPT ![k] = 0]
         /\ drops' = [drops EXCEPT ![p] = t]
         /\ owner' = owner
         /\ valid' = [valid EXCEPT ![k] = 0] /\ din' = [din EXCEPT ![k] = Empty]
      \/ /\ owner[k] = None /\ owner' = [owner EXCEPT ![k] = p]
         /\ drops' = [drops EXCEPT ![p] = <<Trunc(k)>> \o t]
         /\ refs' = refs /\ valid' = valid /\ din' = din
  BY DEF Put, Queue
<1> HIDE DEF h, t, k
<1>6. inum' \in [Slots -> 0 .. NINUM]
  <2>2. inum' = inum \/ inum' = [inum EXCEPT ![k] = 0]
    <3>1. CASE refs'[k] = 0  BY <1>3, <3>1
    <3>2. CASE refs'[k] # 0
      <4>1. inum' = [inum EXCEPT ![k] = inum[k]]  BY <1>3, <3>2
      <4> QED  BY <1>2, <4>1
    <3> QED  BY <3>1, <3>2
  <2> QED  BY <1>2, <2>2
<1>7. /\ refs' \in [Slots -> Int] /\ owner' \in [Slots -> Procs \cup {None}]
      /\ valid' \in [Slots -> 0 .. NINUM] /\ din' \in [Slots -> Dinode]
  <2>1. Empty \in Dinode  BY EmptyIs
  <2>2. CASE refs' = [refs EXCEPT ![k] = refs[k] - 1] /\ UNCHANGED <<owner, valid, din>>
    <3>1. refs \in [Slots -> Int] /\ refs' = [refs EXCEPT ![k] = refs[k] - 1]  BY <1>2, <2>2
    <3>2. refs' \in [Slots -> Int]  BY <3>1, RefsFall
    <3> QED  BY <1>2, <2>2, <3>2
  <2>3. CASE refs' = [refs EXCEPT ![k] = 0] /\ owner' = owner
             /\ valid' = [valid EXCEPT ![k] = 0] /\ din' = [din EXCEPT ![k] = Empty]
    <3>1. refs' \in [Slots -> Int]
      <4>1. refs \in [Slots -> Int] /\ 0 \in Int  BY <1>2
      <4> QED  BY <2>3, <4>1
    <3>2. valid' \in [Slots -> 0 .. NINUM]  BY <1>2, <2>3
    <3>3. din' \in [Slots -> Dinode]  BY <1>2, <2>1, <2>3
    <3> QED  BY <1>2, <2>3, <3>1, <3>2, <3>3
  <2>4. CASE refs' = refs /\ owner' = [owner EXCEPT ![k] = p] /\ valid' = valid /\ din' = din
    BY <1>2, <2>4
  <2> QED  BY <1>5, <2>2, <2>3, <2>4
<1>8. /\ \A q \in Procs : q # p => drops'[q] = drops[q]
      /\ drops' \in [Procs -> Seq(Item)] /\ Len(drops'[p]) <= 6
      /\ drops'[p] = t \/ drops'[p] = <<Trunc(k)>> \o t
  <2>1. <<Trunc(k)>> \o t \in Seq(Item) /\ Len(<<Trunc(k)>> \o t) = Len(t) + 1  BY <1>1, <1>4
  <2> DEFINE u == <<Trunc(k)>> \o t
  <2>2. u \in Seq(Item) /\ Len(u) <= 6 /\ Len(t) <= 6 /\ t \in Seq(Item)  BY <1>1, <2>1
  <2>3. drops' = [drops EXCEPT ![p] = t] \/ drops' = [drops EXCEPT ![p] = u]  BY <1>5
  <2> HIDE DEF u
  <2>4. drops'[p] = t \/ drops'[p] = u  BY <1>2, <2>3
  <2>5. \A q \in Procs : q # p => drops'[q] = drops[q]  BY <1>2, <2>3
  <2>6. drops' \in [Procs -> Seq(Item)]  BY <1>2, <2>2, <2>3
  <2> QED  BY <2>2, <2>4, <2>5, <2>6 DEF u
<1>9. TypeOK'  BY <1>1, <1>3, <1>6, <1>7, <1>8 DEF TypeOK
<1>10. OthersSame(p) /\ SameVars(p)  BY <1>3, <1>8 DEF OthersSame, SameVars
<1>11. PlaceOK(p)'  BY <1>3, <1>8, <1>10, PlaceHead
<1>12. Kept(p)
  <2>1. CASE /\ \/ refs' = [refs EXCEPT ![k] = refs[k] - 1]
                \/ refs[k] = 1 /\ refs' = [refs EXCEPT ![k] = 0]
             /\ drops' = [drops EXCEPT ![p] = t] /\ owner' = owner
    <3>1. \A i \in Slots : refs'[i] = refs[i] - One(h, i, Refers)
      <4>1. \A i \in Slots : refs'[i] = IF i = k THEN refs[i] - 1 ELSE refs[i]
        <5>1. CASE refs' = [refs EXCEPT ![k] = refs[k] - 1]
          <6>1. refs \in [Slots -> Int]  BY <1>2
          <6> QED  BY <5>1, <6>1, RefsFall
        <5>2. CASE refs[k] = 1 /\ refs' = [refs EXCEPT ![k] = 0]  BY <1>2, <5>2
        <5> QED  BY <2>1, <5>1, <5>2
      <4>2. ASSUME NEW i \in Slots PROVE refs'[i] = refs[i] - One(h, i, Refers)
        <5>1. refs[i] \in Int  BY <1>2
        <5>2. One(h, i, Refers) = Bit(i = k)  BY <1>4
        <5>3. refs'[i] = IF i = k THEN refs[i] - 1 ELSE refs[i]  BY <4>1
        <5> QED  BY <5>1, <5>2, <5>3 DEF Bit
      <4> QED  BY <4>2
    <3>2. HeadRefs(p)  BY <3>1 DEF HeadRefs, h
    <3>3. \A i \in Slots : Bit(owner'[i] = p) = Bit(owner[i] = p) - One(h, i, Claims)
      BY <1>4, <2>1 DEF Bit
    <3>4. HeadLocks(p)  BY <3>3 DEF HeadLocks, h
    <3>5. OwnLocks(p)  BY <2>1 DEF OwnLocks
    <3>6. drops'[p] = Tail(drops[p])  BY <1>2, <2>1 DEF t
    <3> QED  BY <1>1, <1>10, <3>2, <3>4, <3>5, <3>6, HeadStep
  <2>2. CASE /\ owner[k] = None /\ owner' = [owner EXCEPT ![k] = p] /\ refs' = refs
             /\ drops' = [drops EXCEPT ![p] = <<Trunc(k)>> \o t]
    <3> DEFINE x == Trunc(k)
    <3> HIDE DEF x
    <3>0. x \in Item /\ x.k # "guard"  BY <1>4 DEF x
    <3>1. \A i \in Slots : refs'[i] = refs[i] /\ One(x, i, Refers) = One(h, i, Refers)
      BY <1>4, <2>2 DEF x
    <3>2. SwapRefs(p, x)  BY <3>1 DEF SwapRefs, h
    <3>3. \A i \in Slots : owner'[i] = IF i = k THEN p ELSE owner[i]  BY <1>2, <2>2
    <3>4. p # None  BY InodesAssumption
    <3>5. \A i \in Slots : One(h, i, Claims) = 0 /\ One(x, i, Claims) = Bit(i = k)
      BY <1>4 DEF x
    <3>6. \A i \in Slots : Bit(owner'[i] = p)
                           = Bit(owner[i] = p) - One(h, i, Claims) + One(x, i, Claims)
      BY <2>2, <3>3, <3>4, <3>5 DEF Bit
    <3>7. SwapLocks(p, x)  BY <3>6 DEF SwapLocks, h
    <3>8. OwnLocks(p)  BY <2>2, <3>3 DEF OwnLocks
    <3>9. drops'[p] = <<x>> \o Tail(drops[p])  BY <1>2, <2>2 DEF t, x
    <3> QED  BY <1>1, <1>10, <3>0, <3>2, <3>7, <3>8, <3>9, SwapStep
  <2>3. CASE /\ refs' = [refs EXCEPT ![k] = refs[k] - 1] /\ drops' = [drops EXCEPT ![p] = t]
             /\ owner' = owner
    BY <2>1, <2>3, Zenon
  <2>4. CASE /\ refs[k] = 1 /\ refs' = [refs EXCEPT ![k] = 0]
             /\ drops' = [drops EXCEPT ![p] = t] /\ owner' = owner
    BY <2>1, <2>4, Zenon
  <2> QED  BY <1>5, <2>2, <2>3, <2>4, Zenon
<1> QED  BY <1>9, <1>10, <1>11, <1>12 DEF Good

(* Elements of queues put together. *)
LEMMA ConcatIs ==
  ASSUME NEW S, NEW s \in Seq(S), NEW t \in Seq(S)
  PROVE  /\ s \o t \in Seq(S) /\ Len(s \o t) = Len(s) + Len(t)
         /\ \A n \in 1 .. Len(s) + Len(t) :
               (s \o t)[n] = IF n <= Len(s) THEN s[n] ELSE t[n - Len(s)]
OBVIOUS

(* The guard in front of what put has still to do is dropped at once. *)
LEMMA TruncQueue ==
  ASSUME NEW t \in Seq(Item), NEW a \in Item, NEW b \in Item
  PROVE  /\ <<a, b>> \o t # <<>> /\ Head(<<a, b>> \o t) = a
         /\ Tail(<<a, b>> \o t) = <<b>> \o t
         /\ <<b>> \o t \in Seq(Item) /\ Len(<<b>> \o t) = Len(t) + 1
<1> DEFINE s == <<a, b>>
           u == <<b>>
<1>1. s \in Seq(Item) /\ u \in Seq(Item) /\ Len(s) = 2 /\ Len(u) = 1  OBVIOUS
<1>2. s[1] = a /\ s[2] = b /\ u[1] = b  OBVIOUS
<1> HIDE DEF s, u
<1>3. Len(s \o t) = Len(t) + 2 /\ Len(u \o t) = Len(t) + 1 /\ Len(t) \in Nat
      /\ s \o t \in Seq(Item) /\ u \o t \in Seq(Item)
  <2>1. Len(t) \in Nat  OBVIOUS
  <2>2. Len(s \o t) = Len(s) + Len(t) /\ s \o t \in Seq(Item)  BY <1>1, ConcatIs
  <2>3. Len(u \o t) = Len(u) + Len(t) /\ u \o t \in Seq(Item)  BY <1>1, ConcatIs
  <2> QED  BY <1>1, <2>1, <2>2, <2>3
<1>4. s \o t # <<>> /\ Head(s \o t) = a
  <2>1. 1 \in 1 .. Len(s) + Len(t) /\ 1 <= Len(s)  BY <1>1, <1>3
  <2>2. (s \o t)[1] = s[1]  BY <1>1, <2>1, ConcatIs
  <2> QED  BY <1>2, <1>3, <2>2
<1>5. Tail(s \o t) = u \o t
  <2>1. Tail(s \o t) \in Seq(Item) /\ Len(Tail(s \o t)) = Len(t) + 1  BY <1>3, <1>4
  <2>2. ASSUME NEW n \in 1 .. Len(t) + 1 PROVE Tail(s \o t)[n] = (u \o t)[n]
    <3>1. Tail(s \o t)[n] = (s \o t)[n + 1]  BY <1>3, <1>4, <2>1
    <3>2. (s \o t)[n + 1] = IF n + 1 <= 2 THEN s[n + 1] ELSE t[(n + 1) - 2]
      BY <1>1, <1>3, ConcatIs
    <3>3. (u \o t)[n] = IF n <= 1 THEN u[n] ELSE t[n - 1]  BY <1>1, <1>3, ConcatIs
    <3> QED  BY <1>2, <1>3, <3>1, <3>2, <3>3
  <2> QED  BY <1>3, <2>1, <2>2, SameSeq
<1> QED  BY <1>3, <1>4, <1>5 DEF s, u

(* put has freed the inode and unlocked its data. *)
LEMMA PutTruncateGood == ASSUME CountInv, NEW p \in Procs, PutTruncate(p) PROVE Good(p)
<1> DEFINE h == Head(drops[p])
           t == Tail(drops[p])
           k == h.i
<1>1. /\ drops[p] \in Seq(Item) /\ drops[p] # <<>> /\ Len(drops[p]) <= 6 /\ h \in Item
      /\ h.k = "trunc" /\ k \in 0 .. NINODE /\ t \in Seq(Item)
      /\ Len(t) = Len(drops[p]) - 1 /\ TypeOK
  BY HeadIs DEF PutTruncate
<1>2. /\ refs \in [Slots -> Int] /\ inum \in [Slots -> 0 .. NINUM]
      /\ owner \in [Slots -> Procs \cup {None}] /\ valid \in [Slots -> 0 .. NINUM]
      /\ din \in [Slots -> Dinode] /\ drops \in [Procs -> Seq(Item)] /\ 0 \in 0 .. NINUM
      /\ dino \in [Inums -> Dinode] /\ ents \in [Inums -> Seq(DirEntry)]
  BY <1>1, InodesAssumption DEF TypeOK
<1>3. /\ din' = [din EXCEPT ![k] = Empty] /\ dino' = [dino EXCEPT ![valid[k]] = Empty]
      /\ ents' = [ents EXCEPT ![valid[k]] = <<>>] /\ valid' = [valid EXCEPT ![k] = 0]
      /\ Dropping(p, <<Guard(k), Deref(k)>> \o t)
      /\ UNCHANGED <<menu, inum, refs, pc, call, path, cur, ino, old, fresh, cwd, file, inop,
                     asserted>>
  BY DEF PutTruncate, prog
<1>4. /\ \A i \in Slots : One(h, i, Refers) = Bit(i = k) /\ One(h, i, Claims) = Bit(i = k)
      /\ \A i \in Slots : One(Deref(k), i, Refers) = Bit(i = k) /\ One(Deref(k), i, Claims) = 0
      /\ Deref(k) \in Item /\ Deref(k).k # "guard" /\ Guard(k) \in Item
      /\ Guard(k).k = "guard" /\ Guard(k).i = k
  <2>1. \A i \in Slots : One(h, i, Refers) = Bit(i = k) /\ One(h, i, Claims) = Bit(i = k)
    BY <1>1 DEF One, Refers, Claims, Bit
  <2> HIDE DEF k
  <2>2. \A i \in Slots : One(Deref(k), i, Refers) = Bit(i = k) /\ One(Deref(k), i, Claims) = 0
    BY DEF One, Refers, Claims, Bit, Deref
  <2>3. Deref(k) \in Item /\ Deref(k).k # "guard" /\ Guard(k) \in Item
        /\ Guard(k).k = "guard" /\ Guard(k).i = k
    BY <1>1, ItemsAre DEF Deref, Guard
  <2> QED  BY <2>1, <2>2, <2>3
<1> HIDE DEF h, t, k
<1> DEFINE x == Deref(k)
           g == Guard(k)
           u == <<x>> \o t
<1> HIDE DEF x, g
<1>5. x \in Item /\ x.k # "guard" /\ g \in Item /\ g.k = "guard" /\ g.i = k  BY <1>4 DEF x, g
<1>6. Dropping(p, <<g, x>> \o t)  BY <1>3 DEF x, g
<1>7. /\ <<g, x>> \o t # <<>> /\ Head(<<g, x>> \o t) = g /\ Tail(<<g, x>> \o t) = u
      /\ u \in Seq(Item) /\ Len(u) = Len(t) + 1
  BY <1>1, <1>5, TruncQueue
<1> HIDE DEF u
<1>8. drops' = [drops EXCEPT ![p] = u] /\ owner' = [owner EXCEPT ![k] = None]
  BY <1>5, <1>6, <1>7 DEF Dropping, Queue
<1>9. /\ drops' \in [Procs -> Seq(Item)] /\ drops'[p] = u /\ Len(u) <= 6
      /\ \A q \in Procs : q # p => drops'[q] = drops[q]
  BY <1>1, <1>2, <1>7, <1>8
<1>10. /\ owner' \in [Slots -> Procs \cup {None}]
       /\ \A i \in Slots : owner'[i] = IF i = k THEN None ELSE owner[i]
  BY <1>2, <1>8
<1>11. /\ din' \in [Slots -> Dinode] /\ dino' \in [Inums -> Dinode]
       /\ ents' \in [Inums -> Seq(DirEntry)] /\ valid' \in [Slots -> 0 .. NINUM]
  <2>1. Empty \in Dinode  BY EmptyIs
  <2>2. <<>> \in Seq(DirEntry)  OBVIOUS
  <2> QED  BY <1>2, <1>3, <2>1, <2>2
<1>12. TypeOK'  BY <1>1, <1>3, <1>9, <1>10, <1>11 DEF TypeOK
<1>13. OthersSame(p) /\ SameVars(p)  BY <1>3, <1>9 DEF OthersSame, SameVars
<1>14. PlaceOK(p)'  BY <1>3, <1>9, <1>13, PlaceHead
<1>15. ASSUME NEW i \in Slots, i = k PROVE owner[i] = p
  <2>1. One(h, i, Claims) = 1  BY <1>4, <1>15 DEF Bit
  <2>2. InQueue(drops[p], i, Claims) = One(h, i, Claims) + InQueue(t, i, Claims)
    <3>1. Len(drops[p]) <= 8  BY <1>1
    <3> QED  BY <1>1, <3>1, TailCount DEF h, t
  <2>3. PICK a \in Nat, b \in Nat : a = InQueue(t, i, Claims) /\ b = PlaceLocks(p, i)
    <3>1. InQueue(t, i, Claims) \in Nat  BY CountNat
    <3>2. PlaceLocks(p, i) \in Nat  BY VarsNat DEF PlaceLocks
    <3> QED  BY <3>1, <3>2, Zenon
  <2>4. b + (1 + a) = Bit(owner[i] = p)
    <3>1. Locks(p, i) = Bit(owner[i] = p)  BY DEF CountInv, LockInv
    <3> QED  BY <2>1, <2>2, <2>3, <3>1, Zenon DEF Locks
  <2> QED  BY <2>4 DEF Bit
<1>16. SwapRefs(p, x)
  <2>1. \A i \in Slots : refs'[i] = refs[i] /\ One(x, i, Refers) = One(h, i, Refers)
    BY <1>3, <1>4 DEF x
  <2> QED  BY <2>1 DEF SwapRefs, h
<1>17. SwapLocks(p, x)
  <2>1. p # None  BY InodesAssumption
  <2>2. \A i \in Slots : One(h, i, Claims) = Bit(i = k) /\ One(x, i, Claims) = 0
    BY <1>4 DEF x
  <2>3. \A i \in Slots : Bit(owner'[i] = p)
                         = Bit(owner[i] = p) - One(h, i, Claims) + One(x, i, Claims)
    BY <1>10, <1>15, <2>1, <2>2 DEF Bit
  <2> QED  BY <2>3 DEF SwapLocks, h
<1>18. OwnLocks(p)  BY <1>10, <1>15 DEF OwnLocks
<1>19. drops'[p] = <<x>> \o Tail(drops[p])  BY <1>9 DEF u, t
<1>20. Kept(p)  BY <1>1, <1>5, <1>13, <1>16, <1>17, <1>18, <1>19, SwapStep
<1> QED  BY <1>12, <1>13, <1>14, <1>20 DEF Good

(* A step with nothing to drop is good if it keeps types and places. *)
LEMMA CalmGood ==
  ASSUME CountInv, NEW p \in Procs, TypeOK', OthersSame(p), PlaceOK(p)', OwnLocks(p),
         drops[p] = <<>>, drops' = drops, CalmRefs(p), CalmLocks(p)
  PROVE  Good(p)
BY CalmStep DEF Good

(* A calm step that neither counts nor locks. *)
LEMMA IdleStep ==
  ASSUME CountInv, NEW p \in Procs, drops[p] = <<>>, UNCHANGED <<refs, owner, drops>>,
         cur'[p] = cur[p], ino'[p] = ino[p], old'[p] = old[p], cwd'[p] = cwd[p],
         file'[p] = file[p],
         \A i \in Slots : PlaceLocks(p, i)' = PlaceLocks(p, i)
  PROVE  CalmRefs(p) /\ CalmLocks(p) /\ OwnLocks(p)
<1>1. ASSUME NEW i \in Slots
      PROVE  /\ refs'[i] = refs[i] + VarHandles(p, i)' - VarHandles(p, i)
             /\ PlaceLocks(p, i)' = Bit(owner'[i] = p)
  <2>1. VarHandles(p, i)' = VarHandles(p, i)  BY DEF VarHandles
  <2>2. VarHandles(p, i) \in Nat  BY VarsNat DEF VarHandles
  <2>3. refs[i] \in Int  BY DEF CountInv, TypeOK
  <2>4. refs'[i] = refs[i] + VarHandles(p, i) - VarHandles(p, i)  BY <2>2, <2>3
  <2>5. Locks(p, i) = Bit(owner[i] = p)  BY DEF CountInv, LockInv
  <2>6. Locks(p, i) = PlaceLocks(p, i)  BY CalmCounts
  <2>7. PlaceLocks(p, i)' = Bit(owner'[i] = p)  BY <2>5, <2>6
  <2> QED  BY <2>1, <2>4, <2>7, Zenon
<1>2. OwnLocks(p)  BY DEF OwnLocks
<1> QED  BY <1>1, <1>2 DEF CalmRefs, CalmLocks

(* A system call begins. *)
LEMMA EnterGood ==
  ASSUME CountInv, NEW p \in Procs, NEW c \in menu, Enter(p, c) PROVE Good(p)
<1>1. /\ TypeOK /\ PlaceOK(p) /\ pc[p] = "user" /\ drops[p] = <<>> /\ cwd[p] # 0
  BY RunningIs DEF Enter
<1>2. /\ c.op # "exit" /\ (c.op \in {"open", "creat"} => file[p] = 0)
      /\ call' = [call EXCEPT ![p] = c] /\ path' = [path EXCEPT ![p] = c.path]
      /\ inop' = [inop EXCEPT ![p] = TRUE] /\ pc' = [pc EXCEPT ![p] = "start"]
      /\ UNCHANGED <<menu, inum, refs, owner, valid, din, dino, ents, cur, ino, old, fresh, cwd,
                     file, drops, asserted>>
  BY DEF Enter, Goto, cache, disk
<1>3. c.path \in Seq(Names)  BY <1>1, <1>2, MenusAssumption DEF TypeOK
<1>4. pc' \in [Procs -> PCs] /\ pc'[p] = "start" /\ \A q \in Procs : q # p => pc'[q] = pc[q]
  BY <1>1, <1>2 DEF TypeOK, PCs
<1>5. DOMAIN call' = Procs /\ call'[p] = c /\ \A q \in Procs : q # p => call'[q] = call[q]
  BY <1>1, <1>2 DEF TypeOK
<1>6. path' \in [Procs -> Seq(Names)] /\ \A q \in Procs : q # p => path'[q] = path[q]
  <2>1. path \in [Procs -> Seq(Names)]  BY <1>1 DEF TypeOK
  <2> QED  BY <1>2, <1>3, <2>1
<1>7. inop' \in [Procs -> BOOLEAN]  BY <1>1, <1>2 DEF TypeOK
<1>8. TypeOK'  BY <1>1, <1>2, <1>4, <1>5, <1>6, <1>7 DEF TypeOK
<1>9. OthersSame(p)  BY <1>2, <1>4, <1>5, <1>6 DEF OthersSame
<1>10. cur[p] = 0 /\ ino[p] = 0 /\ old[p] = 0  BY <1>1 DEF PlaceOK, InLink
<1>11. PlaceOK(p)'
  <2>1. Len(drops'[p]) <= 6  BY <1>1, <1>2 DEF PlaceOK
  <2> QED  BY <1>1, <1>2, <1>4, <1>5, <1>10, <2>1 DEF PlaceOK, InLink, Naming1
<1>12. \A i \in Slots : PlaceLocks(p, i)' = PlaceLocks(p, i)
  BY <1>1, <1>4 DEF PlaceLocks, AtPlace, Bit, CurLocked, InoLocked, OldLocked
<1>13. CalmRefs(p) /\ CalmLocks(p) /\ OwnLocks(p)  BY <1>1, <1>2, <1>12, IdleStep
<1> QED  BY <1>1, <1>2, <1>8, <1>9, <1>11, <1>13, CalmGood

(* The handle of a process counts. *)
LEMMA HandleCounts ==
  ASSUME CountInv, NEW p \in Procs, NEW i \in Slots,
         i \in {cur[p], ino[p], old[p], cwd[p], file[p]}
  PROVE  refs[i] > 0 /\ inum[i] # 0 /\ Handles(p, i) \in Nat /\ Handles(p, i) > 0
<1>1. refs[i] \in Nat /\ Handles(p, i) \in Nat /\ Handles(p, i) <= refs[i]
  BY HandlesCounted DEF CountInv
<1>2. InQueue(drops[p], i, Refers) \in Nat  BY CountNat
<1>3. VarHandles(p, i) \in Nat /\ VarHandles(p, i) > 0
  <2>1. /\ Bit(cur[p] = i) \in {0, 1} /\ Bit(ino[p] = i) \in {0, 1} /\ Bit(old[p] = i) \in {0, 1}
        /\ Bit(cwd[p] = i) \in {0, 1} /\ Bit(file[p] = i) \in {0, 1}
        /\ \/ Bit(cur[p] = i) = 1 \/ Bit(ino[p] = i) = 1 \/ Bit(old[p] = i) = 1
           \/ Bit(cwd[p] = i) = 1 \/ Bit(file[p] = i) = 1
    BY DEF Bit
  <2> QED  BY <2>1 DEF VarHandles, InVars
<1>4. Handles(p, i) > 0  BY <1>2, <1>3 DEF Handles
<1>5. refs[i] > 0  BY <1>1, <1>4
<1> QED  BY <1>1, <1>4, <1>5 DEF CountInv, SlotInv

(* namex starts at the root or at the working directory. *)
LEMMA NamexStartGood == ASSUME CountInv, NEW p \in Procs, NamexStart(p) PROVE Good(p)
<1> DEFINE abs == IF old[p] = 0 THEN call[p].abs ELSE call[p].newabs
           g == IF abs THEN GetSlot(ROOTINUM) ELSE cwd[p]
<1>1. /\ TypeOK /\ PlaceOK(p) /\ pc[p] = "start" /\ drops[p] = <<>> /\ cwd[p] # 0
      /\ cwd[p] \in 0 .. NINODE /\ refs \in [Slots -> Int] /\ \A i \in Slots : i # 0
  BY RunningIs DEF NamexStart
<1>2. /\ IF abs THEN Get(ROOTINUM) ELSE Dup(cwd[p])
      /\ cur' = [cur EXCEPT ![p] = g] /\ pc' = [pc EXCEPT ![p] = "walk"]
      /\ UNCHANGED <<menu, owner, valid, din, dino, ents, call, path, ino, old, fresh, cwd, file,
                     drops, inop, asserted>>
  BY DEF NamexStart, Goto, disk
<1> HIDE DEF abs
<1>3. /\ g \in Slots /\ inum' \in [Slots -> 0 .. NINUM] /\ refs' \in [Slots -> Int]
      /\ refs'[g] = refs[g] + 1 /\ \A i \in Slots : i # g => refs'[i] = refs[i]
  <2>1. CASE abs
    <3>1. ROOTINUM \in 0 .. NINUM  BY InodesAssumption DEF ROOTINUM
    <3>2. g = GetSlot(ROOTINUM) /\ Get(ROOTINUM)  BY <1>2, <2>1
    <3> QED  BY <1>1, <3>1, <3>2, GetIs
  <2>2. CASE ~abs
    <3>1. g = cwd[p] /\ refs' = [refs EXCEPT ![cwd[p]] = refs[cwd[p]] + 1] /\ inum' = inum
      BY <1>2, <2>2 DEF Dup
    <3>2. cwd[p] \in Slots  BY <1>1, InodesAssumption DEF Slots
    <3>3. refs[cwd[p]] + 1 \in Int  BY <1>1, <3>2
    <3>4. inum' \in [Slots -> 0 .. NINUM]  BY <1>1, <3>1 DEF TypeOK
    <3> HIDE DEF g
    <3> QED  BY <1>1, <3>1, <3>2, <3>3, <3>4
  <2> QED  BY <2>1, <2>2
<1> HIDE DEF g
<1>4. g \in 0 .. NINODE /\ g # 0  BY <1>1, <1>3, InodesAssumption DEF Slots
<1>5. pc' \in [Procs -> PCs] /\ pc'[p] = "walk" /\ \A q \in Procs : q # p => pc'[q] = pc[q]
  BY <1>1, <1>2 DEF TypeOK, PCs
<1>6. cur' \in [Procs -> 0 .. NINODE] /\ cur'[p] = g /\ \A q \in Procs : q # p => cur'[q] = cur[q]
  <2>1. cur \in [Procs -> 0 .. NINODE]  BY <1>1 DEF TypeOK
  <2> QED  BY <1>2, <1>4, <2>1
<1>7. TypeOK'  BY <1>1, <1>2, <1>3, <1>5, <1>6 DEF TypeOK
<1>8. OthersSame(p)  BY <1>2, <1>5, <1>6 DEF OthersSame
<1>9. cur[p] = 0 /\ ino[p] = 0  BY <1>1 DEF PlaceOK
<1>10. PlaceOK(p)'
  BY <1>1, <1>2, <1>4, <1>5, <1>6 DEF PlaceOK, InLink, Naming1
<1>11. CalmRefs(p)
  <2>1. ASSUME NEW i \in Slots
        PROVE  refs'[i] = refs[i] + InVars(g, ino[p], old[p], cwd[p], file[p], i)
                          - InVars(0, ino[p], old[p], cwd[p], file[p], i)
    <3>1. refs[i] \in Int /\ i # 0 /\ refs'[i] = IF i = g THEN refs[i] + 1 ELSE refs[i]
      BY <1>1, <1>3
    <3> QED  BY <3>1 DEF InVars, Bit
  <2>2. \A i \in Slots : /\ VarHandles(p, i)' = InVars(g, ino[p], old[p], cwd[p], file[p], i)
                         /\ VarHandles(p, i) = InVars(0, ino[p], old[p], cwd[p], file[p], i)
    BY <1>2, <1>6, <1>9 DEF VarHandles
  <2> QED  BY <2>1, <2>2 DEF CalmRefs
<1>12. CalmLocks(p) /\ OwnLocks(p)
  <2>1. ASSUME NEW i \in Slots PROVE PlaceLocks(p, i)' = Bit(owner'[i] = p)
    <3>1. PlaceLocks(p, i) = 0 /\ PlaceLocks(p, i)' = 0
      BY <1>1, <1>5 DEF PlaceLocks, AtPlace, Bit, CurLocked, InoLocked, OldLocked
    <3>2. Locks(p, i) = Bit(owner[i] = p)  BY DEF CountInv, LockInv
    <3>3. Locks(p, i) = PlaceLocks(p, i)  BY <1>1, CalmCounts
    <3> QED  BY <1>2, <3>1, <3>2, <3>3
  <2>2. OwnLocks(p)  BY <1>2 DEF OwnLocks
  <2> QED  BY <2>1, <2>2 DEF CalmLocks
<1> QED  BY <1>1, <1>2, <1>7, <1>8, <1>10, <1>11, <1>12, CalmGood

(* The type of a new inode. *)
LEMMA TypeOfIs ==
  ASSUME TypeOK, NEW c \in menu, c.op \in Creates PROVE TypeOf(c) \in ITypes \ {"Empty"}
<1>1. menu \in Menus  BY DEF TypeOK
<1>2. c.op = "mknod" => c.itype \in ITypes \ {"Empty"}  BY <1>1, MenusAssumption
<1>3. CASE c.op = "creat"  BY <1>3 DEF TypeOf, ITypes
<1>4. CASE c.op = "mkdir"  BY <1>4 DEF TypeOf, ITypes
<1>5. CASE c.op = "mknod"  BY <1>2, <1>5 DEF TypeOf
<1> QED  BY <1>3, <1>4, <1>5 DEF Creates

(* What inode_alloc does. *)
LEMMA AllocIs ==
  ASSUME CountInv, NEW p \in Procs, InodeAlloc(p)
  PROVE  \E n \in Inums :
           /\ fresh' = [fresh EXCEPT ![p] = n]
           /\ dino' = [dino EXCEPT ![n] = [itype |-> TypeOf(call[p]), nlink |-> 0]]
           /\ TypeOf(call[p]) \in ITypes \ {"Empty"}
           /\ panicked' = None => dino[n].itype = "Empty"
<1> DEFINE empty == {n \in Inums : dino[n].itype = "Empty"}
           n == IF empty = {} THEN ROOTINUM ELSE First(empty)
<1>1. empty \subseteq Nat /\ ROOTINUM \in Inums  BY InodesAssumption DEF Inums, ROOTINUM
<1>2. empty # {} => First(empty) \in empty  BY <1>1, FirstIn
<1>3. n \in Inums /\ (empty # {} => dino[n].itype = "Empty")  BY <1>1, <1>2
<1>4. /\ fresh' = [fresh EXCEPT ![p] = n]
      /\ dino' = [dino EXCEPT ![n] = [itype |-> TypeOf(call[p]), nlink |-> 0]]
      /\ empty = {} => panicked' = "no inode"
  BY DEF InodeAlloc
<1>5. TypeOf(call[p]) \in ITypes \ {"Empty"}
  <2>1. TypeOK /\ PlaceOK(p) /\ pc[p] = "alloc"  BY RunningIs DEF InodeAlloc
  <2>2. call[p] \in menu /\ call[p].op \in Creates  BY <2>1 DEF PlaceOK
  <2> QED  BY <2>1, <2>2, TypeOfIs
<1>6. "no inode" # None  BY DEF None
<1> HIDE DEF empty
<1>7. panicked' = None => dino[n].itype = "Empty"  BY <1>3, <1>4, <1>6
<1> HIDE DEF n
<1> QED  BY <1>3, <1>4, <1>5, <1>7

(* inode_alloc. *)
LEMMA InodeAllocGood == ASSUME CountInv, NEW p \in Procs, InodeAlloc(p) PROVE Good(p)
<1>1. /\ TypeOK /\ PlaceOK(p) /\ pc[p] = "alloc" /\ drops[p] = <<>>
  BY RunningIs DEF InodeAlloc
<1>2. PICK n \in Inums : /\ fresh' = [fresh EXCEPT ![p] = n]
                         /\ dino' = [dino EXCEPT ![n] = [itype |-> TypeOf(call[p]), nlink |-> 0]]
                         /\ TypeOf(call[p]) \in ITypes \ {"Empty"}
  BY AllocIs
<1>3. /\ pc' = [pc EXCEPT ![p] = "get"]
      /\ UNCHANGED <<menu, inum, refs, owner, valid, din, ents, call, path, cur, ino, old, cwd,
                     file, drops, inop, asserted>>
  BY DEF InodeAlloc, Goto, cache
<1>4. pc' \in [Procs -> PCs] /\ pc'[p] = "get" /\ \A q \in Procs : q # p => pc'[q] = pc[q]
  BY <1>1, <1>3 DEF TypeOK, PCs
<1>5. /\ fresh' \in [Procs -> 0 .. NINUM] /\ fresh'[p] # 0
      /\ \A q \in Procs : q # p => fresh'[q] = fresh[q]
  <2>1. n \in 0 .. NINUM /\ n # 0  BY InodesAssumption DEF Inums
  <2>2. fresh \in [Procs -> 0 .. NINUM]  BY <1>1 DEF TypeOK
  <2> QED  BY <1>2, <2>1, <2>2
<1>6. dino' \in [Inums -> Dinode]
  <2>1. [itype |-> TypeOf(call[p]), nlink |-> 0] \in Dinode  BY <1>2 DEF Dinode
  <2>2. dino \in [Inums -> Dinode]  BY <1>1 DEF TypeOK
  <2> QED  BY <1>2, <2>1, <2>2
<1>7. TypeOK'  BY <1>1, <1>3, <1>4, <1>5, <1>6 DEF TypeOK
<1>8. OthersSame(p)  BY <1>3, <1>4, <1>5 DEF OthersSame
<1>9. PlaceOK(p)'  BY <1>1, <1>3, <1>4, <1>5 DEF PlaceOK, InLink, Naming1
<1>10. \A i \in Slots : PlaceLocks(p, i)' = PlaceLocks(p, i)
  BY <1>1, <1>3, <1>4 DEF PlaceLocks, AtPlace, Bit, CurLocked, InoLocked, OldLocked
<1>11. CalmRefs(p) /\ CalmLocks(p) /\ OwnLocks(p)  BY <1>1, <1>3, <1>10, IdleStep
<1> QED  BY <1>1, <1>3, <1>7, <1>8, <1>9, <1>11, CalmGood

(* A calm step that gets a handle in the variable ino. *)
LEMMA GetInoGood ==
  ASSUME CountInv, NEW p \in Procs, drops[p] = <<>>, NEW n \in 0 .. NINUM, Get(n),
         ino' = [ino EXCEPT ![p] = GetSlot(n)],
         NEW at \in PCs, pc' = [pc EXCEPT ![p] = at], ino[p] = 0,
         pc[p] \in CurLocked, at \in CurLocked, pc[p] \notin InoLocked, at \notin InoLocked,
         pc[p] \notin OldLocked, at \notin OldLocked,
         UNCHANGED <<menu, owner, valid, din, dino, ents, call, path, cur, old, fresh, cwd, file,
                     drops, inop, asserted>>,
         PlaceOK(p)'
  PROVE  Good(p)
<1> DEFINE g == GetSlot(n)
<1>1. TypeOK /\ refs \in [Slots -> Int] /\ \A i \in Slots : i # 0
  BY InodesAssumption DEF CountInv, TypeOK, Slots
<1>2. /\ g \in Slots /\ inum' \in [Slots -> 0 .. NINUM] /\ refs' \in [Slots -> Int]
      /\ refs'[g] = refs[g] + 1 /\ \A i \in Slots : i # g => refs'[i] = refs[i]
  BY <1>1, GetIs
<1>3. ino' = [ino EXCEPT ![p] = g]  OBVIOUS
<1> HIDE DEF g
<1>4. g \in 0 .. NINODE  BY <1>2, InodesAssumption DEF Slots
<1>5. ino' \in [Procs -> 0 .. NINODE] /\ ino'[p] = g /\ \A q \in Procs : q # p => ino'[q] = ino[q]
  <2>1. ino \in [Procs -> 0 .. NINODE]  BY <1>1 DEF TypeOK
  <2> QED  BY <1>3, <1>4, <2>1
<1>6. pc' \in [Procs -> PCs] /\ pc'[p] = at /\ \A q \in Procs : q # p => pc'[q] = pc[q]
  BY <1>1 DEF TypeOK
<1>7. TypeOK'  BY <1>1, <1>2, <1>5, <1>6 DEF TypeOK
<1>8. OthersSame(p)  BY <1>5, <1>6 DEF OthersSame
<1>9. CalmRefs(p)
  <2>1. ASSUME NEW i \in Slots
        PROVE  refs'[i] = refs[i] + InVars(cur[p], g, old[p], cwd[p], file[p], i)
                          - InVars(cur[p], 0, old[p], cwd[p], file[p], i)
    <3>1. refs[i] \in Int /\ i # 0 /\ refs'[i] = IF i = g THEN refs[i] + 1 ELSE refs[i]
      BY <1>1, <1>2
    <3> QED  BY <3>1 DEF InVars, Bit
  <2>2. \A i \in Slots : /\ VarHandles(p, i)' = InVars(cur[p], g, old[p], cwd[p], file[p], i)
                         /\ VarHandles(p, i) = InVars(cur[p], 0, old[p], cwd[p], file[p], i)
    BY <1>5 DEF VarHandles
  <2> QED  BY <2>1, <2>2 DEF CalmRefs
<1>10. CalmLocks(p) /\ OwnLocks(p)
  <2>1. ASSUME NEW i \in Slots PROVE PlaceLocks(p, i)' = Bit(owner'[i] = p)
    <3>1. PlaceLocks(p, i)' = PlaceLocks(p, i)  BY <1>6 DEF PlaceLocks, AtPlace, Bit
    <3>2. Locks(p, i) = Bit(owner[i] = p)  BY DEF CountInv, LockInv
    <3>3. Locks(p, i) = PlaceLocks(p, i)  BY CalmCounts
    <3> QED  BY <3>1, <3>2, <3>3
  <2>2. OwnLocks(p)  BY DEF OwnLocks
  <2> QED  BY <2>1, <2>2 DEF CalmLocks
<1> QED  BY <1>7, <1>8, <1>9, <1>10, CalmGood

(* create gets a handle to the inode it has allocated. *)
LEMMA CreateGetGood == ASSUME CountInv, NEW p \in Procs, CreateGet(p) PROVE Good(p)
<1> DEFINE n == fresh[p]
<1>1. /\ TypeOK /\ PlaceOK(p) /\ pc[p] = "get" /\ drops[p] = <<>> /\ n \in 0 .. NINUM
  BY RunningIs DEF CreateGet, TypeOK
<1>2. /\ Get(n) /\ ino' = [ino EXCEPT ![p] = GetSlot(n)] /\ pc' = [pc EXCEPT ![p] = "new"]
      /\ UNCHANGED <<menu, owner, valid, din, dino, ents, call, path, cur, old, fresh, cwd, file,
                     drops, inop, asserted>>
  BY DEF CreateGet, Goto, disk
<1> HIDE DEF n
<1>3. ino[p] = 0  BY <1>1 DEF PlaceOK
<1>4. GetSlot(n) # 0
  <2>1. GetSlot(n) \in Slots  BY <1>1, <1>2, GetIs
  <2> QED  BY <2>1, InodesAssumption DEF Slots
<1>5. ino'[p] = GetSlot(n) /\ pc'[p] = "new"  BY <1>1, <1>2 DEF TypeOK
<1>6. PlaceOK(p)'  BY <1>1, <1>2, <1>4, <1>5 DEF PlaceOK, InLink, Naming1
<1>7. /\ "new" \in PCs /\ "new" \in CurLocked /\ "new" \notin InoLocked /\ "new" \notin OldLocked
      /\ pc[p] \in CurLocked /\ pc[p] \notin InoLocked /\ pc[p] \notin OldLocked
  BY <1>1 DEF PCs, CurLocked, InoLocked, OldLocked
<1> QED  BY <1>1, <1>2, <1>3, <1>6, <1>7, GetInoGood

(* Where Lock may be, which handle it locks, and where it goes. *)
LEMMA LockAt ==
  ASSUME CountInv, NEW p \in Procs, Lock(p)
  PROVE  /\ LockTarget(p) \in Slots
         /\ LockTarget(p) \in {cur[p], ino[p], old[p]} /\ LockTarget(p) # 0
         /\ Locked(p) \in PCs
         /\ \A i \in Slots : AtPlace(Locked(p), cur[p], ino[p], old[p], i)
                             = AtPlace(pc[p], cur[p], ino[p], old[p], i) + Bit(i = LockTarget(p))
<1>1. TypeOK /\ PlaceOK(p) /\ Locking(p)  BY DEF CountInv, PlaceInv, Lock
<1>2. cur[p] \in 0 .. NINODE /\ ino[p] \in 0 .. NINODE /\ old[p] \in 0 .. NINODE  BY <1>1 DEF TypeOK
<1>3. \A x \in 0 .. NINODE : x # 0 => x \in Slots  BY InodesAssumption DEF Slots
<1> DEFINE Fits(at, x) ==
              /\ x \in {cur[p], ino[p], old[p]} /\ x # 0 /\ at \in PCs
              /\ \A i \in Slots : AtPlace(at, cur[p], ino[p], old[p], i)
                                  = AtPlace(pc[p], cur[p], ino[p], old[p], i) + Bit(i = x)
<1>4. Fits(Locked(p), LockTarget(p))
  <2>1. CASE pc[p] = "walk"
    <3>1. Locked(p) = "look" /\ LockTarget(p) = cur[p] /\ cur[p] # 0
      BY <1>1, <2>1 DEF Locked, LockTarget, PlaceOK
    <3>2. Fits("look", cur[p])
      BY <2>1, <3>1 DEF PCs, AtPlace, Bit, CurLocked, InoLocked, OldLocked
    <3> QED  BY <3>1, <3>2, Zenon
  <2>2. CASE pc[p] = "new"
    <3>1. Locked(p) = "fill" /\ LockTarget(p) = ino[p] /\ ino[p] # 0
      BY <1>1, <2>2 DEF Locked, LockTarget, PlaceOK
    <3>2. Fits("fill", ino[p])
      BY <2>2, <3>1 DEF PCs, AtPlace, Bit, CurLocked, InoLocked, OldLocked
    <3> QED  BY <3>1, <3>2, Zenon
  <2>3. CASE pc[p] = "child"
    <3>1. Locked(p) = "unlinked" /\ LockTarget(p) = ino[p] /\ ino[p] # 0
      BY <1>1, <2>3 DEF Locked, LockTarget, PlaceOK
    <3>2. Fits("unlinked", ino[p])
      BY <2>3, <3>1 DEF PCs, AtPlace, Bit, CurLocked, InoLocked, OldLocked
    <3> QED  BY <3>1, <3>2, Zenon
  <2>4. CASE pc[p] = "revert"
    <3>1. Locked(p) = "reverting" /\ LockTarget(p) = old[p] /\ old[p] # 0
      BY <1>1, <2>4 DEF Locked, LockTarget, PlaceOK
    <3>2. Fits("reverting", old[p])
      BY <2>4, <3>1 DEF PCs, AtPlace, Bit, CurLocked, InoLocked, OldLocked
    <3> QED  BY <3>1, <3>2, Zenon
  <2>5. CASE pc[p] = "made"
    <3>1. Locked(p) = "opening" /\ LockTarget(p) = cur[p] /\ cur[p] # 0
      BY <1>1, <2>5 DEF Locked, LockTarget, PlaceOK
    <3>2. Fits("opening", cur[p])
      BY <2>5, <3>1 DEF PCs, AtPlace, Bit, CurLocked, InoLocked, OldLocked
    <3> QED  BY <3>1, <3>2, Zenon
  <2>6. CASE pc[p] = "found"
    <3>1. LockTarget(p) = cur[p] /\ cur[p] # 0  BY <1>1, <2>6 DEF LockTarget, PlaceOK
    <3>2. Locked(p) \in {"opening", "chdir", "unlink", "link", "linking", "create"}
      BY <2>6 DEF Locked
    <3>3. ASSUME NEW at \in {"opening", "chdir", "unlink", "link", "linking", "create"}
          PROVE  Fits(at, cur[p])
      BY <2>6, <3>1, <3>3 DEF PCs, AtPlace, Bit, CurLocked, InoLocked, OldLocked
    <3> HIDE DEF Fits
    <3> QED  BY <3>1, <3>2, <3>3
  <2> QED  BY <1>1, <2>1, <2>2, <2>3, <2>4, <2>5, <2>6 DEF Locking
<1> QED  BY <1>2, <1>3, <1>4

(* The place after Lock. *)
LEMMA LockPlace ==
  ASSUME CountInv, NEW p \in Procs, Lock(p), pc'[p] = Locked(p),
         UNCHANGED <<menu, call, path, cur, ino, old, fresh, cwd, file, drops>>
  PROVE  PlaceOK(p)'
<1>1. TypeOK /\ PlaceOK(p) /\ Locking(p)  BY DEF CountInv, PlaceInv, Lock
<1>2. IsParent(p)' <=> IsParent(p)  BY DEF IsParent
<1>3. Len(drops'[p]) <= 6  BY <1>1 DEF PlaceOK
<1>4. CASE pc[p] = "walk"
  <2>1. pc'[p] = "look" /\ path[p] # <<>>  BY <1>1, <1>4 DEF Locked, Locking
  <2> QED  BY <1>1, <1>2, <1>4, <2>1 DEF PlaceOK, InLink, Naming1
<1>5. CASE pc[p] = "new"
  <2>1. pc'[p] = "fill"  BY <1>5 DEF Locked
  <2> QED  BY <1>1, <1>2, <1>5, <2>1 DEF PlaceOK, InLink, Naming1
<1>6. CASE pc[p] = "child"
  <2>1. pc'[p] = "unlinked"  BY <1>6 DEF Locked
  <2> QED  BY <1>1, <1>2, <1>6, <2>1 DEF PlaceOK, InLink, Naming1
<1>7. CASE pc[p] = "revert"
  <2>1. pc'[p] = "reverting"  BY <1>7 DEF Locked
  <2> QED  BY <1>1, <1>2, <1>7, <2>1 DEF PlaceOK, InLink, Naming1
<1>8. CASE pc[p] = "made"
  <2>1. pc'[p] = "opening" /\ call[p].op = "creat"  BY <1>1, <1>8 DEF Locked, Locking
  <2> QED  BY <1>1, <1>2, <1>8, <2>1 DEF PlaceOK, InLink, Naming1
<1>9. CASE pc[p] = "found"
  <2>1. call[p].op \in {"open", "chdir", "unlink", "link", "creat", "mkdir", "mknod"}
    <3>1. menu \in Menus /\ call[p] \in menu /\ call[p].op # "exit"
      BY <1>1, <1>9 DEF PlaceOK, TypeOK
    <3> QED  BY <3>1, MenusAssumption
  <2>2. CASE call[p].op = "open"
    <3>1. pc'[p] = "opening"  BY <1>9, <2>2 DEF Locked
    <3> QED  BY <1>1, <1>2, <1>9, <2>2, <3>1 DEF PlaceOK, InLink, Naming1
  <2>3. CASE call[p].op = "chdir"
    <3>1. pc'[p] = "chdir"  BY <1>9, <2>3 DEF Locked
    <3> QED  BY <1>1, <1>2, <1>9, <2>3, <3>1 DEF PlaceOK, InLink, Naming1
  <2>4. CASE call[p].op = "unlink"
    <3>1. pc'[p] = "unlink" /\ IsParent(p)  BY <1>9, <2>4 DEF Locked, IsParent
    <3> QED  BY <1>1, <1>2, <1>9, <2>4, <3>1 DEF PlaceOK, InLink, Naming1
  <2>5. CASE call[p].op = "link" /\ old[p] = 0
    <3>1. pc'[p] = "link"  BY <1>9, <2>5 DEF Locked
    <3> QED  BY <1>1, <1>2, <1>9, <2>5, <3>1 DEF PlaceOK, InLink, Naming1
  <2>6. CASE call[p].op = "link" /\ old[p] # 0
    <3>1. pc'[p] = "linking" /\ IsParent(p)  BY <1>9, <2>6 DEF Locked, IsParent
    <3> QED  BY <1>1, <1>2, <1>9, <2>6, <3>1 DEF PlaceOK, InLink, Naming1
  <2>7. CASE call[p].op \in {"creat", "mkdir", "mknod"}
    <3>1. pc'[p] = "create" /\ IsParent(p)  BY <1>9, <2>7 DEF Locked, IsParent
    <3> QED  BY <1>1, <1>2, <1>9, <2>7, <3>1 DEF PlaceOK, InLink, Naming1, Creates
  <2> QED  BY <2>1, <2>2, <2>3, <2>4, <2>5, <2>6, <2>7
<1> QED  BY <1>1, <1>4, <1>5, <1>6, <1>7, <1>8, <1>9 DEF Locking

(* Inode::lock. *)
LEMMA LockGood == ASSUME CountInv, NEW p \in Procs, Lock(p) PROVE Good(p)
<1> DEFINE k == LockTarget(p)
<1>1. /\ k \in Slots /\ k \in {cur[p], ino[p], old[p]} /\ Locked(p) \in PCs
      /\ \A i \in Slots : AtPlace(Locked(p), cur[p], ino[p], old[p], i)
                          = AtPlace(pc[p], cur[p], ino[p], old[p], i) + Bit(i = k)
  BY LockAt
<1>2. /\ owner[k] = None /\ owner' = [owner EXCEPT ![k] = p]
      /\ \/ valid' = valid /\ din' = din
         \/ valid' = [valid EXCEPT ![k] = inum[k]] /\ din' = [din EXCEPT ![k] = dino[inum[k]]]
      /\ pc' = [pc EXCEPT ![p] = Locked(p)] /\ drops[p] = <<>>
      /\ UNCHANGED <<menu, inum, refs, dino, ents, call, path, cur, ino, old, fresh, cwd,
                     file, drops, inop, asserted>>
  BY DEF Lock, Locking, Goto, disk
<1> HIDE DEF k
<1>3. TypeOK /\ inum[k] # 0  BY <1>1, HandleCounts DEF CountInv
<1>4. inum[k] \in 0 .. NINUM /\ inum[k] \in Inums
  <2>1. inum \in [Slots -> 0 .. NINUM]  BY <1>3 DEF TypeOK
  <2>2. inum[k] \in 0 .. NINUM  BY <1>1, <2>1
  <2> QED  BY <1>3, <2>2, InodesAssumption DEF Inums
<1>5. valid' \in [Slots -> 0 .. NINUM] /\ din' \in [Slots -> Dinode]
  <2>1. /\ valid \in [Slots -> 0 .. NINUM] /\ din \in [Slots -> Dinode] /\ dino[inum[k]] \in Dinode
    BY <1>3, <1>4 DEF TypeOK
  <2> QED  BY <1>2, <1>4, <2>1
<1>6. /\ owner' \in [Slots -> Procs \cup {None}]
      /\ \A i \in Slots : owner'[i] = IF i = k THEN p ELSE owner[i]
  <2>1. owner \in [Slots -> Procs \cup {None}]  BY <1>3 DEF TypeOK
  <2> QED  BY <1>2, <2>1
<1>7. pc' \in [Procs -> PCs] /\ pc'[p] = Locked(p) /\ \A q \in Procs : q # p => pc'[q] = pc[q]
  BY <1>1, <1>2, <1>3 DEF TypeOK
<1>8. TypeOK'  BY <1>2, <1>3, <1>5, <1>6, <1>7 DEF TypeOK
<1>9. OthersSame(p)  BY <1>2, <1>7 DEF OthersSame
<1>10. PlaceOK(p)'  BY <1>2, <1>7, LockPlace
<1>11. CalmRefs(p)
  <2>1. ASSUME NEW i \in Slots PROVE refs'[i] = refs[i] + VarHandles(p, i)' - VarHandles(p, i)
    <3>1. VarHandles(p, i)' = VarHandles(p, i) /\ refs'[i] = refs[i]  BY <1>2 DEF VarHandles
    <3>2. VarHandles(p, i) \in Nat /\ refs[i] \in Int  BY <1>3, VarsNat DEF VarHandles, TypeOK
    <3>3. refs[i] = refs[i] + VarHandles(p, i) - VarHandles(p, i)  BY <3>2
    <3> QED  BY <3>1, <3>3, Zenon
  <2> QED  BY <2>1 DEF CalmRefs
<1>12. CalmLocks(p) /\ OwnLocks(p)
  <2>1. ASSUME NEW i \in Slots PROVE PlaceLocks(p, i)' = Bit(owner'[i] = p)
    <3>1. PlaceLocks(p, i)' = AtPlace(Locked(p), cur[p], ino[p], old[p], i)
      BY <1>2, <1>7 DEF PlaceLocks
    <3>2. PlaceLocks(p, i)' = PlaceLocks(p, i) + Bit(i = k)  BY <1>1, <3>1 DEF PlaceLocks
    <3>3. Locks(p, i) = Bit(owner[i] = p)  BY DEF CountInv, LockInv
    <3>4. Locks(p, i) = PlaceLocks(p, i)  BY <1>2, CalmCounts
    <3>5. PlaceLocks(p, i)' = Bit(owner[i] = p) + Bit(i = k)  BY <3>2, <3>3, <3>4, Zenon
    <3>6. p # None  BY InodesAssumption
    <3>7. Bit(owner[i] = p) + Bit(i = k) = Bit(owner'[i] = p)  BY <1>2, <1>6, <3>6 DEF Bit
    <3> QED  BY <3>5, <3>7
  <2>2. OwnLocks(p)  BY <1>2, <1>6 DEF OwnLocks
  <2> QED  BY <2>1, <2>2 DEF CalmLocks
<1> QED  BY <1>2, <1>8, <1>9, <1>10, <1>11, <1>12, CalmGood

-----------------------------------------------------------------------------
(* The handle cur, and its lock where it is locked, move into the queue. *)
DropsCur(p, s) ==
    /\ s \in Seq(Item) /\ Len(s) <= 6
    /\ \A i \in Slots : /\ InQueue(s, i, Refers) = Bit(cur[p] = i)
                        /\ InQueue(s, i, Claims) = AtPlace(pc[p], cur[p], ino[p], old[p], i)
    /\ \A V : Backed(s, V)

(* A call that returns and drops no more than cur. *)
LEMMA ReturnCur ==
  ASSUME CountInv, NEW p \in Procs, drops[p] = <<>>, cwd[p] # 0, ino[p] = 0, old[p] = 0,
         NEW s, DropsCur(p, s), Return(p, s), RestOK', UNCHANGED <<refs, cwd, file>>
  PROVE  Good(p)
<1>1. s \in Seq(Item) /\ Len(s) <= 6 /\ Backed(s, {0, 0, cwd'[p], file'[p]})  BY DEF DropsCur
<1>2. FilesSame(p) /\ cwd'[p] # 0  BY DEF FilesSame
<1>3. ReturnLocks(p, s)  BY DEF DropsCur, ReturnLocks
<1>4. ReturnRefs(p, s)
  <2>1. ASSUME NEW i \in Slots
        PROVE  refs'[i] = refs[i] + (InVars(0, 0, 0, cwd'[p], file'[p], i) + InQueue(s, i, Refers))
                          - InVars(cur[p], ino[p], old[p], cwd[p], file[p], i)
    <3>1. InQueue(s, i, Refers) = Bit(cur[p] = i)  BY DEF DropsCur
    <3>2. refs[i] \in Int /\ i # 0
      <4>1. refs \in [Slots -> Int]  BY DEF CountInv, TypeOK
      <4>2. i # 0  BY InodesAssumption DEF Slots
      <4> QED  BY <4>1, <4>2
    <3> QED  BY <3>1, <3>2 DEF InVars, Bit
  <2> QED  BY <2>1 DEF ReturnRefs
<1> QED  BY <1>1, <1>2, <1>3, <1>4, ReturnStep

(* The queues that do so. *)
LEMMA CurQueues ==
  ASSUME NEW p \in Procs, cur[p] \in 0 .. NINODE
  PROVE  /\ pc[p] \notin CurLocked =>
               DropsCur(p, <<Ref(cur[p])>>) /\ DropsCur(p, <<Ref(cur[p]), EndOp>>)
         /\ pc[p] \in CurLocked /\ pc[p] \notin InoLocked /\ pc[p] \notin OldLocked =>
               /\ DropsCur(p, <<Guard(cur[p]), Ref(cur[p])>>)
               /\ DropsCur(p, <<Guard(cur[p]), Ref(cur[p]), EndOp>>)
               /\ DropsCur(p, <<EndOp, Guard(cur[p]), Ref(cur[p])>>)
<1> DEFINE c == cur[p]
           A(i) == AtPlace(pc[p], cur[p], ino[p], old[p], i)
<1>1. CASE pc[p] \notin CurLocked
  <2>1. \A i \in Slots : A(i) = 0
    BY <1>1 DEF AtPlace, Bit, CurLocked, InoLocked, OldLocked
  <2>2. DropsCur(p, <<Ref(c)>>)
    <3> DEFINE s == <<Ref(c)>>
    <3>1. s \in Seq(Item) /\ Len(s) <= 6 /\ \A V : Backed(s, V)  BY QueueR
    <3>2. \A i \in Slots : InQueue(s, i, Refers) = Bit(c = i) /\ InQueue(s, i, Claims) = 0
      BY QueueR
    <3> HIDE DEF s
    <3>3. DropsCur(p, s)  BY <2>1, <3>1, <3>2 DEF DropsCur
    <3> QED  BY <3>3 DEF s
  <2>3. DropsCur(p, <<Ref(c), EndOp>>)
    <3> DEFINE s == <<Ref(c), EndOp>>
    <3>1. s \in Seq(Item) /\ Len(s) <= 6 /\ \A V : Backed(s, V)  BY QueueRE
    <3>2. \A i \in Slots : InQueue(s, i, Refers) = Bit(c = i) /\ InQueue(s, i, Claims) = 0
      BY QueueRE
    <3> HIDE DEF s
    <3>3. DropsCur(p, s)  BY <2>1, <3>1, <3>2 DEF DropsCur
    <3> QED  BY <3>3 DEF s
  <2> QED  BY <1>1, <2>2, <2>3
<1>2. CASE pc[p] \in CurLocked /\ pc[p] \notin InoLocked /\ pc[p] \notin OldLocked
  <2>1. \A i \in Slots : A(i) = Bit(c = i)
    BY <1>2 DEF AtPlace, Bit
  <2>2. DropsCur(p, <<Guard(c), Ref(c)>>)
    <3> DEFINE s == <<Guard(c), Ref(c)>>
    <3>1. s \in Seq(Item) /\ Len(s) <= 6 /\ \A V : Backed(s, V)  BY QueueGR
    <3>2. \A i \in Slots : InQueue(s, i, Refers) = Bit(c = i) /\ InQueue(s, i, Claims) = Bit(c = i)
      BY QueueGR
    <3> HIDE DEF s
    <3>3. DropsCur(p, s)  BY <2>1, <3>1, <3>2 DEF DropsCur
    <3> QED  BY <3>3 DEF s
  <2>3. DropsCur(p, <<Guard(c), Ref(c), EndOp>>)
    <3> DEFINE s == <<Guard(c), Ref(c), EndOp>>
    <3>1. s \in Seq(Item) /\ Len(s) <= 6 /\ \A V : Backed(s, V)  BY QueueGRE
    <3>2. \A i \in Slots : InQueue(s, i, Refers) = Bit(c = i) /\ InQueue(s, i, Claims) = Bit(c = i)
      BY QueueGRE
    <3> HIDE DEF s
    <3>3. DropsCur(p, s)  BY <2>1, <3>1, <3>2 DEF DropsCur
    <3> QED  BY <3>3 DEF s
  <2>4. DropsCur(p, <<EndOp, Guard(c), Ref(c)>>)
    <3> DEFINE s == <<EndOp, Guard(c), Ref(c)>>
    <3>1. s \in Seq(Item) /\ Len(s) <= 6 /\ \A V : Backed(s, V)  BY QueueEGR
    <3>2. \A i \in Slots : InQueue(s, i, Refers) = Bit(c = i) /\ InQueue(s, i, Claims) = Bit(c = i)
      BY QueueEGR
    <3> HIDE DEF s
    <3>3. DropsCur(p, s)  BY <2>1, <3>1, <3>2 DEF DropsCur
    <3> QED  BY <3>3 DEF s
  <2> QED  BY <1>2, <2>2, <2>3, <2>4
<1> QED  BY <1>1, <1>2

(* What must hold of a step that goes on after Dropping. *)
OnRefs(p, s) ==
    \A i \in Slots : refs'[i] = refs[i] + (VarHandles(p, i)' + InQueue(s, i, Refers))
                                - VarHandles(p, i)
OnLocks(p, s) == \A i \in Slots : PlaceLocks(p, i)' + InQueue(s, i, Claims) = PlaceLocks(p, i)

(* Such a step is good if it keeps types and places. *)
LEMMA OnGood ==
  ASSUME CountInv, NEW p \in Procs, drops[p] = <<>>, NEW s \in Seq(Item), Len(s) <= 6,
         Dropping(p, s), TypeOK', OthersSame(p), PlaceOK(p)', OnRefs(p, s), OnLocks(p, s),
         Backed(s, {cur'[p], old'[p], cwd'[p], file'[p]})
  PROVE  Good(p)
<1>1. Len(s) <= 8  OBVIOUS
<1>2. \A i \in Slots : Handles(p, i) = VarHandles(p, i) /\ Locks(p, i) = PlaceLocks(p, i)
  BY CalmCounts
<1>3. LockMoves(p, s)  BY <1>2 DEF OnLocks, LockMoves
<1>4. RefsMove(p, s)  BY <1>2 DEF OnRefs, RefsMove
<1>5. Kept(p)  BY <1>1, <1>3, <1>4, DropStep
<1> QED  BY <1>5 DEF Good

(* What a step that goes on leaves to the other processes. *)
LEMMA OnOthers ==
  ASSUME TypeOK, NEW p \in Procs, NEW s \in Seq(Item), Len(s) <= 6, Dropping(p, s),
         \A q \in Procs : q # p => /\ pc'[q] = pc[q] /\ path'[q] = path[q] /\ cur'[q] = cur[q]
                                   /\ ino'[q] = ino[q] /\ old'[q] = old[q] /\ fresh'[q] = fresh[q],
         UNCHANGED <<call, cwd, file>>
  PROVE  /\ OthersSame(p) /\ drops' \in [Procs -> Seq(Item)] /\ Len(drops'[p]) <= 6
         /\ owner' \in [Slots -> Procs \cup {None}]
<1>1. Len(s) <= 8  OBVIOUS
<1>2. \A q \in Procs : q # p => drops'[q] = drops[q]  BY <1>1, DropOthers
<1>3. drops' \in [Procs -> Seq(Item)] /\ drops'[p] = After(s)
      /\ owner' \in [Slots -> Procs \cup {None}]
  BY <1>1, DroppingIs
<1>4. Len(After(s)) <= Len(s) /\ After(s) \in Seq(Item)  BY <1>1, AfterCount
<1>5. Len(drops'[p]) <= 6  BY <1>3, <1>4
<1> QED  BY <1>2, <1>3, <1>5 DEF OthersSame

(* namex has not found the name: the call ends, or link reverts its count. *)
LEMMA NotFoundGood ==
  ASSUME CountInv, NEW p \in Procs, drops[p] = <<>>, pc[p] \in {"walk", "look"},
         NEW s, NotFound(p, s), DropsCur(p, s), DropsCur(p, s \o <<EndOp>>),
         UNCHANGED <<menu, inum, refs, valid, din, dino, ents, cwd, file, inop, asserted, panicked>>
  PROVE  Good(p)
<1>1. TypeOK /\ RestOK /\ PlaceOK(p)  BY TypeParts DEF CountInv, PlaceInv
<1>2. RestOK'  BY <1>1 DEF RestOK
<1>3. ino[p] = 0 /\ cwd[p] # 0  BY <1>1 DEF PlaceOK
<1>4. CASE old[p] = 0
  <2>1. Return(p, s \o <<EndOp>>)  BY <1>4 DEF NotFound
  <2> QED  BY <1>2, <1>3, <1>4, <2>1, ReturnCur
<1>5. CASE old[p] # 0
  <2>1. /\ pc' = [pc EXCEPT ![p] = "revert"] /\ Dropping(p, s) /\ cur' = [cur EXCEPT ![p] = 0]
        /\ UNCHANGED <<ino, old, path, call, fresh>>
    BY <1>5 DEF NotFound, Goto
  <2>2. s \in Seq(Item) /\ Len(s) <= 6 /\ Backed(s, {cur'[p], old'[p], cwd'[p], file'[p]})
    BY DEF DropsCur
  <2>3. pc' \in [Procs -> PCs] /\ pc'[p] = "revert" /\ \A q \in Procs : q # p => pc'[q] = pc[q]
    BY <1>1, <2>1 DEF TypeOK, PCs
  <2>4. cur' \in [Procs -> 0 .. NINODE] /\ cur'[p] = 0 /\ \A q \in Procs : q # p => cur'[q] = cur[q]
    <3>1. cur \in [Procs -> 0 .. NINODE] /\ 0 \in 0 .. NINODE  BY <1>1, InodesAssumption DEF TypeOK
    <3> QED  BY <2>1, <3>1
  <2>5. /\ OthersSame(p) /\ drops' \in [Procs -> Seq(Item)] /\ Len(drops'[p]) <= 6
        /\ owner' \in [Slots -> Procs \cup {None}]
    BY <1>1, <2>1, <2>2, <2>3, <2>4, OnOthers
  <2>6. TypeOK'  BY <1>1, <2>1, <2>3, <2>4, <2>5 DEF TypeOK
  <2>7. PlaceOK(p)'
    BY <1>1, <1>5, <2>1, <2>3, <2>4, <2>5 DEF PlaceOK, InLink, Naming1
  <2>8. OnRefs(p, s)
    <3>1. ASSUME NEW i \in Slots
          PROVE  refs'[i] = refs[i] + (InVars(0, ino[p], old[p], cwd[p], file[p], i)
                                       + InQueue(s, i, Refers))
                            - InVars(cur[p], ino[p], old[p], cwd[p], file[p], i)
      <4>1. InQueue(s, i, Refers) = Bit(cur[p] = i)  BY DEF DropsCur
      <4>2. refs[i] \in Int /\ i # 0
        <5>1. refs \in [Slots -> Int]  BY DEF CountInv, TypeOK
        <5>2. i # 0  BY InodesAssumption DEF Slots
        <5> QED  BY <5>1, <5>2
      <4> QED  BY <4>1, <4>2 DEF InVars, Bit
    <3>2. \A i \in Slots : /\ VarHandles(p, i)' = InVars(0, ino[p], old[p], cwd[p], file[p], i)
                           /\ VarHandles(p, i) = InVars(cur[p], ino[p], old[p], cwd[p], file[p], i)
      BY <2>1, <2>4 DEF VarHandles
    <3> QED  BY <3>1, <3>2 DEF OnRefs
  <2>9. OnLocks(p, s)
    <3>1. ASSUME NEW i \in Slots PROVE PlaceLocks(p, i)' + InQueue(s, i, Claims) = PlaceLocks(p, i)
      <4>1. InQueue(s, i, Claims) = PlaceLocks(p, i)  BY DEF DropsCur, PlaceLocks
      <4>2. PlaceLocks(p, i)' = 0
        <5>1. i # 0  BY InodesAssumption DEF Slots
        <5> QED  BY <2>3, <2>4, <5>1 DEF PlaceLocks, AtPlace, Bit, InoLocked, OldLocked
      <4>3. PlaceLocks(p, i) \in Nat  BY VarsNat DEF PlaceLocks
      <4> QED  BY <4>1, <4>2, <4>3
    <3> QED  BY <3>1 DEF OnLocks
  <2> QED  BY <2>1, <2>2, <2>5, <2>6, <2>7, <2>8, <2>9, OnGood
<1> QED  BY <1>4, <1>5

(* namex ends. *)
LEMMA NamexEndGood == ASSUME CountInv, NEW p \in Procs, NamexEnd(p) PROVE Good(p)
<1> DEFINE c == cur[p]
<1>1. /\ TypeOK /\ RestOK /\ PlaceOK(p) /\ pc[p] = "walk" /\ drops[p] = <<>>
      /\ c \in 0 .. NINODE /\ cwd[p] # 0
  BY RunningIs DEF NamexEnd
<1>2. UNCHANGED <<menu, inum, refs, valid, din, dino, ents, cwd, file, inop, asserted, panicked>>
  BY DEF NamexEnd, disk
<1>3. CASE IsParent(p)
  <2>1. NotFound(p, <<Ref(c)>>)  BY <1>3 DEF NamexEnd
  <2>2. DropsCur(p, <<Ref(c)>>) /\ DropsCur(p, <<Ref(c), EndOp>>)
    <3>1. pc[p] \notin CurLocked  BY <1>1 DEF CurLocked
    <3> QED  BY <1>1, <3>1, CurQueues
  <2>3. <<Ref(c)>> \o <<EndOp>> = <<Ref(c), EndOp>>
    <3>1. Ref(c) \in Item /\ EndOp \in Item  BY <1>1, ItemsAre
    <3> QED  BY <3>1, Concats
  <2>4. DropsCur(p, <<Ref(c)>> \o <<EndOp>>)  BY <2>2, <2>3
  <2> QED  BY <1>1, <1>2, <2>1, <2>2, <2>4, NotFoundGood
<1>4. CASE ~IsParent(p)
  <2>1. pc' = [pc EXCEPT ![p] = "found"]
        /\ UNCHANGED <<owner, drops, cur, ino, old, path, call, fresh>>
    BY <1>4 DEF NamexEnd, Goto
  <2>2. pc' \in [Procs -> PCs] /\ pc'[p] = "found" /\ \A q \in Procs : q # p => pc'[q] = pc[q]
    BY <1>1, <2>1 DEF TypeOK, PCs
  <2>3. TypeOK'  BY <1>1, <1>2, <2>1, <2>2 DEF TypeOK
  <2>4. OthersSame(p)  BY <1>2, <2>1, <2>2 DEF OthersSame
  <2>5. ~IsParent(p)'  BY <1>4, <2>1 DEF IsParent
  <2>6. PlaceOK(p)'  BY <1>1, <1>2, <2>1, <2>2, <2>5 DEF PlaceOK, InLink, Naming1
  <2>7. \A i \in Slots : PlaceLocks(p, i)' = PlaceLocks(p, i)
    BY <1>1, <2>1, <2>2 DEF PlaceLocks, AtPlace, Bit, CurLocked, InoLocked, OldLocked
  <2>8. CalmRefs(p) /\ CalmLocks(p) /\ OwnLocks(p)  BY <1>1, <1>2, <2>1, <2>7, IdleStep
  <2> QED  BY <1>1, <2>1, <2>3, <2>4, <2>6, <2>8, CalmGood
<1> QED  BY <1>3, <1>4

(* The data of a locked slot has been read. *)
LEMMA LockedValid ==
  ASSUME CountInv, NEW p \in Procs, drops[p] = <<>>, NEW i \in Slots,
         \/ pc[p] \in CurLocked /\ cur[p] = i
         \/ pc[p] \in InoLocked /\ ino[p] = i
         \/ pc[p] \in OldLocked /\ old[p] = i
  PROVE  owner[i] = p /\ valid[i] # 0 /\ valid[i] \in Inums
<1>1. Locks(p, i) = PlaceLocks(p, i) /\ Locks(p, i) = Bit(owner[i] = p)
  BY CalmCounts DEF CountInv, LockInv
<1>2. /\ Bit(pc[p] \in CurLocked /\ cur[p] = i) \in {0, 1}
      /\ Bit(pc[p] \in InoLocked /\ ino[p] = i) \in {0, 1}
      /\ Bit(pc[p] \in OldLocked /\ old[p] = i) \in {0, 1}
      /\ \/ Bit(pc[p] \in CurLocked /\ cur[p] = i) = 1
         \/ Bit(pc[p] \in InoLocked /\ ino[p] = i) = 1
         \/ Bit(pc[p] \in OldLocked /\ old[p] = i) = 1
  BY DEF Bit
<1>3. PlaceLocks(p, i) # 0  BY <1>2 DEF PlaceLocks, AtPlace
<1>4. owner[i] = p  BY <1>1, <1>3 DEF Bit
<1>5. p # None  BY InodesAssumption
<1>6. valid[i] # 0  BY <1>4, <1>5 DEF CountInv, SlotInv
<1>7. valid[i] \in 0 .. NINUM  BY DEF CountInv, TypeOK
<1> QED  BY <1>4, <1>6, <1>7, InodesAssumption DEF Inums

(* A step that gets a handle for cur and drops the old one. *)
LEMMA GetCurGood ==
  ASSUME CountInv, NEW p \in Procs, drops[p] = <<>>, NEW n \in 0 .. NINUM, Get(n),
         NEW s, DropsCur(p, s), Dropping(p, s),
         cur' = [cur EXCEPT ![p] = GetSlot(n)], NEW at \in PCs, pc' = [pc EXCEPT ![p] = at],
         at \notin CurLocked, UNCHANGED <<ino, old, call, fresh>>,
         path' = path \/ path' = [path EXCEPT ![p] = Tail(@)], path[p] # <<>>,
         UNCHANGED <<menu, valid, din, dino, ents, cwd, file, inop, asserted>>,
         TypeOK' /\ Len(drops'[p]) <= 6 /\ cur'[p] \in Slots /\ pc'[p] = at => PlaceOK(p)'
  PROVE  Good(p)
<1> DEFINE g == GetSlot(n)
<1>1. TypeOK /\ refs \in [Slots -> Int] /\ \A i \in Slots : i # 0
  <2>1. TypeOK /\ refs \in [Slots -> Int]  BY DEF CountInv, TypeOK
  <2>2. \A i \in Slots : i # 0  BY InodesAssumption DEF Slots
  <2> QED  BY <2>1, <2>2
<1>2. /\ g \in Slots /\ inum' \in [Slots -> 0 .. NINUM] /\ refs' \in [Slots -> Int]
      /\ refs'[g] = refs[g] + 1 /\ \A i \in Slots : i # g => refs'[i] = refs[i]
  BY <1>1, GetIs
<1>3. cur' = [cur EXCEPT ![p] = g]  OBVIOUS
<1> HIDE DEF g
<1>4. g \in 0 .. NINODE  BY <1>2, InodesAssumption DEF Slots
<1>5. cur' \in [Procs -> 0 .. NINODE] /\ cur'[p] = g /\ \A q \in Procs : q # p => cur'[q] = cur[q]
  <2>1. cur \in [Procs -> 0 .. NINODE]  BY <1>1 DEF TypeOK
  <2> QED  BY <1>3, <1>4, <2>1
<1>6. pc' \in [Procs -> PCs] /\ pc'[p] = at /\ \A q \in Procs : q # p => pc'[q] = pc[q]
  BY <1>1 DEF TypeOK
<1>7. path' \in [Procs -> Seq(Names)] /\ \A q \in Procs : q # p => path'[q] = path[q]
  <2>1. path \in [Procs -> Seq(Names)]  BY <1>1 DEF TypeOK
  <2>2. Tail(path[p]) \in Seq(Names)  BY <2>1
  <2>3. path' = path \/ path' = [path EXCEPT ![p] = Tail(path[p])]  OBVIOUS
  <2> QED  BY <2>1, <2>2, <2>3
<1>8. s \in Seq(Item) /\ Len(s) <= 6 /\ Backed(s, {cur'[p], old'[p], cwd'[p], file'[p]})
  BY DEF DropsCur
<1>9. /\ OthersSame(p) /\ drops' \in [Procs -> Seq(Item)] /\ Len(drops'[p]) <= 6
      /\ owner' \in [Slots -> Procs \cup {None}]
  BY <1>1, <1>5, <1>6, <1>7, <1>8, OnOthers
<1>10. TypeOK'  BY <1>1, <1>2, <1>5, <1>6, <1>7, <1>9 DEF TypeOK
<1>11. PlaceOK(p)'  BY <1>2, <1>5, <1>6, <1>9, <1>10
<1>12. OnRefs(p, s)
  <2>1. ASSUME NEW i \in Slots
        PROVE  refs'[i] = refs[i] + (InVars(g, ino[p], old[p], cwd[p], file[p], i)
                                     + InQueue(s, i, Refers))
                          - InVars(cur[p], ino[p], old[p], cwd[p], file[p], i)
    <3>1. InQueue(s, i, Refers) = Bit(cur[p] = i)  BY DEF DropsCur
    <3>2. refs[i] \in Int /\ refs'[i] = IF i = g THEN refs[i] + 1 ELSE refs[i]
      BY <1>1, <1>2
    <3> QED  BY <3>1, <3>2 DEF InVars, Bit
  <2>2. \A i \in Slots : /\ VarHandles(p, i)' = InVars(g, ino[p], old[p], cwd[p], file[p], i)
                         /\ VarHandles(p, i) = InVars(cur[p], ino[p], old[p], cwd[p], file[p], i)
    BY <1>5 DEF VarHandles
  <2> QED  BY <2>1, <2>2 DEF OnRefs
<1>13. OnLocks(p, s)
  <2>1. ASSUME NEW i \in Slots PROVE PlaceLocks(p, i)' + InQueue(s, i, Claims) = PlaceLocks(p, i)
    <3>1. InQueue(s, i, Claims) = PlaceLocks(p, i)  BY DEF DropsCur, PlaceLocks
    <3>2. PlaceLocks(p, i)' = 0
      <4>1. at \notin InoLocked /\ at \notin OldLocked  BY DEF CurLocked, InoLocked, OldLocked
      <4> QED  BY <1>6, <4>1 DEF PlaceLocks, AtPlace, Bit
    <3>3. PlaceLocks(p, i) \in Nat  BY VarsNat DEF PlaceLocks
    <3> QED  BY <3>1, <3>2, <3>3
  <2> QED  BY <2>1 DEF OnLocks
<1> QED  BY <1>8, <1>9, <1>10, <1>11, <1>12, <1>13, OnGood

(* One turn of namex. *)
LEMMA NamexLookGood == ASSUME CountInv, NEW p \in Procs, NamexLook(p) PROVE Good(p)
<1> DEFINE c == cur[p]
           n == DirLookup(valid[c], Head(path[p]))
           s == <<Guard(c), Ref(c)>>
<1>1. /\ TypeOK /\ RestOK /\ PlaceOK(p) /\ pc[p] = "look" /\ drops[p] = <<>>
      /\ c \in 0 .. NINODE /\ cwd[p] # 0
  BY RunningIs DEF NamexLook
<1>2. UNCHANGED <<menu, valid, din, dino, ents, cwd, file, inop, asserted>>
  BY DEF NamexLook, disk
<1>3. pc[p] \in CurLocked /\ pc[p] \notin InoLocked /\ pc[p] \notin OldLocked
  BY <1>1 DEF CurLocked, InoLocked, OldLocked
<1>4. DropsCur(p, s) /\ DropsCur(p, <<Guard(c), Ref(c), EndOp>>)
  BY <1>1, <1>3, CurQueues
<1>5. DropsCur(p, s \o <<EndOp>>)
  <2>1. Guard(c) \in Item /\ Ref(c) \in Item /\ EndOp \in Item  BY <1>1, ItemsAre
  <2>2. <<Guard(c), Ref(c)>> \o <<EndOp>> = <<Guard(c), Ref(c), EndOp>>  BY <2>1, Concats
  <2> QED  BY <1>4, <2>2
<1>6. c # 0 /\ path[p] # <<>> /\ ino[p] = 0  BY <1>1 DEF PlaceOK
<1>7. c \in Slots  BY <1>1, <1>6, InodesAssumption DEF Slots
<1>8. valid[c] \in Inums  BY <1>1, <1>3, <1>7, LockedValid
<1>9. n \in 0 .. NINUM  BY <1>1, <1>8, LookupIs
<1>10. CASE NotFound(p, s) /\ UNCHANGED <<inum, refs, panicked>>
  <2> HIDE DEF s
  <2> QED  BY <1>1, <1>2, <1>4, <1>5, <1>10, NotFoundGood
<1>11. CASE /\ IsParent(p) /\ Len(path[p]) = 1 /\ Dropping(p, <<Guard(c)>>) /\ Goto(p, "found")
            /\ UNCHANGED <<inum, refs, panicked, cur, ino, old, path, call, fresh>>
  <2> DEFINE u == <<Guard(c)>>
  <2>1. u \in Seq(Item) /\ Len(u) <= 6 /\ (c \in {cur'[p], old'[p], cwd'[p], file'[p]} =>
                                   Backed(u, {cur'[p], old'[p], cwd'[p], file'[p]}))
    BY <1>1, QueueG
  <2>2. \A i \in Slots : InQueue(u, i, Refers) = 0 /\ InQueue(u, i, Claims) = Bit(c = i)
    BY <1>1, QueueG
  <2>3. Backed(u, {cur'[p], old'[p], cwd'[p], file'[p]})  BY <1>11, <2>1
  <2>4. pc' = [pc EXCEPT ![p] = "found"] /\ Dropping(p, u)  BY <1>11 DEF Goto
  <2> HIDE DEF u
  <2>5. pc' \in [Procs -> PCs] /\ pc'[p] = "found" /\ \A q \in Procs : q # p => pc'[q] = pc[q]
    BY <1>1, <2>4 DEF TypeOK, PCs
  <2>6. /\ OthersSame(p) /\ drops' \in [Procs -> Seq(Item)] /\ Len(drops'[p]) <= 6
        /\ owner' \in [Slots -> Procs \cup {None}]
    BY <1>1, <1>2, <1>11, <2>1, <2>4, <2>5, OnOthers
  <2>7. TypeOK'  BY <1>1, <1>2, <1>11, <2>5, <2>6 DEF TypeOK
  <2>8. PlaceOK(p)'  BY <1>1, <1>2, <1>11, <2>5, <2>6 DEF PlaceOK, InLink, Naming1
  <2>9. OnRefs(p, u)
    <3>1. ASSUME NEW i \in Slots
          PROVE  refs'[i] = refs[i] + (VarHandles(p, i)' + InQueue(u, i, Refers)) - VarHandles(p, i)
      <4>1. VarHandles(p, i)' = VarHandles(p, i) /\ refs'[i] = refs[i]
        BY <1>2, <1>11 DEF VarHandles
      <4>2. VarHandles(p, i) \in Nat /\ refs[i] \in Int  BY <1>1, VarsNat DEF VarHandles, TypeOK
      <4>3. refs[i] = refs[i] + (VarHandles(p, i) + 0) - VarHandles(p, i)  BY <4>2
      <4>4. InQueue(u, i, Refers) = 0  BY <2>2
      <4> QED  BY <4>1, <4>3, <4>4, Zenon
    <3> QED  BY <3>1 DEF OnRefs
  <2>10. OnLocks(p, u)
    <3>1. ASSUME NEW i \in Slots PROVE PlaceLocks(p, i)' + InQueue(u, i, Claims) = PlaceLocks(p, i)
      <4>1. PlaceLocks(p, i)' = 0
        BY <2>5 DEF PlaceLocks, AtPlace, Bit, CurLocked, InoLocked, OldLocked
      <4>2. PlaceLocks(p, i) = Bit(c = i)  BY <1>3 DEF PlaceLocks, AtPlace, Bit
      <4>3. InQueue(u, i, Claims) = Bit(c = i) /\ Bit(c = i) \in Nat  BY <2>2 DEF Bit
      <4> QED  BY <4>1, <4>2, <4>3
    <3> QED  BY <3>1 DEF OnLocks
  <2> QED  BY <1>1, <2>1, <2>3, <2>4, <2>6, <2>7, <2>8, <2>9, <2>10, OnGood
<1>12. CASE /\ n # 0 /\ Get(n) /\ Dropping(p, s) /\ cur' = [cur EXCEPT ![p] = GetSlot(n)]
            /\ ~(IsParent(p) /\ Len(path[p]) = 1)
            /\ path' = [path EXCEPT ![p] = Tail(@)] /\ Goto(p, "walk")
            /\ UNCHANGED <<ino, old, call, fresh>>
  <2> HIDE DEF n, s
  <2>1. pc' = [pc EXCEPT ![p] = "walk"] /\ "walk" \in PCs /\ "walk" \notin CurLocked
    BY <1>12 DEF Goto, PCs, CurLocked
  <2>2. ASSUME TypeOK', Len(drops'[p]) <= 6, cur'[p] \in Slots, pc'[p] = "walk" PROVE PlaceOK(p)'
    <3>1. cur'[p] # 0  BY <2>2, InodesAssumption DEF Slots
    <3> QED  BY <1>1, <1>2, <1>12, <2>2, <3>1 DEF PlaceOK, InLink, Naming1
  <2> QED  BY <1>1, <1>2, <1>4, <1>6, <1>9, <1>12, <2>1, <2>2, GetCurGood
<1>13. \/ NotFound(p, s) /\ UNCHANGED <<inum, refs, panicked>>
       \/ /\ IsParent(p) /\ Len(path[p]) = 1 /\ Dropping(p, <<Guard(c)>>) /\ Goto(p, "found")
          /\ UNCHANGED <<inum, refs, panicked, cur, ino, old, path, call, fresh>>
       \/ /\ n # 0 /\ Get(n) /\ Dropping(p, s) /\ cur' = [cur EXCEPT ![p] = GetSlot(n)]
          /\ ~(IsParent(p) /\ Len(path[p]) = 1)
          /\ path' = [path EXCEPT ![p] = Tail(@)] /\ Goto(p, "walk")
          /\ UNCHANGED <<ino, old, call, fresh>>
  BY DEF NamexLook
<1> QED  BY <1>10, <1>11, <1>12, <1>13

-----------------------------------------------------------------------------
(* create looks for the name. *)
LEMMA CreateLookGood == ASSUME CountInv, NEW p \in Procs, CreateLook(p) PROVE Good(p)
<1> DEFINE c == cur[p]
           n == DirLookup(valid[c], LastName(p))
           s == <<Guard(c), Ref(c)>>
           g == GetSlot(n)
           u == <<Ref(g), Guard(c), Ref(c), EndOp>>
<1>1. /\ TypeOK /\ RestOK /\ PlaceOK(p) /\ pc[p] = "create" /\ drops[p] = <<>>
      /\ c \in 0 .. NINODE /\ cwd[p] # 0
  BY RunningIs DEF CreateLook
<1>2. UNCHANGED <<menu, valid, din, dino, ents, cwd, file, inop, asserted>>
  BY DEF CreateLook, disk
<1>3. pc[p] \in CurLocked /\ pc[p] \notin InoLocked /\ pc[p] \notin OldLocked
  BY <1>1 DEF CurLocked, InoLocked, OldLocked
<1>4. DropsCur(p, s)  BY <1>1, <1>3, CurQueues
<1>5. c # 0 /\ path[p] # <<>> /\ ino[p] = 0 /\ old[p] = 0  BY <1>1 DEF PlaceOK, Naming1, InLink
<1>6. c \in Slots  BY <1>1, <1>5, InodesAssumption DEF Slots
<1>7. valid[c] \in Inums  BY <1>1, <1>3, <1>6, LockedValid
<1>8. n \in 0 .. NINUM  BY <1>1, <1>7, LookupIs
<1>9. CASE /\ pc' = [pc EXCEPT ![p] = "alloc"]
           /\ UNCHANGED <<inum, refs, owner, drops, cur, ino, old, path, call, fresh, panicked>>
  <2>1. pc' \in [Procs -> PCs] /\ pc'[p] = "alloc" /\ \A q \in Procs : q # p => pc'[q] = pc[q]
    BY <1>1, <1>9 DEF TypeOK, PCs
  <2>2. TypeOK'  BY <1>1, <1>2, <1>9, <2>1 DEF TypeOK
  <2>3. OthersSame(p)  BY <1>2, <1>9, <2>1 DEF OthersSame
  <2>4. PlaceOK(p)'  BY <1>1, <1>2, <1>9, <2>1 DEF PlaceOK, InLink, Naming1
  <2>5. \A i \in Slots : PlaceLocks(p, i)' = PlaceLocks(p, i)
    BY <1>1, <1>9, <2>1 DEF PlaceLocks, AtPlace, Bit, CurLocked, InoLocked, OldLocked
  <2>6. CalmRefs(p) /\ CalmLocks(p) /\ OwnLocks(p)  BY <1>1, <1>2, <1>9, <2>5, IdleStep
  <2> QED  BY <1>1, <1>9, <2>2, <2>3, <2>4, <2>6, CalmGood
<1>10. CASE /\ Get(n) /\ Dropping(p, s) /\ cur' = [cur EXCEPT ![p] = GetSlot(n)]
            /\ pc' = [pc EXCEPT ![p] = "made"] /\ UNCHANGED <<ino, old, path, call, fresh>>
  <2> HIDE DEF n, s
  <2>1. "made" \in PCs /\ "made" \notin CurLocked  BY DEF PCs, CurLocked
  <2>2. ASSUME TypeOK', Len(drops'[p]) <= 6, cur'[p] \in Slots, pc'[p] = "made" PROVE PlaceOK(p)'
    <3>1. cur'[p] # 0  BY <2>2, InodesAssumption DEF Slots
    <3> QED  BY <1>1, <1>2, <1>10, <2>2, <3>1 DEF PlaceOK, InLink, Naming1
  <2> QED  BY <1>1, <1>2, <1>4, <1>5, <1>8, <1>10, <2>1, <2>2, GetCurGood
<1>11. CASE Get(n) /\ Return(p, u)
  <2>1. /\ g \in Slots /\ inum' \in [Slots -> 0 .. NINUM] /\ refs' \in [Slots -> Int]
        /\ refs'[g] = refs[g] + 1 /\ \A i \in Slots : i # g => refs'[i] = refs[i]
    BY <1>1, <1>8, <1>11, GetIs
  <2> HIDE DEF n, g
  <2>2. g \in 0 .. NINODE  BY <2>1, InodesAssumption DEF Slots
  <2>3. u \in Seq(Item) /\ Len(u) <= 6 /\ Backed(u, {0, 0, cwd'[p], file'[p]})
    BY <1>1, <2>2, QueueRGRE
  <2>4. \A i \in Slots : InQueue(u, i, Refers) = Bit(g = i) + Bit(c = i)
                         /\ InQueue(u, i, Claims) = Bit(c = i)
    BY <1>1, <2>2, QueueRGRE
  <2>5. Return(p, u)  BY <1>11
  <2> HIDE DEF u
  <2>6. RestOK' /\ FilesSame(p) /\ cwd'[p] # 0  BY <1>1, <1>2, <2>1 DEF RestOK, FilesSame
  <2>7. ReturnLocks(p, u)
    <3>1. \A i \in Slots : InQueue(u, i, Claims) = AtPlace(pc[p], c, ino[p], old[p], i)
      BY <1>3, <2>4 DEF AtPlace, Bit
    <3> QED  BY <3>1 DEF ReturnLocks
  <2>8. ReturnRefs(p, u)
    <3>1. ASSUME NEW i \in Slots
          PROVE  refs'[i] = refs[i] + (InVars(0, 0, 0, cwd'[p], file'[p], i) + InQueue(u, i, Refers))
                            - InVars(c, ino[p], old[p], cwd[p], file[p], i)
      <4>1. InQueue(u, i, Refers) = Bit(g = i) + Bit(c = i)  BY <2>4
      <4>2. refs[i] \in Int /\ refs'[i] = (IF i = g THEN refs[i] + 1 ELSE refs[i])
        <5>1. refs \in [Slots -> Int]  BY <1>1 DEF TypeOK
        <5> QED  BY <2>1, <5>1
      <4>3. cwd'[p] = cwd[p] /\ file'[p] = file[p] /\ i # 0
        <5>1. i # 0  BY InodesAssumption DEF Slots
        <5> QED  BY <1>2, <5>1
      <4> QED  BY <1>5, <4>1, <4>2, <4>3 DEF InVars, Bit
    <3> QED  BY <3>1 DEF ReturnRefs
  <2> QED  BY <1>1, <2>3, <2>5, <2>6, <2>7, <2>8, ReturnStep
<1>12. \/ /\ pc' = [pc EXCEPT ![p] = "alloc"]
          /\ UNCHANGED <<inum, refs, owner, drops, cur, ino, old, path, call, fresh, panicked>>
       \/ /\ Get(n) /\ Dropping(p, s) /\ cur' = [cur EXCEPT ![p] = GetSlot(n)]
          /\ pc' = [pc EXCEPT ![p] = "made"] /\ UNCHANGED <<ino, old, path, call, fresh>>
       \/ Get(n) /\ Return(p, u)
  BY DEF CreateLook, Goto
<1> QED  BY <1>9, <1>10, <1>11, <1>12

(* Inode data with another link count. *)
LEMMA NlinkIs ==
  ASSUME NEW d \in Dinode, NEW n \in Int
  PROVE  /\ [d EXCEPT !.nlink = n] \in Dinode
         /\ [d EXCEPT !.nlink = n].nlink = n /\ [d EXCEPT !.nlink = n].itype = d.itype
BY DEF Dinode

(* Two places of a function are overwritten. *)
LEMMA TwoPuts ==
  ASSUME NEW S, NEW T, NEW f \in [S -> T], NEW i, NEW j, NEW a \in T, NEW b \in T
  PROVE  [f EXCEPT ![i] = a, ![j] = b] \in [S -> T]
OBVIOUS

(* The last name of a path is a name. *)
LEMMA LastIs ==
  ASSUME TypeOK, NEW p \in Procs, path[p] # <<>> PROVE LastName(p) \in Names
<1>1. path[p] \in Seq(Names)  BY DEF TypeOK
<1>2. Len(path[p]) \in 1 .. Len(path[p])  BY <1>1
<1> QED  BY <1>1, <1>2 DEF LastName

(* create has both inodes locked. *)
LEMMA CreateFillGood == ASSUME CountInv, NEW p \in Procs, CreateFill(p) PROVE Good(p)
<1> DEFINE c == cur[p]
           j == ino[p]
           isdir == call[p].op = "mkdir"
           parent == [din[c] EXCEPT !.nlink = ParentLink(c, isdir)]
           made == [din[j] EXCEPT !.nlink = 1]
           dots == DirLink(DirLink(ents[valid[j]], Dot, valid[j]), DotDot, valid[c])
           s == <<Guard(c), Ref(c), Guard(j)>>
<1>1. /\ TypeOK /\ RestOK /\ PlaceOK(p) /\ pc[p] = "fill" /\ drops[p] = <<>>
      /\ c \in 0 .. NINODE /\ j \in 0 .. NINODE /\ cwd[p] # 0
  BY RunningIs DEF CreateFill
<1>2. /\ din' = [din EXCEPT ![c] = parent, ![j] = made]
      /\ dino' = [dino EXCEPT ![valid[c]] = parent, ![valid[j]] = made]
      /\ ents' = [ents EXCEPT ![valid[c]] = DirLink(@, LastName(p), valid[j]),
                              ![valid[j]] = IF isdir THEN dots ELSE ents[valid[j]]]
      /\ Dropping(p, s)
      /\ cur' = [cur EXCEPT ![p] = j] /\ ino' = [ino EXCEPT ![p] = 0]
      /\ fresh' = [fresh EXCEPT ![p] = 0] /\ pc' = [pc EXCEPT ![p] = "made"]
      /\ UNCHANGED <<menu, inum, refs, valid, call, path, old, cwd, file, inop, asserted>>
  BY DEF CreateFill, Goto
<1>3. c # 0 /\ j # 0 /\ path[p] # <<>> /\ call[p].op \in Creates
  BY <1>1 DEF PlaceOK, Naming1
<1>4. c \in Slots /\ j \in Slots  BY <1>1, <1>3, InodesAssumption DEF Slots
<1>5. pc[p] \in CurLocked /\ pc[p] \in InoLocked /\ pc[p] \notin OldLocked
  BY <1>1 DEF CurLocked, InoLocked, OldLocked
<1>6. valid[c] \in Inums /\ valid[j] \in Inums
  <2>1. valid[c] \in Inums  BY <1>1, <1>4, <1>5, LockedValid
  <2>2. valid[j] \in Inums  BY <1>1, <1>4, <1>5, LockedValid
  <2> QED  BY <2>1, <2>2
<1>7. parent \in Dinode /\ made \in Dinode
  <2>1. din[c] \in Dinode /\ din[j] \in Dinode  BY <1>1, <1>4 DEF TypeOK
  <2>2. ParentLink(c, isdir) \in Int  BY <2>1 DEF ParentLink, Dinode
  <2> QED  BY <2>1, <2>2, NlinkIs
<1>8. din' \in [Slots -> Dinode] /\ dino' \in [Inums -> Dinode]
  <2> HIDE DEF parent, made
  <2>1. din \in [Slots -> Dinode] /\ dino \in [Inums -> Dinode]  BY <1>1 DEF TypeOK
  <2> QED  BY <1>2, <1>7, <2>1, TwoPuts
<1>9. ents' \in [Inums -> Seq(DirEntry)]
  <2>1. ents \in [Inums -> Seq(DirEntry)]  BY <1>1 DEF TypeOK
  <2>2. valid[c] \in 0 .. NINUM /\ valid[j] \in 0 .. NINUM  BY <1>6 DEF Inums
  <2>3. LastName(p) \in Names  BY <1>1, <1>3, LastIs
  <2>4. DirLink(ents[valid[c]], LastName(p), valid[j]) \in Seq(DirEntry)
    BY <1>6, <2>1, <2>2, <2>3, LinkIs
  <2>5. DirLink(ents[valid[j]], Dot, valid[j]) \in Seq(DirEntry)
    BY <1>6, <2>1, <2>2, InodesAssumption, LinkIs
  <2>6. dots \in Seq(DirEntry)  BY <2>2, <2>5, InodesAssumption, LinkIs
  <2> DEFINE a == DirLink(ents[valid[c]], LastName(p), valid[j])
             b == IF isdir THEN dots ELSE ents[valid[j]]
  <2>7. b \in Seq(DirEntry)  BY <1>6, <2>1, <2>6
  <2>8. ents' = [ents EXCEPT ![valid[c]] = a, ![valid[j]] = b]  BY <1>2
  <2> HIDE DEF a, b
  <2>9. a \in Seq(DirEntry)  BY <2>4 DEF a
  <2> QED  BY <2>1, <2>7, <2>8, <2>9, TwoPuts
<1>10. s \in Seq(Item) /\ Len(s) <= 6
       /\ (j \in {cur'[p], old'[p], cwd'[p], file'[p]} =>
                                   Backed(s, {cur'[p], old'[p], cwd'[p], file'[p]}))
  BY <1>1, QueueGRG
<1>11. \A i \in Slots : InQueue(s, i, Refers) = Bit(c = i)
                        /\ InQueue(s, i, Claims) = Bit(c = i) + Bit(j = i)
  BY <1>1, QueueGRG
<1> HIDE DEF s, dots, isdir, parent, made
<1>12. pc' \in [Procs -> PCs] /\ pc'[p] = "made" /\ \A q \in Procs : q # p => pc'[q] = pc[q]
  BY <1>1, <1>2 DEF TypeOK, PCs
<1>13. /\ cur' \in [Procs -> 0 .. NINODE] /\ cur'[p] = j
       /\ ino' \in [Procs -> 0 .. NINODE] /\ ino'[p] = 0
       /\ fresh' \in [Procs -> 0 .. NINUM]
       /\ \A q \in Procs : q # p => cur'[q] = cur[q] /\ ino'[q] = ino[q] /\ fresh'[q] = fresh[q]
  <2>1. /\ cur \in [Procs -> 0 .. NINODE] /\ ino \in [Procs -> 0 .. NINODE] /\ 0 \in 0 .. NINODE
        /\ fresh \in [Procs -> 0 .. NINUM] /\ 0 \in 0 .. NINUM
    BY <1>1, InodesAssumption DEF TypeOK
  <2>2. cur' \in [Procs -> 0 .. NINODE] /\ cur'[p] = j /\ \A q \in Procs : q # p => cur'[q] = cur[q]
    BY <1>1, <1>2, <2>1
  <2>3. ino' \in [Procs -> 0 .. NINODE] /\ ino'[p] = 0 /\ \A q \in Procs : q # p => ino'[q] = ino[q]
    BY <1>2, <2>1
  <2>4. fresh' \in [Procs -> 0 .. NINUM] /\ \A q \in Procs : q # p => fresh'[q] = fresh[q]
    BY <1>2, <2>1
  <2> QED  BY <2>2, <2>3, <2>4
<1>14. /\ OthersSame(p) /\ drops' \in [Procs -> Seq(Item)] /\ Len(drops'[p]) <= 6
       /\ owner' \in [Slots -> Procs \cup {None}]
  BY <1>1, <1>2, <1>10, <1>12, <1>13, OnOthers
<1>15. TypeOK'  BY <1>1, <1>2, <1>8, <1>9, <1>12, <1>13, <1>14 DEF TypeOK
<1>16. PlaceOK(p)'
  BY <1>1, <1>2, <1>3, <1>12, <1>13, <1>14 DEF PlaceOK, InLink, Naming1
<1>17. OnRefs(p, s)
  <2>1. ASSUME NEW i \in Slots
        PROVE  refs'[i] = refs[i] + (InVars(j, 0, old[p], cwd[p], file[p], i) + InQueue(s, i, Refers))
                          - InVars(c, j, old[p], cwd[p], file[p], i)
    <3>1. InQueue(s, i, Refers) = Bit(c = i)  BY <1>11
    <3>2. refs[i] \in Int /\ refs'[i] = refs[i] /\ i # 0
      <4>1. refs \in [Slots -> Int]  BY <1>1 DEF TypeOK
      <4>2. i # 0  BY InodesAssumption DEF Slots
      <4> QED  BY <1>2, <4>1, <4>2
    <3> QED  BY <3>1, <3>2 DEF InVars, Bit
  <2>2. \A i \in Slots : /\ VarHandles(p, i)' = InVars(j, 0, old[p], cwd[p], file[p], i)
                         /\ VarHandles(p, i) = InVars(c, j, old[p], cwd[p], file[p], i)
    BY <1>2, <1>13 DEF VarHandles
  <2> QED  BY <2>1, <2>2 DEF OnRefs
<1>18. OnLocks(p, s)
  <2>1. ASSUME NEW i \in Slots PROVE PlaceLocks(p, i)' + InQueue(s, i, Claims) = PlaceLocks(p, i)
    <3>1. PlaceLocks(p, i)' = 0
      BY <1>12 DEF PlaceLocks, AtPlace, Bit, CurLocked, InoLocked, OldLocked
    <3>2. PlaceLocks(p, i) = Bit(c = i) + Bit(j = i)  BY <1>5 DEF PlaceLocks, AtPlace, Bit
    <3>3. InQueue(s, i, Claims) = Bit(c = i) + Bit(j = i)  BY <1>11
    <3>4. Bit(c = i) + Bit(j = i) \in Nat  BY DEF Bit
    <3> QED  BY <3>1, <3>2, <3>3, <3>4
  <2> QED  BY <2>1 DEF OnLocks
<1>19. Backed(s, {cur'[p], old'[p], cwd'[p], file'[p]})  BY <1>10, <1>13
<1> QED  BY <1>1, <1>2, <1>10, <1>14, <1>15, <1>16, <1>17, <1>18, <1>19, OnGood

(* The file or working directory of one process changes. *)
LEMMA OneFile ==
  ASSUME NEW f \in [Procs -> 0 .. NINODE], NEW p \in Procs, NEW c \in 0 .. NINODE, NEW g,
         g = [f EXCEPT ![p] = c]
  PROVE  /\ g \in [Procs -> 0 .. NINODE] /\ g[p] = c
         /\ \A q \in Procs : q # p => g[q] = f[q]
OBVIOUS

(* File::open has the inode locked. *)
LEMMA OpenedGood == ASSUME CountInv, NEW p \in Procs, Opened(p) PROVE Good(p)
<1> DEFINE c == cur[p]
           s == <<Guard(c), Ref(c), EndOp>>
           u == <<Guard(c), EndOp>>
<1>1. /\ TypeOK /\ RestOK /\ PlaceOK(p) /\ pc[p] = "opening" /\ drops[p] = <<>>
      /\ c \in 0 .. NINODE /\ cwd[p] # 0
  BY RunningIs DEF Opened
<1>2. UNCHANGED <<menu, inum, refs, valid, din, dino, ents, cwd, inop, asserted>>
  BY DEF Opened, disk
<1>3. pc[p] \in CurLocked /\ pc[p] \notin InoLocked /\ pc[p] \notin OldLocked
  BY <1>1 DEF CurLocked, InoLocked, OldLocked
<1>4. ino[p] = 0 /\ old[p] = 0 /\ file[p] = 0  BY <1>1 DEF PlaceOK, InLink
<1>5. CASE Return(p, s) /\ file' = file
  <2>1. DropsCur(p, s)  BY <1>1, <1>3, CurQueues
  <2>2. RestOK'  BY <1>1, <1>2, <1>5 DEF RestOK
  <2> HIDE DEF s
  <2> QED  BY <1>1, <1>2, <1>4, <1>5, <2>1, <2>2, ReturnCur
<1>6. CASE Return(p, u) /\ file' = [file EXCEPT ![p] = c]
  <2>1. file \in [Procs -> 0 .. NINODE]  BY <1>1 DEF TypeOK
  <2>2. /\ file' \in [Procs -> 0 .. NINODE] /\ file'[p] = c
        /\ \A q \in Procs : q # p => file'[q] = file[q]
    BY <1>1, <1>6, <2>1, OneFile
  <2>3. u \in Seq(Item) /\ Len(u) <= 6
        /\ (c \in {0, 0, cwd'[p], file'[p]} => Backed(u, {0, 0, cwd'[p], file'[p]}))
    BY <1>1, QueueGE
  <2>4. \A i \in Slots : InQueue(u, i, Refers) = 0 /\ InQueue(u, i, Claims) = Bit(c = i)
    BY <1>1, QueueGE
  <2>5. Return(p, u)  BY <1>6
  <2> HIDE DEF u
  <2>6. RestOK' /\ FilesSame(p) /\ cwd'[p] # 0  BY <1>1, <1>2, <2>2 DEF RestOK, FilesSame
  <2>7. ReturnLocks(p, u)
    <3>1. \A i \in Slots : InQueue(u, i, Claims) = AtPlace(pc[p], c, ino[p], old[p], i)
      BY <1>3, <2>4 DEF AtPlace, Bit
    <3> QED  BY <3>1 DEF ReturnLocks
  <2>8. ReturnRefs(p, u)
    <3>1. ASSUME NEW i \in Slots
          PROVE  refs'[i] = refs[i] + (InVars(0, 0, 0, cwd'[p], file'[p], i) + InQueue(u, i, Refers))
                            - InVars(c, ino[p], old[p], cwd[p], file[p], i)
      <4>1. InQueue(u, i, Refers) = 0  BY <2>4
      <4>2. refs[i] \in Int /\ refs'[i] = refs[i]
        <5>1. refs \in [Slots -> Int]  BY <1>1 DEF TypeOK
        <5> QED  BY <1>2, <5>1
      <4>3. cwd'[p] = cwd[p] /\ i # 0
        <5>1. i # 0  BY InodesAssumption DEF Slots
        <5> QED  BY <1>2, <5>1
      <4> QED  BY <1>4, <2>2, <4>1, <4>2, <4>3 DEF InVars, Bit
    <3> QED  BY <3>1 DEF ReturnRefs
  <2>9. Backed(u, {0, 0, cwd'[p], file'[p]})  BY <2>2, <2>3
  <2> QED  BY <1>1, <2>3, <2>5, <2>6, <2>7, <2>8, <2>9, ReturnStep
<1>7. \/ Return(p, s) /\ file' = file
      \/ Return(p, u) /\ file' = [file EXCEPT ![p] = c]
  BY DEF Opened
<1> QED  BY <1>5, <1>6, <1>7

(* sys_chdir has the inode locked. *)
LEMMA SysChdirGood == ASSUME CountInv, NEW p \in Procs, SysChdir(p) PROVE Good(p)
<1> DEFINE c == cur[p]
           w == cwd[p]
           s == <<Guard(c), Ref(c), EndOp>>
           u == <<Guard(c), Ref(w), EndOp>>
<1>1. /\ TypeOK /\ RestOK /\ PlaceOK(p) /\ pc[p] = "chdir" /\ drops[p] = <<>>
      /\ c \in 0 .. NINODE /\ w \in 0 .. NINODE /\ cwd[p] # 0
  BY RunningIs DEF SysChdir
<1>2. UNCHANGED <<menu, inum, refs, valid, din, dino, ents, file, inop, asserted>>
  BY DEF SysChdir, disk
<1>3. pc[p] \in CurLocked /\ pc[p] \notin InoLocked /\ pc[p] \notin OldLocked
  BY <1>1 DEF CurLocked, InoLocked, OldLocked
<1>4. ino[p] = 0 /\ old[p] = 0 /\ c # 0  BY <1>1 DEF PlaceOK, InLink
<1>5. CASE Return(p, s) /\ cwd' = cwd
  <2>1. DropsCur(p, s)  BY <1>1, <1>3, CurQueues
  <2>2. RestOK'  BY <1>1, <1>2, <1>5 DEF RestOK
  <2> HIDE DEF s
  <2> QED  BY <1>1, <1>2, <1>4, <1>5, <2>1, <2>2, ReturnCur
<1>6. CASE Return(p, u) /\ cwd' = [cwd EXCEPT ![p] = c]
  <2>1. cwd \in [Procs -> 0 .. NINODE]  BY <1>1 DEF TypeOK
  <2>2. /\ cwd' \in [Procs -> 0 .. NINODE] /\ cwd'[p] = c
        /\ \A q \in Procs : q # p => cwd'[q] = cwd[q]
    BY <1>1, <1>6, <2>1, OneFile
  <2>3. u \in Seq(Item) /\ Len(u) <= 6
        /\ (c \in {0, 0, cwd'[p], file'[p]} => Backed(u, {0, 0, cwd'[p], file'[p]}))
    BY <1>1, QueueGWE
  <2>4. \A i \in Slots : InQueue(u, i, Refers) = Bit(w = i) /\ InQueue(u, i, Claims) = Bit(c = i)
    BY <1>1, QueueGWE
  <2>5. Return(p, u)  BY <1>6
  <2> HIDE DEF u
  <2>6. RestOK' /\ FilesSame(p) /\ cwd'[p] # 0  BY <1>1, <1>2, <1>4, <2>2 DEF RestOK, FilesSame
  <2>7. ReturnLocks(p, u)
    <3>1. \A i \in Slots : InQueue(u, i, Claims) = AtPlace(pc[p], c, ino[p], old[p], i)
      BY <1>3, <2>4 DEF AtPlace, Bit
    <3> QED  BY <3>1 DEF ReturnLocks
  <2>8. ReturnRefs(p, u)
    <3>1. ASSUME NEW i \in Slots
          PROVE  refs'[i] = refs[i] + (InVars(0, 0, 0, cwd'[p], file'[p], i) + InQueue(u, i, Refers))
                            - InVars(c, ino[p], old[p], w, file[p], i)
      <4>1. InQueue(u, i, Refers) = Bit(w = i)  BY <2>4
      <4>2. refs[i] \in Int /\ refs'[i] = refs[i]
        <5>1. refs \in [Slots -> Int]  BY <1>1 DEF TypeOK
        <5> QED  BY <1>2, <5>1
      <4>3. file'[p] = file[p] /\ i # 0
        <5>1. i # 0  BY InodesAssumption DEF Slots
        <5> QED  BY <1>2, <5>1
      <4> QED  BY <1>4, <2>2, <4>1, <4>2, <4>3 DEF InVars, Bit
    <3> QED  BY <3>1 DEF ReturnRefs
  <2>9. Backed(u, {0, 0, cwd'[p], file'[p]})  BY <2>2, <2>3
  <2> QED  BY <1>1, <2>3, <2>5, <2>6, <2>7, <2>8, <2>9, ReturnStep
<1>7. \/ Return(p, s) /\ cwd' = cwd
      \/ Return(p, u) /\ cwd' = [cwd EXCEPT ![p] = c]
  BY DEF SysChdir
<1> QED  BY <1>5, <1>6, <1>7

(* dir_unlink looks for the entry. *)
LEMMA DirUnlinkLookGood == ASSUME CountInv, NEW p \in Procs, DirUnlinkLook(p) PROVE Good(p)
<1> DEFINE c == cur[p]
           n == DirLookup(valid[c], LastName(p))
           s == <<Guard(c), Ref(c), EndOp>>
<1>1. /\ TypeOK /\ RestOK /\ PlaceOK(p) /\ pc[p] = "unlink" /\ drops[p] = <<>>
      /\ c \in 0 .. NINODE /\ cwd[p] # 0
  BY RunningIs DEF DirUnlinkLook
<1>2. UNCHANGED <<menu, valid, din, dino, ents, cwd, file, inop, asserted>>
  BY DEF DirUnlinkLook, disk
<1>3. pc[p] \in CurLocked /\ pc[p] \notin InoLocked /\ pc[p] \notin OldLocked
  BY <1>1 DEF CurLocked, InoLocked, OldLocked
<1>4. ino[p] = 0 /\ old[p] = 0 /\ c # 0 /\ path[p] # <<>>  BY <1>1 DEF PlaceOK, InLink, Naming1
<1>5. c \in Slots  BY <1>1, <1>4, InodesAssumption DEF Slots
<1>6. valid[c] \in Inums  BY <1>1, <1>3, <1>5, LockedValid
<1>7. n \in 0 .. NINUM  BY <1>1, <1>6, LookupIs
<1>8. CASE SysUnlink(p, <<>>) /\ UNCHANGED <<inum, refs, panicked>>
  <2>1. DropsCur(p, s)  BY <1>1, <1>3, CurQueues
  <2>2. RestOK'  BY <1>1, <1>2, <1>8 DEF RestOK
  <2>3. Return(p, s)
    <3>1. Guard(c) \in Item /\ Ref(c) \in Item /\ EndOp \in Item  BY <1>1, ItemsAre
    <3>2. <<>> \o s = s  BY <3>1, Concats
    <3> QED  BY <1>8, <3>2 DEF SysUnlink
  <2> HIDE DEF s
  <2> QED  BY <1>1, <1>2, <1>4, <1>8, <2>1, <2>2, <2>3, ReturnCur
<1>9. CASE /\ Get(n) /\ ino' = [ino EXCEPT ![p] = GetSlot(n)] /\ pc' = [pc EXCEPT ![p] = "child"]
           /\ UNCHANGED <<owner, drops, cur, old, path, call, fresh>>
  <2>1. GetSlot(n) \in Slots  BY <1>1, <1>7, <1>9, GetIs
  <2> HIDE DEF n
  <2>2. pc'[p] = "child" /\ ino'[p] # 0
    <3>1. GetSlot(n) # 0  BY <2>1, InodesAssumption DEF Slots
    <3>2. pc \in [Procs -> PCs] /\ ino \in [Procs -> 0 .. NINODE]  BY <1>1 DEF TypeOK
    <3> QED  BY <1>9, <3>1, <3>2
  <2>3. PlaceOK(p)'  BY <1>1, <1>2, <1>9, <2>2 DEF PlaceOK, InLink, Naming1
  <2>4. /\ "child" \in PCs /\ "child" \in CurLocked
        /\ "child" \notin InoLocked /\ "child" \notin OldLocked
    BY DEF PCs, CurLocked, InoLocked, OldLocked
  <2> QED  BY <1>1, <1>2, <1>3, <1>4, <1>7, <1>9, <2>3, <2>4, GetInoGood
<1>10. \/ SysUnlink(p, <<>>) /\ UNCHANGED <<inum, refs, panicked>>
       \/ /\ Get(n) /\ ino' = [ino EXCEPT ![p] = GetSlot(n)] /\ pc' = [pc EXCEPT ![p] = "child"]
          /\ UNCHANGED <<owner, drops, cur, old, path, call, fresh>>
  BY DEF DirUnlinkLook, Goto
<1> QED  BY <1>8, <1>9, <1>10

(* Erasing an entry leaves entries. *)
LEMMA EraseIs ==
  ASSUME TypeOK, NEW n \in Inums, NEW nm PROVE DirErase(n, nm) \in Seq(DirEntry)
<1>1. ents[n] \in Seq(DirEntry)  BY DEF TypeOK
<1>2. Entry(NoName, 0) \in DirEntry
  <2>1. 0 \in 0 .. NINUM /\ NoName \in Names  BY InodesAssumption
  <2> QED  BY <2>1 DEF Entry, DirEntry
<1> QED  BY <1>1, <1>2, PutInSeq DEF DirErase

(* dir_unlink has both inodes locked. *)
LEMMA DirUnlinkGood == ASSUME CountInv, NEW p \in Procs, DirUnlink(p) PROVE Good(p)
<1> DEFINE c == cur[p]
           j == ino[p]
           parent == [din[c] EXCEPT !.nlink =
                          IF din[j].itype = "Directory" THEN @ - 1 ELSE @]
           child == [din[j] EXCEPT !.nlink = @ - 1]
           s == <<Guard(j), Ref(j), Guard(c), Ref(c), EndOp>>
<1>1. /\ TypeOK /\ RestOK /\ PlaceOK(p) /\ pc[p] = "unlinked" /\ drops[p] = <<>>
      /\ c \in 0 .. NINODE /\ j \in 0 .. NINODE /\ cwd[p] # 0
  BY RunningIs DEF DirUnlink
<1>2. UNCHANGED <<menu, inum, refs, valid, cwd, file, inop, asserted>>
  BY DEF DirUnlink
<1>3. pc[p] \in CurLocked /\ pc[p] \in InoLocked /\ pc[p] \notin OldLocked
  BY <1>1 DEF CurLocked, InoLocked, OldLocked
<1>4. j # 0 /\ old[p] = 0 /\ c # 0 /\ path[p] # <<>>  BY <1>1 DEF PlaceOK, InLink, Naming1
<1>5. c \in Slots /\ j \in Slots  BY <1>1, <1>4, InodesAssumption DEF Slots
<1>6. valid[c] \in Inums  BY <1>1, <1>3, <1>5, LockedValid
<1>7. Return(p, s)
  <2>1. Guard(c) \in Item /\ Ref(c) \in Item /\ EndOp \in Item /\ Guard(j) \in Item /\ Ref(j) \in Item
    BY <1>1, ItemsAre
  <2>2. <<Guard(j), Ref(j)>> \o <<Guard(c), Ref(c), EndOp>> = s  BY <2>1, Concat23
  <2> QED  BY <2>2 DEF DirUnlink, SysUnlink
<1>8. din' \in [Slots -> Dinode] /\ dino' \in [Inums -> Dinode] /\ ents' \in [Inums -> Seq(DirEntry)]
  <2>1. /\ din \in [Slots -> Dinode] /\ dino \in [Inums -> Dinode]
        /\ ents \in [Inums -> Seq(DirEntry)]
    BY <1>1 DEF TypeOK
  <2>2. CASE UNCHANGED <<din, dino, ents>>  BY <2>1, <2>2
  <2>3. CASE /\ ents' = [ents EXCEPT ![valid[c]] = DirErase(valid[c], LastName(p))]
             /\ din' = [din EXCEPT ![c] = parent, ![j] = child]
             /\ dino' = [dino EXCEPT ![valid[c]] = parent, ![valid[j]] = child]
    <3>1. parent \in Dinode /\ child \in Dinode
      <4>1. din[c] \in Dinode /\ din[j] \in Dinode  BY <1>5, <2>1
      <4>2. din[c].nlink \in Int /\ din[j].nlink \in Int  BY <4>1 DEF Dinode
      <4>3. /\ (IF din[j].itype = "Directory" THEN din[c].nlink - 1 ELSE din[c].nlink) \in Int
            /\ din[j].nlink - 1 \in Int
        BY <4>2
      <4> QED  BY <4>1, <4>3, NlinkIs
    <3> HIDE DEF parent, child
    <3>2. din' \in [Slots -> Dinode] /\ dino' \in [Inums -> Dinode]  BY <2>1, <2>3, <3>1, TwoPuts
    <3>3. DirErase(valid[c], LastName(p)) \in Seq(DirEntry)  BY <1>1, <1>6, EraseIs
    <3>4. ents' \in [Inums -> Seq(DirEntry)]  BY <2>1, <2>3, <3>3
    <3> QED  BY <3>2, <3>4
  <2>4. \/ UNCHANGED <<din, dino, ents>>
        \/ /\ ents' = [ents EXCEPT ![valid[c]] = DirErase(valid[c], LastName(p))]
           /\ din' = [din EXCEPT ![c] = parent, ![j] = child]
           /\ dino' = [dino EXCEPT ![valid[c]] = parent, ![valid[j]] = child]
    BY DEF DirUnlink, disk
  <2> QED  BY <2>2, <2>3, <2>4
<1>9. s \in Seq(Item) /\ Len(s) <= 6 /\ Backed(s, {0, 0, cwd'[p], file'[p]})  BY <1>1, QueueGRGRE
<1>10. \A i \in Slots : InQueue(s, i, Refers) = Bit(j = i) + Bit(c = i)
                        /\ InQueue(s, i, Claims) = Bit(j = i) + Bit(c = i)
  BY <1>1, QueueGRGRE
<1> HIDE DEF s, parent, child
<1>11. RestOK' /\ FilesSame(p) /\ cwd'[p] # 0  BY <1>1, <1>2, <1>8 DEF RestOK, FilesSame
<1>12. ReturnLocks(p, s)
  <2>1. \A i \in Slots : InQueue(s, i, Claims) = AtPlace(pc[p], c, j, old[p], i)
    BY <1>3, <1>10 DEF AtPlace, Bit
  <2> QED  BY <2>1 DEF ReturnLocks
<1>13. ReturnRefs(p, s)
  <2>1. ASSUME NEW i \in Slots
        PROVE  refs'[i] = refs[i] + (InVars(0, 0, 0, cwd'[p], file'[p], i) + InQueue(s, i, Refers))
                          - InVars(c, j, old[p], cwd[p], file[p], i)
    <3>1. InQueue(s, i, Refers) = Bit(j = i) + Bit(c = i)  BY <1>10
    <3>2. refs[i] \in Int /\ refs'[i] = refs[i]
      <4>1. refs \in [Slots -> Int]  BY <1>1 DEF TypeOK
      <4> QED  BY <1>2, <4>1
    <3>3. cwd'[p] = cwd[p] /\ file'[p] = file[p] /\ i # 0
      <4>1. i # 0  BY InodesAssumption DEF Slots
      <4> QED  BY <1>2, <4>1
    <3> QED  BY <1>4, <3>1, <3>2, <3>3 DEF InVars, Bit
  <2> QED  BY <2>1 DEF ReturnRefs
<1> QED  BY <1>1, <1>7, <1>9, <1>11, <1>12, <1>13, ReturnStep

-----------------------------------------------------------------------------
(* Relink changes one link count. *)
LEMMA RelinkIs ==
  ASSUME TypeOK, NEW i \in Slots, NEW n \in Int, Relink(i, n)
  PROVE  din' \in [Slots -> Dinode] /\ dino' \in [Inums -> Dinode]
<1>1. din \in [Slots -> Dinode] /\ dino \in [Inums -> Dinode]  BY DEF TypeOK
<1>2. din' = [din EXCEPT ![i] = [din[i] EXCEPT !.nlink = n]]  BY DEF Relink
<1>3. dino' = [dino EXCEPT ![valid[i]] = din'[i]]  BY DEF Relink
<1>4. [din[i] EXCEPT !.nlink = n] \in Dinode
  <2>1. din[i] \in Dinode  BY <1>1
  <2> QED  BY <2>1, NlinkIs
<1>5. din' \in [Slots -> Dinode]  BY <1>1, <1>2, <1>4
<1>6. din'[i] \in Dinode  BY <1>5
<1> QED  BY <1>1, <1>3, <1>5, <1>6

(* sys_link has the old inode locked. *)
LEMMA LinkOldGood == ASSUME CountInv, NEW p \in Procs, LinkOld(p) PROVE Good(p)
<1> DEFINE c == cur[p]
           s == <<EndOp, Guard(c), Ref(c)>>
           u == <<Guard(c)>>
<1>1. /\ TypeOK /\ RestOK /\ PlaceOK(p) /\ pc[p] = "link" /\ drops[p] = <<>>
      /\ c \in 0 .. NINODE /\ cwd[p] # 0
  BY RunningIs DEF LinkOld
<1>2. UNCHANGED <<menu, inum, refs, valid, ents, cwd, file, inop, asserted>>
  BY DEF LinkOld
<1>3. pc[p] \in CurLocked /\ pc[p] \notin InoLocked /\ pc[p] \notin OldLocked
  BY <1>1 DEF CurLocked, InoLocked, OldLocked
<1>4. ino[p] = 0 /\ old[p] = 0 /\ c # 0 /\ call[p] \in menu /\ call[p].op = "link"
  BY <1>1 DEF PlaceOK, InLink
<1>5. c \in Slots  BY <1>1, <1>4, InodesAssumption DEF Slots
<1>6. CASE Return(p, s) /\ UNCHANGED <<din, dino, panicked>>
  <2>1. DropsCur(p, s)  BY <1>1, <1>3, CurQueues
  <2>2. RestOK'  BY <1>1, <1>2, <1>6 DEF RestOK
  <2> HIDE DEF s
  <2> QED  BY <1>1, <1>2, <1>4, <1>6, <2>1, <2>2, ReturnCur
<1>7. CASE /\ Relink(c, din[c].nlink + 1)
           /\ old' = [old EXCEPT ![p] = c] /\ cur' = [cur EXCEPT ![p] = 0]
           /\ path' = [path EXCEPT ![p] = call[p].newpath]
           /\ Dropping(p, u) /\ pc' = [pc EXCEPT ![p] = "start"]
           /\ UNCHANGED <<ino, call, fresh>>
  <2>1. din' \in [Slots -> Dinode] /\ dino' \in [Inums -> Dinode]
    <3>1. din[c] \in Dinode  BY <1>1, <1>5 DEF TypeOK
    <3>2. din[c].nlink + 1 \in Int  BY <3>1 DEF Dinode
    <3> QED  BY <1>1, <1>5, <1>7, <3>2, RelinkIs
  <2>2. path' \in [Procs -> Seq(Names)] /\ \A q \in Procs : q # p => path'[q] = path[q]
    <3>1. menu \in Menus /\ path \in [Procs -> Seq(Names)]  BY <1>1 DEF TypeOK
    <3>2. call[p].newpath \in Seq(Names)  BY <1>4, <3>1, MenusAssumption
    <3> QED  BY <1>7, <3>1, <3>2
  <2>3. /\ cur' \in [Procs -> 0 .. NINODE] /\ cur'[p] = 0
        /\ old' \in [Procs -> 0 .. NINODE] /\ old'[p] = c
        /\ \A q \in Procs : q # p => cur'[q] = cur[q] /\ old'[q] = old[q]
    <3>1. cur \in [Procs -> 0 .. NINODE] /\ old \in [Procs -> 0 .. NINODE] /\ 0 \in 0 .. NINODE
      BY <1>1, InodesAssumption DEF TypeOK
    <3>2. cur' \in [Procs -> 0 .. NINODE] /\ cur'[p] = 0 /\ \A q \in Procs : q # p => cur'[q] = cur[q]
      BY <1>7, <3>1, OneFile
    <3>3. old' \in [Procs -> 0 .. NINODE] /\ old'[p] = c /\ \A q \in Procs : q # p => old'[q] = old[q]
      BY <1>1, <1>7, <3>1, OneFile
    <3> QED  BY <3>2, <3>3
  <2>4. u \in Seq(Item) /\ Len(u) <= 6 /\ (c \in {cur'[p], old'[p], cwd'[p], file'[p]} =>
                                   Backed(u, {cur'[p], old'[p], cwd'[p], file'[p]}))
    BY <1>1, QueueG
  <2>5. \A i \in Slots : InQueue(u, i, Refers) = 0 /\ InQueue(u, i, Claims) = Bit(c = i)
    BY <1>1, QueueG
  <2>6. Dropping(p, u) /\ UNCHANGED <<ino, call, fresh>>  BY <1>7
  <2> HIDE DEF u
  <2>7. pc' \in [Procs -> PCs] /\ pc'[p] = "start" /\ \A q \in Procs : q # p => pc'[q] = pc[q]
    BY <1>1, <1>7 DEF TypeOK, PCs
  <2>8. Backed(u, {cur'[p], old'[p], cwd'[p], file'[p]})  BY <2>3, <2>4
  <2>9. /\ OthersSame(p) /\ drops' \in [Procs -> Seq(Item)] /\ Len(drops'[p]) <= 6
        /\ owner' \in [Slots -> Procs \cup {None}]
    BY <1>1, <1>2, <2>2, <2>3, <2>4, <2>6, <2>7, OnOthers
  <2>10. TypeOK'  BY <1>1, <1>2, <2>1, <2>2, <2>3, <2>6, <2>7, <2>9 DEF TypeOK
  <2>11. PlaceOK(p)'
    BY <1>1, <1>2, <1>4, <2>3, <2>6, <2>7, <2>9 DEF PlaceOK, InLink, Naming1
  <2>12. OnRefs(p, u)
    <3>1. ASSUME NEW i \in Slots
          PROVE  refs'[i] = refs[i] + (InVars(0, 0, c, cwd[p], file[p], i) + InQueue(u, i, Refers))
                            - InVars(c, 0, 0, cwd[p], file[p], i)
      <4>1. InQueue(u, i, Refers) = 0  BY <2>5
      <4>2. refs[i] \in Int /\ refs'[i] = refs[i] /\ i # 0
        <5>1. refs \in [Slots -> Int]  BY <1>1 DEF TypeOK
        <5>2. i # 0  BY InodesAssumption DEF Slots
        <5> QED  BY <1>2, <5>1, <5>2
      <4> QED  BY <4>1, <4>2 DEF InVars, Bit
    <3>2. \A i \in Slots : /\ VarHandles(p, i)' = InVars(0, 0, c, cwd[p], file[p], i)
                           /\ VarHandles(p, i) = InVars(c, 0, 0, cwd[p], file[p], i)
      BY <1>2, <1>4, <2>3, <2>6 DEF VarHandles
    <3> QED  BY <3>1, <3>2 DEF OnRefs
  <2>13. OnLocks(p, u)
    <3>1. ASSUME NEW i \in Slots PROVE PlaceLocks(p, i)' + InQueue(u, i, Claims) = PlaceLocks(p, i)
      <4>1. PlaceLocks(p, i)' = 0
        BY <2>7 DEF PlaceLocks, AtPlace, Bit, CurLocked, InoLocked, OldLocked
      <4>2. PlaceLocks(p, i) = Bit(c = i)  BY <1>3 DEF PlaceLocks, AtPlace, Bit
      <4>3. InQueue(u, i, Claims) = Bit(c = i) /\ Bit(c = i) \in Nat  BY <2>5 DEF Bit
      <4> QED  BY <4>1, <4>2, <4>3
    <3> QED  BY <3>1 DEF OnLocks
  <2> QED  BY <1>1, <2>4, <2>6, <2>8, <2>9, <2>10, <2>11, <2>12, <2>13, OnGood
<1>8. \/ Return(p, s) /\ UNCHANGED <<din, dino, panicked>>
      \/ /\ Relink(c, din[c].nlink + 1)
         /\ old' = [old EXCEPT ![p] = c] /\ cur' = [cur EXCEPT ![p] = 0]
         /\ path' = [path EXCEPT ![p] = call[p].newpath]
         /\ Dropping(p, u) /\ pc' = [pc EXCEPT ![p] = "start"]
         /\ UNCHANGED <<ino, call, fresh>>
  BY DEF LinkOld, Goto, UnlockOld
<1> QED  BY <1>6, <1>7, <1>8

(* sys_link has the new directory locked. *)
LEMMA LinkNewGood == ASSUME CountInv, NEW p \in Procs, LinkNew(p) PROVE Good(p)
<1> DEFINE c == cur[p]
           w == old[p]
           n == DirLookup(valid[c], LastName(p))
           g == GetSlot(n)
           s == <<Ref(g)>>
           u == <<Guard(c), Ref(c), Ref(w), EndOp>>
<1>1. /\ TypeOK /\ RestOK /\ PlaceOK(p) /\ pc[p] = "linking" /\ drops[p] = <<>>
      /\ c \in 0 .. NINODE /\ w \in 0 .. NINODE /\ cwd[p] # 0
  BY RunningIs DEF LinkNew
<1>2. UNCHANGED <<menu, valid, din, dino, cwd, file, inop, asserted>>
  BY DEF LinkNew
<1>3. pc[p] \in CurLocked /\ pc[p] \notin InoLocked /\ pc[p] \notin OldLocked
  BY <1>1 DEF CurLocked, InoLocked, OldLocked
<1>4. ino[p] = 0 /\ w # 0 /\ c # 0 /\ path[p] # <<>>  BY <1>1 DEF PlaceOK, InLink, Naming1
<1>5. c \in Slots /\ w \in Slots  BY <1>1, <1>4, InodesAssumption DEF Slots
<1>6. valid[c] \in Inums  BY <1>1, <1>3, <1>5, LockedValid
<1>7. n \in 0 .. NINUM  BY <1>1, <1>6, LookupIs
<1>8. CASE /\ Get(n) /\ Dropping(p, s) /\ pc' = [pc EXCEPT ![p] = "revert"]
           /\ UNCHANGED <<ents, cur, ino, old, path, call, fresh>>
  <2>1. /\ g \in Slots /\ inum' \in [Slots -> 0 .. NINUM] /\ refs' \in [Slots -> Int]
        /\ refs'[g] = refs[g] + 1 /\ \A i \in Slots : i # g => refs'[i] = refs[i]
    BY <1>1, <1>7, <1>8, GetIs
  <2> HIDE DEF n, g
  <2>2. g \in 0 .. NINODE  BY <2>1, InodesAssumption DEF Slots
  <2>3. s \in Seq(Item) /\ Len(s) <= 6 /\ Backed(s, {cur'[p], old'[p], cwd'[p], file'[p]})
    BY <2>2, QueueR
  <2>4. \A i \in Slots : InQueue(s, i, Refers) = Bit(g = i) /\ InQueue(s, i, Claims) = 0
    BY <2>2, QueueR
  <2>5. Dropping(p, s)  BY <1>8
  <2> HIDE DEF s
  <2>6. pc' \in [Procs -> PCs] /\ pc'[p] = "revert" /\ \A q \in Procs : q # p => pc'[q] = pc[q]
    BY <1>1, <1>8 DEF TypeOK, PCs
  <2>7. /\ OthersSame(p) /\ drops' \in [Procs -> Seq(Item)] /\ Len(drops'[p]) <= 6
        /\ owner' \in [Slots -> Procs \cup {None}]
    BY <1>1, <1>2, <1>8, <2>3, <2>5, <2>6, OnOthers
  <2>8. TypeOK'  BY <1>1, <1>2, <1>8, <2>1, <2>6, <2>7 DEF TypeOK
  <2>9. PlaceOK(p)'
    BY <1>1, <1>2, <1>4, <1>8, <2>6, <2>7 DEF PlaceOK, InLink, Naming1
  <2>10. OnRefs(p, s)
    <3>1. ASSUME NEW i \in Slots
          PROVE  refs'[i] = refs[i] + (VarHandles(p, i)' + InQueue(s, i, Refers)) - VarHandles(p, i)
      <4>1. VarHandles(p, i)' = VarHandles(p, i)  BY <1>2, <1>8 DEF VarHandles
      <4>2. VarHandles(p, i) \in Nat  BY VarsNat DEF VarHandles
      <4>3. refs[i] \in Int /\ refs'[i] = refs[i] + Bit(g = i)
        <5>1. refs \in [Slots -> Int]  BY <1>1 DEF TypeOK
        <5> QED  BY <2>1, <5>1 DEF Bit
      <4>4. InQueue(s, i, Refers) = Bit(g = i) /\ Bit(g = i) \in Int  BY <2>4 DEF Bit
      <4>5. PICK a \in Int, b \in Int, r \in Int :
               a = VarHandles(p, i) /\ b = Bit(g = i) /\ r = refs[i]
        <5>1. VarHandles(p, i) \in Int /\ Bit(g = i) \in Int /\ refs[i] \in Int
          BY <4>2, <4>3, <4>4
        <5> QED  BY <5>1, Zenon
      <4>6. r + b = r + (a + b) - a  OBVIOUS
      <4> QED  BY <4>1, <4>3, <4>4, <4>5, <4>6, Zenon
    <3> QED  BY <3>1 DEF OnRefs
  <2>11. OnLocks(p, s)
    <3>1. ASSUME NEW i \in Slots PROVE PlaceLocks(p, i)' + InQueue(s, i, Claims) = PlaceLocks(p, i)
      <4>1. PlaceLocks(p, i)' = Bit(c = i)
        BY <1>8, <2>6 DEF PlaceLocks, AtPlace, Bit, CurLocked, InoLocked, OldLocked
      <4>2. PlaceLocks(p, i) = Bit(c = i)  BY <1>3 DEF PlaceLocks, AtPlace, Bit
      <4>3. InQueue(s, i, Claims) = 0 /\ Bit(c = i) \in Nat  BY <2>4 DEF Bit
      <4> QED  BY <4>1, <4>2, <4>3
    <3> QED  BY <3>1 DEF OnLocks
  <2> QED  BY <1>1, <2>3, <2>5, <2>7, <2>8, <2>9, <2>10, <2>11, OnGood
<1>9. CASE /\ UNCHANGED <<inum, refs>>
           /\ ents' = [ents EXCEPT ![valid[c]] = DirLink(@, LastName(p), inum[w])]
           /\ Return(p, u)
  <2>1. ents' \in [Inums -> Seq(DirEntry)]
    <3>1. ents \in [Inums -> Seq(DirEntry)] /\ inum[w] \in 0 .. NINUM  BY <1>1, <1>5 DEF TypeOK
    <3>2. LastName(p) \in Names  BY <1>1, <1>4, LastIs
    <3>3. DirLink(ents[valid[c]], LastName(p), inum[w]) \in Seq(DirEntry)
      BY <1>6, <3>1, <3>2, LinkIs
    <3> QED  BY <1>9, <3>1, <3>3
  <2>2. u \in Seq(Item) /\ Len(u) <= 6 /\ Backed(u, {0, 0, cwd'[p], file'[p]})
    BY <1>1, QueueGRRE
  <2>3. \A i \in Slots : InQueue(u, i, Refers) = Bit(c = i) + Bit(w = i)
                         /\ InQueue(u, i, Claims) = Bit(c = i)
    BY <1>1, QueueGRRE
  <2>4. Return(p, u)  BY <1>9
  <2> HIDE DEF u
  <2>5. RestOK' /\ FilesSame(p) /\ cwd'[p] # 0  BY <1>1, <1>2, <1>9, <2>1 DEF RestOK, FilesSame
  <2>6. ReturnLocks(p, u)
    <3>1. \A i \in Slots : InQueue(u, i, Claims) = AtPlace(pc[p], c, ino[p], w, i)
      BY <1>3, <2>3 DEF AtPlace, Bit
    <3> QED  BY <3>1 DEF ReturnLocks
  <2>7. ReturnRefs(p, u)
    <3>1. ASSUME NEW i \in Slots
          PROVE  refs'[i] = refs[i] + (InVars(0, 0, 0, cwd'[p], file'[p], i) + InQueue(u, i, Refers))
                            - InVars(c, ino[p], w, cwd[p], file[p], i)
      <4>1. InQueue(u, i, Refers) = Bit(c = i) + Bit(w = i)  BY <2>3
      <4>2. refs[i] \in Int /\ refs'[i] = refs[i]
        <5>1. refs \in [Slots -> Int]  BY <1>1 DEF TypeOK
        <5> QED  BY <1>9, <5>1
      <4>3. cwd'[p] = cwd[p] /\ file'[p] = file[p] /\ i # 0
        <5>1. i # 0  BY InodesAssumption DEF Slots
        <5> QED  BY <1>2, <5>1
      <4> QED  BY <1>4, <4>1, <4>2, <4>3 DEF InVars, Bit
    <3> QED  BY <3>1 DEF ReturnRefs
  <2> QED  BY <1>1, <2>2, <2>4, <2>5, <2>6, <2>7, ReturnStep
<1>10. \/ /\ Get(n) /\ Dropping(p, s) /\ pc' = [pc EXCEPT ![p] = "revert"]
          /\ UNCHANGED <<ents, cur, ino, old, path, call, fresh>>
       \/ /\ UNCHANGED <<inum, refs>>
          /\ ents' = [ents EXCEPT ![valid[c]] = DirLink(@, LastName(p), inum[w])]
          /\ Return(p, u)
  BY DEF LinkNew, Goto
<1> QED  BY <1>8, <1>9, <1>10

(* revert_link has the old inode locked. *)
LEMMA RevertLinkGood == ASSUME CountInv, NEW p \in Procs, RevertLink(p) PROVE Good(p)
<1> DEFINE c == cur[p]
           w == old[p]
           dir == IF c = 0 THEN <<>> ELSE <<Guard(c), Ref(c)>>
           s == <<Guard(w), Ref(w), EndOp>> \o dir
<1>1. /\ TypeOK /\ RestOK /\ PlaceOK(p) /\ pc[p] = "reverting" /\ drops[p] = <<>>
      /\ c \in 0 .. NINODE /\ w \in 0 .. NINODE /\ cwd[p] # 0
  BY RunningIs DEF RevertLink
<1>2. UNCHANGED <<menu, inum, refs, valid, ents, cwd, file, inop, asserted>>
  BY DEF RevertLink
<1>3. pc[p] \in CurLocked /\ pc[p] \notin InoLocked /\ pc[p] \in OldLocked
  BY <1>1 DEF CurLocked, InoLocked, OldLocked
<1>4. ino[p] = 0 /\ w # 0  BY <1>1 DEF PlaceOK, InLink
<1>5. w \in Slots  BY <1>1, <1>4, InodesAssumption DEF Slots
<1>6. din' \in [Slots -> Dinode] /\ dino' \in [Inums -> Dinode]
  <2>1. din[w] \in Dinode  BY <1>1, <1>5 DEF TypeOK
  <2>2. din[w].nlink - 1 \in Int  BY <2>1 DEF Dinode
  <2>3. Relink(w, din[w].nlink - 1)  BY DEF RevertLink
  <2> QED  BY <1>1, <1>5, <2>2, <2>3, RelinkIs
<1>7. Return(p, s)  BY DEF RevertLink
<1>8. Guard(c) \in Item /\ Ref(c) \in Item /\ EndOp \in Item /\ Guard(w) \in Item /\ Ref(w) \in Item
  BY <1>1, ItemsAre
<1>9. /\ s \in Seq(Item) /\ Len(s) <= 6 /\ Backed(s, {0, 0, cwd'[p], file'[p]})
      /\ \A i \in Slots : InQueue(s, i, Refers) = Bit(w = i) + Bit(c = i)
                          /\ InQueue(s, i, Claims) = Bit(w = i) + Bit(c = i)
  <2>1. CASE c = 0
    <3> DEFINE t == <<Guard(w), Ref(w), EndOp>>
    <3>1. t \o <<>> = t  BY <1>8, Concats
    <3>2. s = t  BY <2>1, <3>1
    <3>3. t \in Seq(Item) /\ Len(t) <= 6 /\ Backed(t, {0, 0, cwd'[p], file'[p]})
      BY <1>1, QueueGRE
    <3>4. \A i \in Slots : InQueue(t, i, Refers) = Bit(w = i) /\ InQueue(t, i, Claims) = Bit(w = i)
      BY <1>1, QueueGRE
    <3> HIDE DEF s, t
    <3>5. \A i \in Slots : Bit(w = i) = Bit(w = i) + Bit(c = i)
      BY <2>1, InodesAssumption DEF Bit, Slots
    <3>6. \A i \in Slots : InQueue(t, i, Refers) = Bit(w = i) + Bit(c = i)
                           /\ InQueue(t, i, Claims) = Bit(w = i) + Bit(c = i)
      BY <3>4, <3>5, Zenon
    <3> QED  BY <3>2, <3>3, <3>6
  <2>2. CASE c # 0
    <3> DEFINE t == <<Guard(w), Ref(w), EndOp, Guard(c), Ref(c)>>
    <3>1. <<Guard(w), Ref(w), EndOp>> \o <<Guard(c), Ref(c)>> = t  BY <1>8, Concat32
    <3>2. s = t  BY <2>2, <3>1
    <3>3. t \in Seq(Item) /\ Len(t) <= 6 /\ Backed(t, {0, 0, cwd'[p], file'[p]})
      BY <1>1, QueueGREGR
    <3>4. \A i \in Slots : InQueue(t, i, Refers) = Bit(w = i) + Bit(c = i)
                           /\ InQueue(t, i, Claims) = Bit(w = i) + Bit(c = i)
      BY <1>1, QueueGREGR
    <3> HIDE DEF s, t
    <3> QED  BY <3>2, <3>3, <3>4
  <2> QED  BY <2>1, <2>2
<1> HIDE DEF s, dir
<1>10. RestOK' /\ FilesSame(p) /\ cwd'[p] # 0  BY <1>1, <1>2, <1>6 DEF RestOK, FilesSame
<1>11. ReturnLocks(p, s)
  <2>1. ASSUME NEW i \in Slots PROVE InQueue(s, i, Claims) = AtPlace(pc[p], c, ino[p], w, i)
    <3>1. InQueue(s, i, Claims) = Bit(w = i) + Bit(c = i)  BY <1>9
    <3> QED  BY <1>3, <3>1 DEF AtPlace, Bit
  <2> QED  BY <2>1 DEF ReturnLocks
<1>12. ReturnRefs(p, s)
  <2>1. ASSUME NEW i \in Slots
        PROVE  refs'[i] = refs[i] + (InVars(0, 0, 0, cwd'[p], file'[p], i) + InQueue(s, i, Refers))
                          - InVars(c, ino[p], w, cwd[p], file[p], i)
    <3>1. InQueue(s, i, Refers) = Bit(w = i) + Bit(c = i)  BY <1>9
    <3>2. refs[i] \in Int /\ refs'[i] = refs[i]
      <4>1. refs \in [Slots -> Int]  BY <1>1 DEF TypeOK
      <4> QED  BY <1>2, <4>1
    <3>3. cwd'[p] = cwd[p] /\ file'[p] = file[p] /\ i # 0
      <4>1. i # 0  BY InodesAssumption DEF Slots
      <4> QED  BY <1>2, <4>1
    <3> QED  BY <1>4, <3>1, <3>2, <3>3 DEF InVars, Bit
  <2> QED  BY <2>1 DEF ReturnRefs
<1> QED  BY <1>1, <1>7, <1>9, <1>10, <1>11, <1>12, ReturnStep

-----------------------------------------------------------------------------
(* A queue that does not start with a guard is dropped as it is. *)
LEMMA QueueDrops ==
  ASSUME NEW p, NEW s, s = <<>> \/ Head(s).k # "guard", Queue(p, s), owner' = owner
  PROVE  Dropping(p, s)
BY DEF Dropping

(* sys_close. *)
LEMMA SysCloseGood == ASSUME CountInv, NEW p \in Procs, SysClose(p) PROVE Good(p)
<1> DEFINE c == file[p]
           s == <<BeginOp, Ref(c), EndOp>>
<1>1. /\ TypeOK /\ PlaceOK(p) /\ pc[p] = "user" /\ drops[p] = <<>>
      /\ c \in 0 .. NINODE /\ cwd[p] # 0
  BY RunningIs DEF SysClose
<1>2. /\ file' = [file EXCEPT ![p] = 0]
      /\ UNCHANGED <<menu, inum, refs, owner, valid, din, dino, ents, pc, call, path, cur, ino, old,
                     fresh, cwd, inop, asserted>>
  BY DEF SysClose, cache, disk
<1>3. Dropping(p, s)
  <2>1. Head(s) = BeginOp  OBVIOUS
  <2>2. Head(s).k # "guard"  BY <2>1 DEF BeginOp
  <2>3. Queue(p, s)  BY DEF SysClose
  <2> HIDE DEF s
  <2> QED  BY <1>2, <2>2, <2>3, QueueDrops
<1>4. s \in Seq(Item) /\ Len(s) <= 6 /\ Backed(s, {cur'[p], old'[p], cwd'[p], file'[p]})
  BY <1>1, QueueBRE
<1>5. \A i \in Slots : InQueue(s, i, Refers) = Bit(c = i) /\ InQueue(s, i, Claims) = 0
  BY <1>1, QueueBRE
<1> HIDE DEF s
<1>6. /\ file' \in [Procs -> 0 .. NINODE] /\ file'[p] = 0
      /\ \A q \in Procs : q # p => file'[q] = file[q]
  <2>1. file \in [Procs -> 0 .. NINODE] /\ 0 \in 0 .. NINODE  BY <1>1, InodesAssumption DEF TypeOK
  <2> QED  BY <1>2, <2>1, OneFile
<1>7. /\ \A q \in Procs : q # p => drops'[q] = drops[q]
      /\ drops' \in [Procs -> Seq(Item)] /\ Len(drops'[p]) <= 6
  <2>1. Len(s) <= 8  BY <1>4
  <2>2. \A q \in Procs : q # p => drops'[q] = drops[q]  BY <1>1, <1>3, <1>4, <2>1, DropOthers
  <2>3. drops' \in [Procs -> Seq(Item)] /\ drops'[p] = After(s)  BY <1>1, <1>3, <1>4, <2>1, DroppingIs
  <2>4. Len(After(s)) <= Len(s) /\ After(s) \in Seq(Item)  BY <1>4, <2>1, AfterCount
  <2> QED  BY <1>4, <2>2, <2>3, <2>4
<1>8. OthersSame(p)  BY <1>2, <1>6, <1>7 DEF OthersSame
<1>9. TypeOK'  BY <1>1, <1>2, <1>6, <1>7 DEF TypeOK
<1>10. PlaceOK(p)'  BY <1>1, <1>2, <1>6, <1>7 DEF PlaceOK, InLink, Naming1
<1>11. OnRefs(p, s)
  <2>1. ASSUME NEW i \in Slots
        PROVE  refs'[i] = refs[i]
                 + (InVars(cur[p], ino[p], old[p], cwd[p], 0, i) + InQueue(s, i, Refers))
                 - InVars(cur[p], ino[p], old[p], cwd[p], c, i)
    <3>1. InQueue(s, i, Refers) = Bit(c = i)  BY <1>5
    <3>2. refs[i] \in Int /\ refs'[i] = refs[i]
      <4>1. refs \in [Slots -> Int]  BY <1>1 DEF TypeOK
      <4> QED  BY <1>2, <4>1
    <3>3. i # 0  BY InodesAssumption DEF Slots
    <3> QED  BY <3>1, <3>2, <3>3 DEF InVars, Bit
  <2>2. \A i \in Slots : /\ VarHandles(p, i)' = InVars(cur[p], ino[p], old[p], cwd[p], 0, i)
                         /\ VarHandles(p, i) = InVars(cur[p], ino[p], old[p], cwd[p], c, i)
    BY <1>2, <1>6 DEF VarHandles
  <2> QED  BY <2>1, <2>2 DEF OnRefs
<1>12. OnLocks(p, s)
  <2>1. ASSUME NEW i \in Slots PROVE PlaceLocks(p, i)' + InQueue(s, i, Claims) = PlaceLocks(p, i)
    <3>1. PlaceLocks(p, i)' = PlaceLocks(p, i)  BY <1>2 DEF PlaceLocks
    <3>2. PlaceLocks(p, i) = 0
      BY <1>1 DEF PlaceLocks, AtPlace, Bit, CurLocked, InoLocked, OldLocked
    <3>3. InQueue(s, i, Claims) = 0  BY <1>5
    <3> QED  BY <3>1, <3>2, <3>3
  <2> QED  BY <2>1 DEF OnLocks
<1> QED  BY <1>1, <1>3, <1>4, <1>8, <1>9, <1>10, <1>11, <1>12, OnGood

(* close_files. *)
LEMMA CloseFilesGood == ASSUME CountInv, NEW p \in Procs, CloseFiles(p) PROVE Good(p)
<1> DEFINE c == cwd[p]
           w == file[p]
           s == (IF w = 0 THEN <<>> ELSE <<BeginOp, Ref(w), EndOp>>) \o <<BeginOp, Ref(c), EndOp>>
<1>1. /\ TypeOK /\ PlaceOK(p) /\ pc[p] = "user" /\ drops[p] = <<>>
      /\ c \in 0 .. NINODE /\ w \in 0 .. NINODE
  BY RunningIs DEF CloseFiles
<1>2. /\ file' = [file EXCEPT ![p] = 0] /\ cwd' = [cwd EXCEPT ![p] = 0]
      /\ pc' = [pc EXCEPT ![p] = "gone"]
      /\ UNCHANGED <<menu, inum, refs, owner, valid, din, dino, ents, call, path, cur, ino, old,
                     fresh, inop, asserted>>
  BY DEF CloseFiles, cache, disk, Goto
<1>3. cur[p] = 0 /\ ino[p] = 0 /\ old[p] = 0  BY <1>1 DEF PlaceOK, InLink
<1>4. BeginOp \in Item /\ EndOp \in Item /\ Ref(c) \in Item /\ Ref(w) \in Item  BY <1>1, ItemsAre
<1>5. /\ s \in Seq(Item) /\ Len(s) <= 6 /\ Backed(s, {cur'[p], old'[p], cwd'[p], file'[p]})
      /\ Head(s) = BeginOp
      /\ \A i \in Slots : InQueue(s, i, Refers) = Bit(w = i) + Bit(c = i)
                          /\ InQueue(s, i, Claims) = 0
  <2>1. CASE w = 0
    <3> DEFINE t == <<BeginOp, Ref(c), EndOp>>
    <3>1. <<>> \o t = t  BY <1>4, Concats
    <3>2. s = t  BY <2>1, <3>1
    <3>3. t \in Seq(Item) /\ Len(t) <= 6 /\ Backed(t, {cur'[p], old'[p], cwd'[p], file'[p]})
      BY <1>1, QueueBRE
    <3>4. \A i \in Slots : InQueue(t, i, Refers) = Bit(c = i) /\ InQueue(t, i, Claims) = 0
      BY <1>1, QueueBRE
    <3>5. Head(t) = BeginOp  OBVIOUS
    <3> HIDE DEF s, t
    <3>6. \A i \in Slots : Bit(c = i) = Bit(w = i) + Bit(c = i)
      BY <2>1, InodesAssumption DEF Bit, Slots
    <3>7. \A i \in Slots : InQueue(t, i, Refers) = Bit(w = i) + Bit(c = i)
                           /\ InQueue(t, i, Claims) = 0
      BY <3>4, <3>6, Zenon
    <3> QED  BY <3>2, <3>3, <3>5, <3>7
  <2>2. CASE w # 0
    <3> DEFINE t == <<BeginOp, Ref(w), EndOp, BeginOp, Ref(c), EndOp>>
    <3>1. <<BeginOp, Ref(w), EndOp>> \o <<BeginOp, Ref(c), EndOp>> = t  BY <1>4, Concat33
    <3>2. s = t  BY <2>2, <3>1
    <3>3. t \in Seq(Item) /\ Len(t) <= 6 /\ Backed(t, {cur'[p], old'[p], cwd'[p], file'[p]})
      BY <1>1, QueueBREBRE
    <3>4. \A i \in Slots : InQueue(t, i, Refers) = Bit(w = i) + Bit(c = i)
                           /\ InQueue(t, i, Claims) = 0
      BY <1>1, QueueBREBRE
    <3>5. Head(t) = BeginOp  OBVIOUS
    <3> HIDE DEF s, t
    <3> QED  BY <3>2, <3>3, <3>4, <3>5
  <2> QED  BY <2>1, <2>2
<1>6. Queue(p, s)  BY DEF CloseFiles
<1> HIDE DEF s
<1>7. Dropping(p, s)
  <2>1. Head(s).k # "guard"  BY <1>5 DEF BeginOp
  <2> QED  BY <1>2, <1>6, <2>1, QueueDrops
<1>8. /\ file' \in [Procs -> 0 .. NINODE] /\ file'[p] = 0
      /\ cwd' \in [Procs -> 0 .. NINODE] /\ cwd'[p] = 0
      /\ \A q \in Procs : q # p => file'[q] = file[q] /\ cwd'[q] = cwd[q]
  <2>1. file \in [Procs -> 0 .. NINODE] /\ cwd \in [Procs -> 0 .. NINODE] /\ 0 \in 0 .. NINODE
    BY <1>1, InodesAssumption DEF TypeOK
  <2>2. /\ file' \in [Procs -> 0 .. NINODE] /\ file'[p] = 0
        /\ \A q \in Procs : q # p => file'[q] = file[q]
    BY <1>2, <2>1, OneFile
  <2>3. /\ cwd' \in [Procs -> 0 .. NINODE] /\ cwd'[p] = 0
        /\ \A q \in Procs : q # p => cwd'[q] = cwd[q]
    BY <1>2, <2>1, OneFile
  <2> QED  BY <2>2, <2>3
<1>9. pc' \in [Procs -> PCs] /\ pc'[p] = "gone" /\ \A q \in Procs : q # p => pc'[q] = pc[q]
  BY <1>1, <1>2 DEF TypeOK, PCs
<1>10. /\ \A q \in Procs : q # p => drops'[q] = drops[q]
       /\ drops' \in [Procs -> Seq(Item)] /\ Len(drops'[p]) <= 6
  <2>1. Len(s) <= 8  BY <1>5
  <2>2. \A q \in Procs : q # p => drops'[q] = drops[q]  BY <1>1, <1>5, <1>7, <2>1, DropOthers
  <2>3. drops' \in [Procs -> Seq(Item)] /\ drops'[p] = After(s)  BY <1>1, <1>5, <1>7, <2>1, DroppingIs
  <2>4. Len(After(s)) <= Len(s) /\ After(s) \in Seq(Item)  BY <1>5, <2>1, AfterCount
  <2> QED  BY <1>5, <2>2, <2>3, <2>4
<1>11. OthersSame(p)  BY <1>2, <1>8, <1>9, <1>10 DEF OthersSame
<1>12. TypeOK'  BY <1>1, <1>2, <1>8, <1>9, <1>10 DEF TypeOK
<1>13. PlaceOK(p)'  BY <1>2, <1>3, <1>8, <1>9, <1>10 DEF PlaceOK, InLink, Naming1
<1>14. OnRefs(p, s)
  <2>1. ASSUME NEW i \in Slots
        PROVE  refs'[i] = refs[i] + (InVars(0, 0, 0, 0, 0, i) + InQueue(s, i, Refers))
                          - InVars(0, 0, 0, c, w, i)
    <3>1. InQueue(s, i, Refers) = Bit(w = i) + Bit(c = i)  BY <1>5
    <3>2. refs[i] \in Int /\ refs'[i] = refs[i]
      <4>1. refs \in [Slots -> Int]  BY <1>1 DEF TypeOK
      <4> QED  BY <1>2, <4>1
    <3>3. i # 0  BY InodesAssumption DEF Slots
    <3> QED  BY <3>1, <3>2, <3>3 DEF InVars, Bit
  <2>2. \A i \in Slots : /\ VarHandles(p, i)' = InVars(0, 0, 0, 0, 0, i)
                         /\ VarHandles(p, i) = InVars(0, 0, 0, c, w, i)
    BY <1>2, <1>3, <1>8 DEF VarHandles
  <2> QED  BY <2>1, <2>2 DEF OnRefs
<1>15. OnLocks(p, s)
  <2>1. ASSUME NEW i \in Slots PROVE PlaceLocks(p, i)' + InQueue(s, i, Claims) = PlaceLocks(p, i)
    <3>1. PlaceLocks(p, i)' = 0
      BY <1>9 DEF PlaceLocks, AtPlace, Bit, CurLocked, InoLocked, OldLocked
    <3>2. PlaceLocks(p, i) = 0
      BY <1>1 DEF PlaceLocks, AtPlace, Bit, CurLocked, InoLocked, OldLocked
    <3>3. InQueue(s, i, Claims) = 0  BY <1>5
    <3> QED  BY <3>1, <3>2, <3>3
  <2> QED  BY <2>1 DEF OnLocks
<1> QED  BY <1>1, <1>5, <1>7, <1>11, <1>12, <1>13, <1>14, <1>15, OnGood

-----------------------------------------------------------------------------
(***************************************************************************)
(* Slots.                                                                  *)
(***************************************************************************)

SlotsGood == SlotInv' /\ OneSlot'

(* No slot comes into use or changes its inode. *)
SlotsShrink == /\ \A i \in Slots : refs'[i] > 0 => refs[i] > 0 /\ inum'[i] = inum[i]
               /\ \A i \in Slots : owner'[i] # None => valid'[i] # 0

(* Locks are given up, if anything happens to them. *)
Releases == \A i \in Slots : owner'[i] \in {owner[i], None}

(* What the step does not use more of stays in order. *)
LEMMA ShrinkGood == ASSUME CountInv, SlotsShrink PROVE SlotsGood
<1>1. SlotInv /\ OneSlot  BY DEF CountInv
<1>2. SlotInv'  BY <1>1 DEF SlotInv, SlotsShrink
<1>3. OneSlot'
  <2>1. SUFFICES ASSUME NEW i \in Slots, NEW j \in Slots,
                        refs'[i] > 0, refs'[j] > 0, inum'[i] = inum'[j]
                 PROVE  i = j
    BY DEF OneSlot
  <2>2. refs[i] > 0 /\ refs[j] > 0 /\ inum[i] = inum[j]  BY <2>1 DEF SlotsShrink
  <2> QED  BY <1>1, <2>2 DEF OneSlot
<1> QED  BY <1>2, <1>3 DEF SlotsGood

(* A step that leaves the slots alone but may unlock. *)
LEMMA QuietGood == ASSUME CountInv, UNCHANGED <<inum, refs, valid>>, Releases PROVE SlotsGood
<1>1. SlotInv  BY DEF CountInv
<1>2. ASSUME NEW i \in Slots, owner'[i] # None PROVE valid'[i] # 0
  <2>1. owner[i] # None  BY <1>2 DEF Releases
  <2> QED  BY <1>1, <2>1 DEF SlotInv
<1>3. SlotsShrink  BY <1>2 DEF SlotsShrink
<1> QED  BY <1>3, ShrinkGood

(* get takes a slot of the inode, or one that nobody uses. *)
LEMMA GetGood ==
  ASSUME CountInv, NEW n \in 0 .. NINUM, n # 0, Get(n), valid' = valid, Releases
  PROVE  SlotsGood
<1> DEFINE g == GetSlot(n)
<1>1. TypeOK /\ SlotInv /\ OneSlot  BY DEF CountInv
<1>2. /\ g \in Slots /\ inum'[g] = n /\ refs'[g] = refs[g] + 1
      /\ \A i \in Slots : i # g => inum'[i] = inum[i] /\ refs'[i] = refs[i]
      /\ \/ refs[g] > 0 /\ inum[g] = n
         \/ \A i \in Slots : refs[i] > 0 => inum[i] # n
  BY <1>1, GetIs
<1> HIDE DEF g
<1>3. SlotInv'
  <2>1. ASSUME NEW i \in Slots, refs'[i] > 0 PROVE inum'[i] # 0
    BY <1>1, <1>2, <2>1 DEF SlotInv
  <2>2. ASSUME NEW i \in Slots, owner'[i] # None PROVE valid'[i] # 0
    <3>1. owner[i] # None  BY <2>2 DEF Releases
    <3> QED  BY <1>1, <3>1 DEF SlotInv
  <2> QED  BY <2>1, <2>2 DEF SlotInv
<1>4. OneSlot'
  <2>1. SUFFICES ASSUME NEW i \in Slots, NEW j \in Slots,
                        refs'[i] > 0, refs'[j] > 0, inum'[i] = inum'[j]
                 PROVE  i = j
    BY DEF OneSlot
  <2>2. CASE refs[g] > 0 /\ inum[g] = n
    <3>1. refs[i] > 0 /\ refs[j] > 0 /\ inum[i] = inum[j]  BY <1>2, <2>1, <2>2
    <3> QED  BY <1>1, <3>1 DEF OneSlot
  <2>3. CASE \A k \in Slots : refs[k] > 0 => inum[k] # n
    <3>1. CASE i # g /\ j # g
      <4>1. refs[i] > 0 /\ refs[j] > 0 /\ inum[i] = inum[j]  BY <1>2, <2>1, <3>1
      <4> QED  BY <1>1, <4>1 DEF OneSlot
    <3>2. CASE i = g /\ j # g
      <4>1. refs[j] > 0 /\ inum[j] = n  BY <1>2, <2>1, <3>2
      <4> QED  BY <2>3, <4>1
    <3>3. CASE i # g /\ j = g
      <4>1. refs[i] > 0 /\ inum[i] = n  BY <1>2, <2>1, <3>3
      <4> QED  BY <2>3, <4>1
    <3> QED  BY <3>1, <3>2, <3>3
  <2> QED  BY <1>2, <2>2, <2>3
<1> QED  BY <1>3, <1>4 DEF SlotsGood

(* Dropping and a return unlock at most. *)
LEMMA DropReleases == ASSUME CountInv, NEW p, NEW s, Dropping(p, s) PROVE Releases
<1>1. owner \in [Slots -> Procs \cup {None}]  BY DEF CountInv, TypeOK
<1>2. CASE owner' = [owner EXCEPT ![Head(s).i] = None]  BY <1>1, <1>2 DEF Releases
<1>3. CASE owner' = owner  BY <1>3 DEF Releases
<1> QED  BY <1>2, <1>3 DEF Dropping

(* So does a step that leaves the locks alone. *)
LEMMA SameReleases == ASSUME owner' = owner PROVE Releases
BY DEF Releases

(* The same for the end of namex. *)
LEMMA NotFoundReleases == ASSUME CountInv, NEW p, NEW s, NotFound(p, s) PROVE Releases
<1>1. CASE Return(p, s \o <<EndOp>>)
  <2>1. Dropping(p, s \o <<EndOp>>)  BY <1>1 DEF Return
  <2> QED  BY <2>1, DropReleases
<1>2. CASE Dropping(p, s)  BY <1>2, DropReleases
<1> QED  BY <1>1, <1>2 DEF NotFound

(* A step of p leaves the slots in order: the steps without get or put. *)
LEMMA PlainSlots ==
  ASSUME CountInv, NEW p \in Procs,
         \/ \E c \in menu : Enter(p, c)
         \/ SysClose(p) \/ CloseFiles(p) \/ DropGuard(p) \/ DropOp(p) \/ NamexEnd(p)
         \/ InodeAlloc(p) \/ CreateFill(p) \/ SysMkdir(p) \/ SysMknod(p) \/ Opened(p)
         \/ SysChdir(p) \/ DirUnlink(p) \/ LinkOld(p) \/ RevertLink(p)
  PROVE  SlotsGood
<1>1. SUFFICES UNCHANGED <<inum, refs, valid>> /\ Releases  BY QuietGood
<1>2. CASE \E c \in menu : Enter(p, c)  BY <1>2, SameReleases DEF Enter, cache
<1>3. CASE SysClose(p)  BY <1>3, SameReleases DEF SysClose, cache
<1>4. CASE CloseFiles(p)  BY <1>4, SameReleases DEF CloseFiles, cache
<1>5. CASE DropGuard(p)
  <2>1. owner \in [Slots -> Procs \cup {None}]  BY DEF CountInv, TypeOK
  <2> QED  BY <1>5, <2>1 DEF DropGuard, Releases
<1>6. CASE DropOp(p)  BY <1>6, SameReleases DEF DropOp, cache
<1>7. CASE NamexEnd(p)
  <2>1. Releases  BY <1>7, SameReleases, NotFoundReleases DEF NamexEnd
  <2> QED  BY <1>7, <2>1 DEF NamexEnd
<1>8. CASE InodeAlloc(p)  BY <1>8, SameReleases DEF InodeAlloc, cache
<1>9. CASE CreateFill(p)
  <2>1. Releases  BY <1>9, DropReleases DEF CreateFill
  <2> QED  BY <1>9, <2>1 DEF CreateFill
<1>10. CASE SysMkdir(p) \/ SysMknod(p)
  <2>1. Releases  BY <1>10, DropReleases DEF SysMkdir, SysMknod, Made, Return
  <2> QED  BY <1>10, <2>1 DEF SysMkdir, SysMknod, Made
<1>11. CASE Opened(p)
  <2>1. Releases  BY <1>11, DropReleases DEF Opened, Return
  <2> QED  BY <1>11, <2>1 DEF Opened
<1>12. CASE SysChdir(p)
  <2>1. Releases  BY <1>12, DropReleases DEF SysChdir, Return
  <2> QED  BY <1>12, <2>1 DEF SysChdir
<1>13. CASE DirUnlink(p)
  <2>1. Releases  BY <1>13, DropReleases DEF DirUnlink, SysUnlink, Return
  <2> QED  BY <1>13, <2>1 DEF DirUnlink
<1>14. CASE LinkOld(p)
  <2>1. Releases  BY <1>14, DropReleases DEF LinkOld, Return
  <2> QED  BY <1>14, <2>1 DEF LinkOld
<1>15. CASE RevertLink(p)
  <2>1. Releases  BY <1>15, DropReleases DEF RevertLink, Return
  <2> QED  BY <1>15, <2>1 DEF RevertLink
<1> QED  BY <1>2, <1>3, <1>4, <1>5, <1>6, <1>7, <1>8, <1>9, <1>10, <1>11, <1>12, <1>13, <1>14, <1>15

(* Steps that get a handle to an inode found in a directory. *)
LEMMA LookupSlots ==
  ASSUME CountInv, NEW p \in Procs,
         NamexLook(p) \/ CreateLook(p) \/ DirUnlinkLook(p) \/ LinkNew(p)
  PROVE  SlotsGood
<1>1. PICK nm : LET n == DirLookup(valid[cur[p]], nm) IN
          \/ UNCHANGED <<inum, refs>>
          \/ n # 0 /\ Get(n)
  BY DEF NamexLook, CreateLook, DirUnlinkLook, LinkNew
<1> DEFINE n == DirLookup(valid[cur[p]], nm)
<1>2. valid' = valid  BY DEF NamexLook, CreateLook, DirUnlinkLook, LinkNew
<1>3. Releases
  <2>1. CASE NamexLook(p)
    BY <2>1, DropReleases, NotFoundReleases DEF NamexLook
  <2>2. CASE CreateLook(p)
    BY <2>2, DropReleases, SameReleases DEF CreateLook, Return
  <2>3. CASE DirUnlinkLook(p)
    BY <2>3, DropReleases, SameReleases DEF DirUnlinkLook, SysUnlink, Return
  <2>4. CASE LinkNew(p)
    BY <2>4, DropReleases DEF LinkNew, Return
  <2> QED  BY <2>1, <2>2, <2>3, <2>4
<1>4. PICK at \in {"look", "create", "unlink", "linking"} : Running(p, at)
  BY DEF NamexLook, CreateLook, DirUnlinkLook, LinkNew
<1>5. /\ TypeOK /\ PlaceOK(p) /\ pc[p] = at /\ drops[p] = <<>> /\ cur[p] \in 0 .. NINODE
  <2>1. at # "gone"  BY <1>4
  <2> QED  BY <1>4, <2>1, RunningIs
<1>6. pc[p] \in CurLocked /\ cur[p] # 0  BY <1>4, <1>5 DEF PlaceOK, CurLocked
<1>7. cur[p] \in Slots  BY <1>5, <1>6, InodesAssumption DEF Slots
<1>8. valid[cur[p]] \in Inums  BY <1>5, <1>6, <1>7, LockedValid
<1>9. n \in 0 .. NINUM  BY <1>5, <1>8, LookupIs
<1> HIDE DEF n
<1>10. UNCHANGED <<inum, refs>> \/ (n # 0 /\ Get(n))  BY <1>1 DEF n
<1> QED  BY <1>2, <1>3, <1>9, <1>10, QuietGood, GetGood

(* Steps that get a new inode or the root. *)
LEMMA StartSlots ==
  ASSUME CountInv, NEW p \in Procs, NamexStart(p) \/ CreateGet(p) PROVE SlotsGood
<1>1. valid' = valid /\ owner' = owner  BY DEF NamexStart, CreateGet
<1>2. Releases  BY <1>1, SameReleases
<1>3. CASE CreateGet(p)
  <2>1. TypeOK /\ PlaceOK(p) /\ pc[p] = "get"  BY <1>3, RunningIs DEF CreateGet
  <2>2. fresh[p] # 0 /\ fresh[p] \in 0 .. NINUM  BY <2>1 DEF PlaceOK, TypeOK
  <2> QED  BY <1>1, <1>2, <1>3, <2>2, GetGood DEF CreateGet
<1>4. CASE NamexStart(p) /\ Get(ROOTINUM)
  <2>1. ROOTINUM \in 0 .. NINUM /\ ROOTINUM # 0  BY InodesAssumption DEF ROOTINUM
  <2> QED  BY <1>1, <1>2, <1>4, <2>1, GetGood
<1>5. CASE NamexStart(p) /\ Dup(cwd[p])
  <2>1. TypeOK /\ cwd[p] \in 0 .. NINODE /\ cwd[p] # 0 /\ refs \in [Slots -> Int]
    BY <1>5, RunningIs DEF NamexStart
  <2>2. cwd[p] \in Slots  BY <2>1, InodesAssumption DEF Slots
  <2>3. refs[cwd[p]] > 0  BY <2>2, HandleCounts
  <2>4. inum' = inum /\ refs' = [refs EXCEPT ![cwd[p]] = refs[cwd[p]] + 1]  BY <1>5 DEF Dup
  <2>5. \A i \in Slots : refs'[i] > 0 => refs[i] > 0  BY <2>1, <2>2, <2>3, <2>4
  <2>6. \A i \in Slots : owner'[i] # None => valid'[i] # 0  BY <1>1 DEF CountInv, SlotInv
  <2>7. SlotsShrink  BY <2>4, <2>5, <2>6 DEF SlotsShrink
  <2> QED  BY <2>7, ShrinkGood
<1>6. NamexStart(p) => Get(ROOTINUM) \/ Dup(cwd[p])  BY DEF NamexStart
<1> QED  BY <1>3, <1>4, <1>5, <1>6

(* The lock of a slot is taken. *)
LEMMA LockSlots == ASSUME CountInv, NEW p \in Procs, Lock(p) PROVE SlotsGood
<1> DEFINE k == LockTarget(p)
<1>1. k \in Slots /\ k \in {cur[p], ino[p], old[p]}  BY LockAt
<1>2. /\ UNCHANGED <<inum, refs>> /\ owner' = [owner EXCEPT ![k] = p]
      /\ \/ valid[k] # 0 /\ valid' = valid
         \/ valid' = [valid EXCEPT ![k] = inum[k]]
  BY DEF Lock
<1> HIDE DEF k
<1>3. inum[k] # 0  BY <1>1, HandleCounts
<1>4. owner \in [Slots -> Procs \cup {None}] /\ valid \in [Slots -> 0 .. NINUM]
  BY DEF CountInv, TypeOK
<1>5. ASSUME NEW i \in Slots, owner'[i] # None PROVE valid'[i] # 0
  <2>1. CASE i = k  BY <1>2, <1>3, <1>4, <2>1
  <2>2. CASE i # k
    <3>1. owner'[i] = owner[i] /\ valid'[i] = valid[i]  BY <1>2, <1>4, <2>2
    <3> QED  BY <1>5, <3>1 DEF CountInv, SlotInv
  <2> QED  BY <2>1, <2>2
<1>6. SlotsShrink  BY <1>2, <1>5 DEF SlotsShrink
<1> QED  BY <1>6, ShrinkGood

(* The steps of put. *)
LEMMA PutSlots ==
  ASSUME CountInv, NEW p \in Procs, Put(p) \/ PutTruncate(p) \/ PutDeref(p) PROVE SlotsGood
<1> DEFINE k == Head(drops[p]).i
<1>1. /\ inum \in [Slots -> 0 .. NINUM] /\ refs \in [Slots -> Int] /\ valid \in [Slots -> 0 .. NINUM]
      /\ owner \in [Slots -> Procs \cup {None}]
  BY DEF CountInv, TypeOK
<1>2. \A i \in Slots : owner[i] # None => valid[i] # 0  BY DEF CountInv, SlotInv
<1>3. ASSUME NEW r \in Int, refs' = [refs EXCEPT ![k] = r], r <= refs[k] \/ r = 0,
             inum' = [inum EXCEPT ![k] = IF refs'[k] = 0 THEN 0 ELSE @]
      PROVE  \A i \in Slots : refs'[i] > 0 => refs[i] > 0 /\ inum'[i] = inum[i]
  <2> HIDE DEF k
  <2>1. ASSUME NEW i \in Slots, refs'[i] > 0 PROVE refs[i] > 0 /\ inum'[i] = inum[i]
    <3>1. CASE i = k
      <4>1. refs'[k] = r /\ k \in Slots  BY <1>1, <1>3, <3>1
      <4>2. r > 0 /\ r # 0  BY <2>1, <3>1, <4>1
      <4>3. refs[k] \in Int  BY <1>1, <4>1
      <4>4. refs[k] > 0  BY <1>3, <4>2, <4>3
      <4>5. inum'[k] = inum[k]  BY <1>1, <1>3, <4>1, <4>2
      <4> QED  BY <3>1, <4>4, <4>5
    <3>2. CASE i # k
      <4>1. refs'[i] = refs[i] /\ inum'[i] = inum[i]  BY <1>1, <1>3, <3>2
      <4> QED  BY <2>1, <4>1
    <3> QED  BY <3>1, <3>2
  <2> QED  BY <2>1
<1>4. CASE Put(p)
  <2>1. Drops(p, "ref") /\ inum' = [inum EXCEPT ![k] = IF refs'[k] = 0 THEN 0 ELSE @]
    BY <1>4 DEF Put
  <2>2. CASE refs[k] > 1 /\ refs' = [refs EXCEPT ![k] = @ - 1] /\ UNCHANGED <<owner, valid>>
    <3>1. \A i \in Slots : refs'[i] > 0 => refs[i] > 0 /\ inum'[i] = inum[i]
      <4> HIDE DEF k
      <4>1. CASE k \in Slots
        <5>1. refs[k] - 1 \in Int /\ refs[k] - 1 <= refs[k]  BY <1>1, <4>1
        <5> QED  BY <1>3, <2>1, <2>2, <5>1
      <4>2. CASE k \notin Slots  BY <1>1, <2>1, <2>2, <4>2
      <4> QED  BY <4>1, <4>2
    <3>2. SlotsShrink  BY <1>2, <2>2, <3>1 DEF SlotsShrink
    <3> QED  BY <3>2, ShrinkGood
  <2>3. CASE /\ owner[k] = None /\ valid' = [valid EXCEPT ![k] = 0]
             /\ refs' = [refs EXCEPT ![k] = 0] /\ owner' = owner
    <3>1. \A i \in Slots : refs'[i] > 0 => refs[i] > 0 /\ inum'[i] = inum[i]  BY <1>3, <2>1, <2>3
    <3> HIDE DEF k
    <3>2. \A i \in Slots : owner'[i] # None => valid'[i] # 0  BY <1>1, <1>2, <2>3
    <3>3. SlotsShrink  BY <3>1, <3>2 DEF SlotsShrink
    <3> QED  BY <3>3, ShrinkGood
  <2>4. CASE /\ refs[k] = 1 /\ valid[k] # 0 /\ owner' = [owner EXCEPT ![k] = p]
             /\ UNCHANGED <<refs, valid>>
    <3> HIDE DEF k
    <3>1. inum' = inum  BY <1>1, <2>1, <2>4
    <3>2. \A i \in Slots : owner'[i] # None => valid'[i] # 0  BY <1>1, <1>2, <2>4
    <3>3. SlotsShrink  BY <2>4, <3>1, <3>2 DEF SlotsShrink
    <3> QED  BY <3>3, ShrinkGood
  <2> QED  BY <1>4, <2>2, <2>3, <2>4 DEF Put
<1>5. CASE PutTruncate(p)
  <2> DEFINE s == <<Guard(k), Deref(k)>> \o Tail(drops[p])
  <2>1. Drops(p, "trunc") /\ Dropping(p, s) /\ valid' = [valid EXCEPT ![k] = 0]
        /\ UNCHANGED <<inum, refs>>
    BY <1>5 DEF PutTruncate
  <2>2. Tail(drops[p]) \in Seq(Item) /\ k \in 0 .. NINODE  BY <2>1, HeadIs
  <2>3. Guard(k) \in Item /\ Deref(k) \in Item  BY <2>2, ItemsAre
  <2>4. s # <<>> /\ Head(s) = Guard(k)  BY <2>2, <2>3, TruncQueue
  <2> HIDE DEF s, k
  <2>5. owner' = [owner EXCEPT ![k] = None]  BY <2>1, <2>4 DEF Dropping, Guard
  <2>6. \A i \in Slots : owner'[i] # None => valid'[i] # 0  BY <1>1, <1>2, <2>1, <2>5
  <2>7. SlotsShrink  BY <2>1, <2>6 DEF SlotsShrink
  <2> QED  BY <2>7, ShrinkGood
<1>6. CASE PutDeref(p)
  <2>1. /\ refs' = [refs EXCEPT ![k] = @ - 1]
        /\ inum' = [inum EXCEPT ![k] = IF refs'[k] = 0 THEN 0 ELSE @]
        /\ UNCHANGED <<owner, valid>>
    BY <1>6 DEF PutDeref
  <2>2. \A i \in Slots : refs'[i] > 0 => refs[i] > 0 /\ inum'[i] = inum[i]
    <3> HIDE DEF k
    <3>1. CASE k \in Slots
      <4>1. refs[k] - 1 \in Int /\ refs[k] - 1 <= refs[k]  BY <1>1, <3>1
      <4> QED  BY <1>3, <2>1, <4>1
    <3>2. CASE k \notin Slots  BY <1>1, <2>1, <3>2
    <3> QED  BY <3>1, <3>2
  <2>3. SlotsShrink  BY <1>2, <2>1, <2>2 DEF SlotsShrink
  <2> QED  BY <2>3, ShrinkGood
<1> QED  BY <1>4, <1>5, <1>6

-----------------------------------------------------------------------------
(***************************************************************************)
(* The invariant.                                                          *)
(***************************************************************************)

(* Every step is good for the process that makes it. *)
LEMMA StepGood == ASSUME CountInv, NEW p \in Procs, Step(p) PROVE Good(p)
BY EnterGood, SysCloseGood, CloseFilesGood, PutGood, PutTruncateGood, PutDerefGood, DropGuardGood,
   DropOpGood, LockGood, NamexStartGood, NamexEndGood, NamexLookGood, CreateLookGood,
   InodeAllocGood, CreateGetGood, CreateFillGood, MadeGood, OpenedGood, SysChdirGood,
   DirUnlinkLookGood, DirUnlinkGood, LinkOldGood, LinkNewGood, RevertLinkGood
   DEF Step, SysMkdir, SysMknod

(* Every step leaves the slots in order. *)
LEMMA StepSlots == ASSUME CountInv, NEW p \in Procs, Step(p) PROVE SlotsGood
BY PlainSlots, LookupSlots, StartSlots, LockSlots, PutSlots DEF Step

(* The calls that processes make do not change. *)
LEMMA MenuSame == ASSUME NEW p \in Procs, Step(p) PROVE menu' = menu
<1>1. CASE \E c \in menu : Enter(p, c)  BY <1>1 DEF Enter
<1>2. CASE SysClose(p) \/ CloseFiles(p)  BY <1>2 DEF SysClose, CloseFiles
<1>3. CASE Put(p) \/ PutTruncate(p) \/ PutDeref(p) \/ DropGuard(p) \/ DropOp(p)
  BY <1>3 DEF Put, PutTruncate, PutDeref, DropGuard, DropOp
<1>4. CASE Lock(p) \/ NamexStart(p) \/ NamexEnd(p) \/ NamexLook(p)
  BY <1>4 DEF Lock, NamexStart, NamexEnd, NamexLook
<1>5. CASE CreateLook(p) \/ InodeAlloc(p) \/ CreateGet(p) \/ CreateFill(p)
  BY <1>5 DEF CreateLook, InodeAlloc, CreateGet, CreateFill
<1>6. CASE SysMkdir(p) \/ SysMknod(p) \/ Opened(p) \/ SysChdir(p)
  BY <1>6 DEF SysMkdir, SysMknod, Made, Opened, SysChdir
<1>7. CASE DirUnlinkLook(p) \/ DirUnlink(p) \/ LinkOld(p) \/ LinkNew(p) \/ RevertLink(p)
  BY <1>7 DEF DirUnlinkLook, DirUnlink, LinkOld, LinkNew, RevertLink
<1> QED  BY <1>1, <1>2, <1>3, <1>4, <1>5, <1>6, <1>7 DEF Step

(* A step of another process leaves the place of q. *)
LEMMA PlaceKeep ==
  ASSUME NEW p \in Procs, NEW q \in Procs, q # p, PlaceOK(q), OthersSame(p), menu' = menu
  PROVE  PlaceOK(q)'
BY DEF PlaceOK, OthersSame, IsParent

(* Nothing changes. *)
LEMMA CountStutter == ASSUME CountInv, UNCHANGED vars PROVE CountInv'
<1>1. UNCHANGED <<menu, inum, refs, owner, valid, din, dino, ents, pc, call, path, cur, ino, old,
                  fresh, cwd, file, drops, inop, asserted, panicked>>
  BY DEF vars, cache, disk, prog
<1>2. TypeOK'  BY <1>1 DEF CountInv, TypeOK
<1>3. PlaceInv'  BY <1>1 DEF CountInv, PlaceInv, PlaceOK, IsParent
<1>4. RefsCounted'  BY <1>1 DEF CountInv, RefsCounted, Held, Dropped, Queued
<1>5. LockInv'  BY <1>1 DEF CountInv, LockInv, Locks, PlaceLocks
<1>6. BackedInv'  BY <1>1 DEF CountInv, BackedInv
<1>7. SlotInv' /\ OneSlot'  BY <1>1 DEF CountInv, SlotInv, OneSlot
<1> QED  BY <1>2, <1>3, <1>4, <1>5, <1>6, <1>7 DEF CountInv

(* CountInv is inductive. *)
LEMMA CountNext == ASSUME CountInv, [Next]_vars PROVE CountInv'
<1>1. CASE UNCHANGED vars  BY <1>1, CountStutter
<1>2. ASSUME NEW p \in Procs, Step(p) PROVE CountInv'
  <2>1. Good(p) /\ SlotsGood /\ menu' = menu  BY <1>2, StepGood, StepSlots, MenuSame
  <2>2. TypeOK' /\ OthersSame(p) /\ PlaceOK(p)' /\ RefsFollow(p) /\ LockInv' /\ BackedInv'
    BY <2>1 DEF Good, Kept
  <2>3. SlotInv' /\ OneSlot'  BY <2>1 DEF SlotsGood
  <2>4. TypeOK /\ PlaceInv /\ RefsCounted  BY DEF CountInv
  <2>5. RefsCounted'  BY <2>2, <2>4, RefsStep
  <2>6. PlaceInv'
    <3>1. ASSUME NEW q \in Procs PROVE PlaceOK(q)'
      <4>1. CASE q = p  BY <2>2, <4>1
      <4>2. CASE q # p
        <5>1. PlaceOK(q)  BY <2>4 DEF PlaceInv
        <5> QED  BY <2>1, <2>2, <4>2, <5>1, PlaceKeep
      <4> QED  BY <4>1, <4>2
    <3> QED  BY <3>1 DEF PlaceInv
  <2> QED  BY <2>2, <2>3, <2>5, <2>6 DEF CountInv
<1> QED  BY <1>1, <1>2 DEF Next

(* Slot 1 is all that is in use at the start: every process has its        *)
(* working directory there.                                                *)
LEMMA CountInit == ASSUME Init PROVE CountInv
<1>1. \A i \in Slots : i # 0  BY InodesAssumption DEF Slots
<1>2. TypeOK
  <2>1. menu \in Menus  BY DEF Init
  <2>2. dino \in [Inums -> Dinode] /\ ents \in [Inums -> Seq(DirEntry)]
    <3>1. PICK t \in Trees : dino = t.dino /\ ents = t.ents  BY DEF Init
    <3> QED  BY <3>1, TreesAssumption
  <2>3. ROOTINUM \in 0 .. NINUM /\ 0 \in 0 .. NINUM /\ 0 \in 0 .. NINODE /\ 1 \in 0 .. NINODE
    BY InodesAssumption DEF ROOTINUM
  <2>4. Cardinality(Procs) \in Int /\ 0 \in Int
    <3>1. Cardinality(Procs) \in Nat  BY InodesAssumption, FS_CardinalityType
    <3> QED  BY <3>1
  <2>5. inum \in [Slots -> 0 .. NINUM]  BY <2>3 DEF Init
  <2>6. refs \in [Slots -> Int]  BY <2>4 DEF Init
  <2>7. owner \in [Slots -> Procs \cup {None}]  BY DEF Init
  <2>8. valid \in [Slots -> 0 .. NINUM]  BY <2>3 DEF Init
  <2>9. din \in [Slots -> Dinode]  BY EmptyIs DEF Init
  <2>10. pc \in [Procs -> PCs] /\ DOMAIN call = Procs  BY DEF Init, PCs
  <2>11. path \in [Procs -> Seq(Names)]  BY DEF Init
  <2>12. cur \in [Procs -> 0 .. NINODE] /\ ino \in [Procs -> 0 .. NINODE]
         /\ old \in [Procs -> 0 .. NINODE] /\ file \in [Procs -> 0 .. NINODE]
    BY <2>3 DEF Init
  <2>13. cwd \in [Procs -> 0 .. NINODE]  BY <2>3 DEF Init
  <2>14. fresh \in [Procs -> 0 .. NINUM]  BY <2>3 DEF Init
  <2>15. drops \in [Procs -> Seq(Item)]  BY DEF Init
  <2>16. inop \in [Procs -> BOOLEAN] /\ asserted \in BOOLEAN  BY DEF Init
  <2> QED
    BY <2>1, <2>2, <2>5, <2>6, <2>7, <2>8, <2>9, <2>10, <2>11, <2>12, <2>13, <2>14, <2>15, <2>16
    DEF TypeOK
<1>3. \A p \in Procs : /\ pc[p] = "user" /\ cur[p] = 0 /\ ino[p] = 0 /\ old[p] = 0 /\ cwd[p] = 1
                       /\ file[p] = 0 /\ drops[p] = <<>>
  BY DEF Init
<1>4. PlaceInv
  <2>1. Len(<<>>) = 0  OBVIOUS
  <2> QED  BY <1>3, <2>1 DEF PlaceInv, PlaceOK, InLink, Naming1
<1>5. RefsCounted
  <2>1. ASSUME NEW i \in Slots PROVE refs[i] = Cardinality(Held(i)) + Cardinality(Dropped(i))
    <3>1. Dropped(i) = {}  BY <1>3 DEF Dropped, Queued
    <3>2. Held(i) = IF i = 1 THEN Procs \X {4} ELSE {}
      <4>1. ASSUME NEW q \in Procs, NEW k \in 1 .. 5
            PROVE  <<cur, ino, old, cwd, file>>[k][q] = i <=> k = 4 /\ i = 1
        <5>1. k = 1 \/ k = 2 \/ k = 3 \/ k = 4 \/ k = 5  OBVIOUS
        <5> QED  BY <1>1, <1>3, <5>1
      <4>2. ASSUME NEW h \in Procs \X (1 .. 5)
            PROVE  h \in Held(i) <=> h[2] = 4 /\ i = 1
        BY <4>1 DEF Held
      <4>3. Held(i) \subseteq Procs \X (1 .. 5)  BY DEF Held
      <4>4. CASE i = 1
        <5>1. ASSUME NEW h, h \in Held(i) PROVE h \in Procs \X {4}  BY <4>2, <4>3, <5>1
        <5>2. ASSUME NEW h \in Procs \X {4} PROVE h \in Held(i)  BY <4>2, <4>4
        <5> QED  BY <4>4, <5>1, <5>2
      <4>5. CASE i # 1  BY <4>2, <4>3, <4>5
      <4> QED  BY <4>4, <4>5
    <3>3. Cardinality({}) = 0  BY FS_EmptySet
    <3>4. Cardinality(Procs \X {4}) = Cardinality(Procs) /\ Cardinality(Procs) \in Nat
      <4>1. IsFiniteSet(Procs) /\ Cardinality(Procs) \in Nat  BY InodesAssumption, FS_CardinalityType
      <4>2. IsFiniteSet({4}) /\ Cardinality({4}) = 1  BY FS_Singleton
      <4>3. Cardinality(Procs \X {4}) = Cardinality(Procs) * Cardinality({4})
        BY <4>1, <4>2, FS_Product
      <4>4. Cardinality(Procs) * 1 = Cardinality(Procs)  BY <4>1
      <4> QED  BY <4>1, <4>2, <4>3, <4>4, Zenon
    <3>5. refs[i] = IF i = 1 THEN Cardinality(Procs) ELSE 0  BY DEF Init
    <3> QED  BY <3>1, <3>2, <3>3, <3>4, <3>5
  <2> QED  BY <2>1 DEF RefsCounted
<1>6. LockInv
  <2>1. ASSUME NEW p \in Procs, NEW i \in Slots PROVE Locks(p, i) = Bit(owner[i] = p)
    <3>1. Locks(p, i) = PlaceLocks(p, i)  BY <1>3, CalmCounts
    <3>2. PlaceLocks(p, i) = 0
      BY <1>3 DEF PlaceLocks, AtPlace, Bit, CurLocked, InoLocked, OldLocked
    <3>3. owner[i] # p  BY InodesAssumption DEF Init
    <3> QED  BY <3>1, <3>2, <3>3 DEF Bit
  <2> QED  BY <2>1 DEF LockInv
<1>7. BackedInv  BY <1>3 DEF BackedInv, Backed
<1>8. SlotInv
  <2>1. \A i \in Slots : refs[i] > 0 => inum[i] # 0  BY DEF Init, ROOTINUM
  <2>2. \A i \in Slots : owner[i] = None  BY DEF Init
  <2> QED  BY <2>1, <2>2 DEF SlotInv
<1>9. OneSlot
  <2>1. \A i \in Slots : refs[i] > 0 => i = 1  BY DEF Init
  <2> QED  BY <2>1 DEF OneSlot
<1> QED  BY <1>2, <1>4, <1>5, <1>6, <1>7, <1>8, <1>9 DEF CountInv

-----------------------------------------------------------------------------
(***************************************************************************)
(* Queues: what they name is a slot, and only their heads are halfway      *)
(* through put.                                                            *)
(***************************************************************************)

SoundItem(x) == x.k \in {"begin", "end"} \/ (x.k \in {"guard", "ref"} /\ x.i # 0)
AllSound(s) == \A n \in 1 .. Len(s) : SoundItem(s[n])
Sound(s) == \A n \in 1 .. Len(s) :
                SoundItem(s[n]) \/ (n = 1 /\ s[n].k \in {"trunc", "deref"} /\ s[n].i # 0)
QueueInv == \A p \in Procs : Sound(drops[p])

(* Short queues of sound items. *)
LEMMA SoundTuples ==
  ASSUME NEW a, NEW b, NEW c, NEW d, SoundItem(a), SoundItem(b), SoundItem(c), SoundItem(d)
  PROVE  /\ AllSound(<<>>) /\ AllSound(<<a>>) /\ AllSound(<<a, b>>) /\ AllSound(<<a, b, c>>)
         /\ AllSound(<<a, b, c, d>>)
<1>1. AllSound(<<>>)  BY DEF AllSound
<1>2. AllSound(<<a>>)
  <2>1. Len(<<a>>) = 1 /\ <<a>>[1] = a  OBVIOUS
  <2> QED  BY <2>1 DEF AllSound
<1>3. AllSound(<<a, b>>)
  <2>1. Len(<<a, b>>) = 2 /\ <<a, b>>[1] = a /\ <<a, b>>[2] = b  OBVIOUS
  <2> QED  BY <2>1 DEF AllSound
<1>4. AllSound(<<a, b, c>>)
  <2>1. Len(<<a, b, c>>) = 3 /\ <<a, b, c>>[1] = a /\ <<a, b, c>>[2] = b /\ <<a, b, c>>[3] = c
    OBVIOUS
  <2> QED  BY <2>1 DEF AllSound
<1>5. AllSound(<<a, b, c, d>>)
  <2>1. Len(<<a, b, c, d>>) = 4 /\ <<a, b, c, d>>[1] = a /\ <<a, b, c, d>>[2] = b
        /\ <<a, b, c, d>>[3] = c /\ <<a, b, c, d>>[4] = d
    OBVIOUS
  <2> QED  BY <2>1 DEF AllSound
<1> QED  BY <1>1, <1>2, <1>3, <1>4, <1>5

(* The items. *)
LEMMA SoundItems ==
  /\ SoundItem(BeginOp) /\ SoundItem(EndOp)
  /\ \A i : i # 0 => SoundItem(Guard(i)) /\ SoundItem(Ref(i))
BY DEF SoundItem, BeginOp, EndOp, Guard, Ref

(* Two sound queues, one after the other. *)
LEMMA SoundConcat ==
  ASSUME NEW s \in Seq(Item), NEW t \in Seq(Item), AllSound(s), AllSound(t)
  PROVE  AllSound(s \o t) /\ s \o t \in Seq(Item)
<1>1. /\ s \o t \in Seq(Item) /\ Len(s \o t) = Len(s) + Len(t)
      /\ \A n \in 1 .. Len(s) + Len(t) :
            (s \o t)[n] = IF n <= Len(s) THEN s[n] ELSE t[n - Len(s)]
  BY ConcatIs
<1>2. Len(s) \in Nat /\ Len(t) \in Nat  OBVIOUS
<1>3. ASSUME NEW n \in 1 .. Len(s) + Len(t) PROVE SoundItem((s \o t)[n])
  <2>1. CASE n <= Len(s)
    <3>1. n \in 1 .. Len(s)  BY <1>2, <2>1
    <3> QED  BY <1>1, <2>1, <3>1 DEF AllSound
  <2>2. CASE ~(n <= Len(s))
    <3>1. n - Len(s) \in 1 .. Len(t)  BY <1>2, <2>2
    <3> QED  BY <1>1, <2>2, <3>1 DEF AllSound
  <2> QED  BY <2>1, <2>2
<1> QED  BY <1>1, <1>3 DEF AllSound

(* What follows the head of a sound queue. *)
LEMMA SoundTail ==
  ASSUME NEW s \in Seq(Item), s # <<>>, Sound(s) \/ AllSound(s) PROVE AllSound(Tail(s))
<1>1. Len(Tail(s)) = Len(s) - 1 /\ Len(s) \in Nat /\ Len(s) # 0  OBVIOUS
<1>2. ASSUME NEW n \in 1 .. Len(Tail(s)) PROVE SoundItem(Tail(s)[n])
  <2>1. Tail(s)[n] = s[n + 1] /\ n + 1 \in 1 .. Len(s) /\ n + 1 # 1  BY <1>1
  <2> QED  BY <2>1 DEF Sound, AllSound
<1> QED  BY <1>2 DEF AllSound

(* A sound queue with a new head. *)
LEMMA SoundPush ==
  ASSUME NEW x \in Item, NEW t \in Seq(Item), AllSound(t), x.k \in {"trunc", "deref"}, x.i # 0
  PROVE  Sound(<<x>> \o t)
<1> DEFINE s == <<x>>
<1>1. s \in Seq(Item) /\ Len(s) = 1 /\ s[1] = x  OBVIOUS
<1> HIDE DEF s
<1>2. /\ Len(s \o t) = 1 + Len(t)
      /\ \A n \in 1 .. 1 + Len(t) : (s \o t)[n] = IF n <= 1 THEN s[n] ELSE t[n - 1]
  <2>1. s \in Seq(Item)  BY <1>1
  <2>2. /\ Len(s \o t) = Len(s) + Len(t)
        /\ \A n \in 1 .. Len(s) + Len(t) :
              (s \o t)[n] = IF n <= Len(s) THEN s[n] ELSE t[n - Len(s)]
    BY <2>1, ConcatIs
  <2>3. Len(s) = 1  BY <1>1
  <2> QED  BY <2>2, <2>3, Zenon
<1>3. Len(t) \in Nat  OBVIOUS
<1>4. ASSUME NEW n \in 1 .. Len(s \o t)
      PROVE  \/ SoundItem((s \o t)[n])
             \/ n = 1 /\ (s \o t)[n].k \in {"trunc", "deref"} /\ (s \o t)[n].i # 0
  <2>1. CASE n = 1
    <3>1. (s \o t)[n] = x  BY <1>1, <1>2, <1>3, <2>1
    <3> QED  BY <2>1, <3>1
  <2>2. CASE n # 1
    <3>1. (s \o t)[n] = t[n - 1] /\ n - 1 \in 1 .. Len(t)  BY <1>2, <1>3, <2>2
    <3> QED  BY <3>1 DEF AllSound
  <2> QED  BY <2>1, <2>2
<1>5. Sound(s \o t)  BY <1>4 DEF Sound
<1> QED  BY <1>5 DEF s

(* What Dropping leaves is sound. *)
LEMMA SoundDrop ==
  ASSUME TypeOK, NEW p \in Procs, NEW s \in Seq(Item), AllSound(s), Dropping(p, s)
  PROVE  AllSound(drops'[p])
<1>1. drops \in [Procs -> Seq(Item)]  BY DEF TypeOK
<1>2. CASE s # <<>> /\ Head(s).k = "guard"
  <2>1. drops'[p] = Tail(s)  BY <1>1, <1>2 DEF Dropping, Queue
  <2>2. AllSound(Tail(s))  BY <1>2, SoundTail
  <2> QED  BY <2>1, <2>2
<1>3. CASE ~(s # <<>> /\ Head(s).k = "guard")
  <2>1. drops'[p] = s  BY <1>1, <1>3 DEF Dropping, Queue
  <2> QED  BY <2>1
<1> QED  BY <1>2, <1>3

(* A step of p that leaves a sound queue, and one halfway through put. *)
SoundAfter(p) == AllSound(drops'[p])
HalfPut(p) == /\ Sound(drops'[p])
              /\ PutTruncate(p) \/ (Head(drops'[p]).k = "trunc" /\ Put(p))

(* The slots a running call has handles to. *)
LEMMA SlotsOf ==
  ASSUME CountInv, NEW p \in Procs, NEW at, at # "gone", Running(p, at)
  PROVE  /\ at \notin {"user", "start", "revert", "reverting"} => cur[p] # 0
         /\ at \in {"new", "fill", "child", "unlinked"} => ino[p] # 0
         /\ at \in {"linking", "revert", "reverting"} => old[p] # 0
         /\ cwd[p] # 0 /\ TypeOK /\ drops[p] = <<>>
         /\ cur[p] \in 0 .. NINODE /\ ino[p] \in 0 .. NINODE /\ old[p] \in 0 .. NINODE
         /\ cwd[p] \in 0 .. NINODE /\ file[p] \in 0 .. NINODE
<1>1. /\ TypeOK /\ PlaceOK(p) /\ pc[p] = at /\ drops[p] = <<>> /\ cwd[p] # 0
      /\ cur[p] \in 0 .. NINODE /\ ino[p] \in 0 .. NINODE /\ old[p] \in 0 .. NINODE
      /\ cwd[p] \in 0 .. NINODE /\ file[p] \in 0 .. NINODE
  BY RunningIs
<1> QED  BY <1>1 DEF PlaceOK

(* Steps that leave the queue alone. *)
LEMMA SameSound ==
  ASSUME NEW p \in Procs, drops[p] = <<>>, drops' = drops PROVE SoundAfter(p)
BY DEF AllSound, SoundAfter

(* Steps that take the head off. *)
LEMMA PopSound ==
  ASSUME CountInv, QueueInv, NEW p \in Procs, NEW k, Drops(p, k), Queue(p, Tail(drops[p]))
  PROVE  SoundAfter(p)
<1>1. drops[p] \in Seq(Item) /\ drops[p] # <<>>  BY HeadIs
<1>2. AllSound(Tail(drops[p]))  BY <1>1, SoundTail DEF QueueInv
<1>3. drops \in [Procs -> Seq(Item)]  BY DEF CountInv, TypeOK
<1>4. drops'[p] = Tail(drops[p])  BY <1>3 DEF Queue
<1> QED  BY <1>2, <1>4 DEF SoundAfter

(* The queues of one handle. *)
LEMMA CurSound ==
  ASSUME NEW c \in 0 .. NINODE, c # 0
  PROVE  /\ <<Ref(c)>> \in Seq(Item) /\ AllSound(<<Ref(c)>>)
         /\ <<Ref(c), EndOp>> \in Seq(Item) /\ AllSound(<<Ref(c), EndOp>>)
         /\ <<Guard(c)>> \in Seq(Item) /\ AllSound(<<Guard(c)>>)
         /\ <<Guard(c), EndOp>> \in Seq(Item) /\ AllSound(<<Guard(c), EndOp>>)
         /\ <<Guard(c), Ref(c)>> \in Seq(Item) /\ AllSound(<<Guard(c), Ref(c)>>)
         /\ <<Guard(c), Ref(c), EndOp>> \in Seq(Item) /\ AllSound(<<Guard(c), Ref(c), EndOp>>)
         /\ <<EndOp, Guard(c), Ref(c)>> \in Seq(Item) /\ AllSound(<<EndOp, Guard(c), Ref(c)>>)
         /\ <<BeginOp, Ref(c), EndOp>> \in Seq(Item) /\ AllSound(<<BeginOp, Ref(c), EndOp>>)
         /\ <<>> \in Seq(Item) /\ AllSound(<<>>)
         /\ <<EndOp>> \in Seq(Item) /\ AllSound(<<EndOp>>)
<1>1. Guard(c) \in Item /\ Ref(c) \in Item /\ EndOp \in Item /\ BeginOp \in Item  BY ItemsAre
<1>2. SoundItem(Guard(c)) /\ SoundItem(Ref(c)) /\ SoundItem(EndOp) /\ SoundItem(BeginOp)
  BY SoundItems
<1>3. /\ AllSound(<<Ref(c)>>) /\ AllSound(<<Ref(c), EndOp>>) /\ AllSound(<<Guard(c)>>)
      /\ AllSound(<<Guard(c), EndOp>>) /\ AllSound(<<Guard(c), Ref(c)>>)
  BY <1>2, SoundTuples, Zenon
<1>4. /\ AllSound(<<Guard(c), Ref(c), EndOp>>) /\ AllSound(<<EndOp, Guard(c), Ref(c)>>)
      /\ AllSound(<<BeginOp, Ref(c), EndOp>>) /\ AllSound(<<>>) /\ AllSound(<<EndOp>>)
  BY <1>2, SoundTuples, Zenon
<1> QED  BY <1>1, <1>3, <1>4

(* A return leaves a sound queue if what it drops is sound. *)
LEMMA ReturnSound ==
  ASSUME TypeOK, NEW p \in Procs, NEW s \in Seq(Item), AllSound(s), Return(p, s)
  PROVE  SoundAfter(p)
BY SoundDrop DEF Return, SoundAfter

(* So does the end of namex. *)
LEMMA NotFoundSound ==
  ASSUME TypeOK, NEW p \in Procs, NEW s \in Seq(Item), AllSound(s), NotFound(p, s)
  PROVE  SoundAfter(p)
<1>1. <<EndOp>> \in Seq(Item) /\ AllSound(<<EndOp>>)
  <2>1. 0 \in 0 .. NINODE  BY InodesAssumption
  <2>2. EndOp \in Item  BY <2>1 DEF EndOp, Item
  <2>3. SoundItem(EndOp)  BY SoundItems
  <2>4. AllSound(<<EndOp>>)  BY <2>3, SoundTuples
  <2> QED  BY <2>2, <2>4
<1>2. s \o <<EndOp>> \in Seq(Item) /\ AllSound(s \o <<EndOp>>)  BY <1>1, SoundConcat
<1>3. CASE Return(p, s \o <<EndOp>>)  BY <1>2, <1>3, ReturnSound
<1>4. CASE Dropping(p, s)  BY <1>4, SoundDrop DEF SoundAfter
<1> QED  BY <1>3, <1>4 DEF NotFound

(* Queues are sound after every step. *)
LEMMA StepSound ==
  ASSUME CountInv, QueueInv, NEW p \in Procs, Step(p) PROVE SoundAfter(p) \/ HalfPut(p)
<1> DEFINE c == cur[p]
           j == ino[p]
           w == old[p]
<1>1. CASE \/ \E x \in menu : Enter(p, x)
           \/ Lock(p) \/ NamexStart(p) \/ InodeAlloc(p) \/ CreateGet(p)
  <2>1. drops[p] = <<>> /\ drops' = drops
    BY <1>1 DEF Enter, Lock, Locking, NamexStart, InodeAlloc, CreateGet, Running
  <2> QED  BY <2>1, SameSound
<1>2. CASE DropGuard(p)  BY <1>2, PopSound DEF DropGuard
<1>3. CASE DropOp(p)  BY <1>3, PopSound DEF DropOp
<1>4. CASE PutDeref(p)  BY <1>4, PopSound DEF PutDeref
<1>5. CASE Put(p)
  <2> DEFINE k == Head(drops[p]).i
  <2>1. Drops(p, "ref")  BY <1>5 DEF Put
  <2>2. drops[p] \in Seq(Item) /\ drops[p] # <<>> /\ Head(drops[p]).k = "ref"
        /\ k \in 0 .. NINODE /\ Tail(drops[p]) \in Seq(Item)
    BY <2>1, HeadIs
  <2>3. CASE Queue(p, Tail(drops[p]))  BY <2>1, <2>3, PopSound
  <2>4. CASE Queue(p, <<Trunc(k)>> \o Tail(drops[p]))
    <3>1. AllSound(Tail(drops[p])) /\ Sound(drops[p])  BY <2>2, SoundTail DEF QueueInv
    <3>2. k # 0
      <4>1. 1 \in 1 .. Len(drops[p]) /\ Head(drops[p]) = drops[p][1]  BY <2>2
      <4> QED  BY <2>2, <3>1, <4>1 DEF Sound, SoundItem
    <3>3. Trunc(k) \in Item /\ Trunc(k).k = "trunc" /\ Trunc(k).i # 0
      <4>1. Trunc(k) \in Item  BY <2>2, ItemsAre
      <4> QED  BY <3>2, <4>1 DEF Trunc
    <3>4. Sound(<<Trunc(k)>> \o Tail(drops[p]))  BY <2>2, <3>1, <3>3, SoundPush
    <3>5. drops \in [Procs -> Seq(Item)]  BY DEF CountInv, TypeOK
    <3>6. drops'[p] = <<Trunc(k)>> \o Tail(drops[p])  BY <2>4, <3>5 DEF Queue
    <3>7. Head(drops'[p]).k = "trunc"
      <4>1. Head(<<Trunc(k)>> \o Tail(drops[p])) = Trunc(k)
        <5> DEFINE x == Trunc(k)
                   t == Tail(drops[p])
        <5>1. x \in Item /\ t \in Seq(Item)  BY <2>2, <3>3
        <5> HIDE DEF x, t
        <5>2. Head(<<x>> \o t) = x  BY <5>1
        <5> QED  BY <5>2 DEF x, t
      <4> QED  BY <3>3, <3>6, <4>1
    <3> QED  BY <1>5, <3>4, <3>6, <3>7 DEF HalfPut
  <2> QED  BY <1>5, <2>3, <2>4 DEF Put
<1>6. CASE PutTruncate(p)
  <2> DEFINE k == Head(drops[p]).i
             t == Tail(drops[p])
             s == <<Guard(k), Deref(k)>> \o t
  <2>1. Drops(p, "trunc") /\ Dropping(p, s)  BY <1>6 DEF PutTruncate
  <2>2. drops[p] \in Seq(Item) /\ drops[p] # <<>> /\ Head(drops[p]).k = "trunc"
        /\ k \in 0 .. NINODE /\ t \in Seq(Item)
    BY <2>1, HeadIs
  <2>3. AllSound(t) /\ Sound(drops[p])  BY <2>2, SoundTail DEF QueueInv
  <2>4. k # 0
    <3>1. 1 \in 1 .. Len(drops[p]) /\ Head(drops[p]) = drops[p][1]  BY <2>2
    <3> QED  BY <2>2, <2>3, <3>1 DEF Sound, SoundItem
  <2>5. Guard(k) \in Item /\ Deref(k) \in Item  BY <2>2, ItemsAre
  <2>6. Deref(k).k = "deref" /\ Deref(k).i # 0 /\ Guard(k).k = "guard"  BY <2>4 DEF Deref, Guard
  <2> HIDE DEF t, k
  <2>7. s # <<>> /\ Head(s) = Guard(k) /\ Tail(s) = <<Deref(k)>> \o t  BY <2>2, <2>5, TruncQueue
  <2>8. Sound(<<Deref(k)>> \o t)  BY <2>2, <2>3, <2>5, <2>6, SoundPush
  <2> HIDE DEF s
  <2>9. drops \in [Procs -> Seq(Item)]  BY DEF CountInv, TypeOK
  <2>10. drops'[p] = Tail(s)  BY <2>1, <2>6, <2>7, <2>9 DEF Dropping, Queue
  <2> QED  BY <1>6, <2>7, <2>8, <2>10 DEF HalfPut
<1>7. CASE SysClose(p)
  <2>1. TypeOK /\ file[p] \in 0 .. NINODE /\ file[p] # 0  BY <1>7, SlotsOf DEF SysClose
  <2>2. AllSound(<<BeginOp, Ref(file[p]), EndOp>>)  BY <2>1, CurSound
  <2>3. drops'[p] = <<BeginOp, Ref(file[p]), EndOp>>  BY <1>7, <2>1 DEF SysClose, Queue, TypeOK
  <2> QED  BY <2>2, <2>3 DEF SoundAfter
<1>8. CASE CloseFiles(p)
  <2> DEFINE a == IF file[p] = 0 THEN <<>> ELSE <<BeginOp, Ref(file[p]), EndOp>>
             b == <<BeginOp, Ref(cwd[p]), EndOp>>
  <2>1. TypeOK /\ file[p] \in 0 .. NINODE /\ cwd[p] \in 0 .. NINODE /\ cwd[p] # 0
    BY <1>8, SlotsOf DEF CloseFiles
  <2>2. b \in Seq(Item) /\ AllSound(b) /\ <<>> \in Seq(Item) /\ AllSound(<<>>)  BY <2>1, CurSound
  <2>3. a \in Seq(Item) /\ AllSound(a)
    <3>1. CASE file[p] = 0  BY <2>2, <3>1
    <3>2. CASE file[p] # 0  BY <2>1, <3>2, CurSound
    <3> QED  BY <3>1, <3>2
  <2>4. Queue(p, a \o b)  BY <1>8 DEF CloseFiles
  <2> HIDE DEF a, b
  <2>5. AllSound(a \o b)  BY <2>2, <2>3, SoundConcat
  <2>6. drops \in [Procs -> Seq(Item)]  BY <2>1 DEF TypeOK
  <2>7. drops'[p] = a \o b  BY <2>4, <2>6 DEF Queue
  <2> QED  BY <2>5, <2>7 DEF SoundAfter
<1>9. CASE NamexEnd(p)
  <2>1. TypeOK /\ c \in 0 .. NINODE /\ c # 0  BY <1>9, SlotsOf DEF NamexEnd
  <2>2. <<Ref(c)>> \in Seq(Item) /\ AllSound(<<Ref(c)>>)  BY <2>1, CurSound
  <2>3. drops' = drops \/ NotFound(p, <<Ref(c)>>)  BY <1>9 DEF NamexEnd
  <2>4. drops[p] = <<>>  BY <1>9 DEF NamexEnd, Running
  <2> QED  BY <2>1, <2>2, <2>3, <2>4, SameSound, NotFoundSound
<1>10. CASE NamexLook(p)
  <2>1. TypeOK /\ c \in 0 .. NINODE /\ c # 0  BY <1>10, SlotsOf DEF NamexLook
  <2>2. /\ <<Guard(c), Ref(c)>> \in Seq(Item) /\ AllSound(<<Guard(c), Ref(c)>>)
        /\ <<Guard(c)>> \in Seq(Item) /\ AllSound(<<Guard(c)>>)
    BY <2>1, CurSound
  <2>3. \/ NotFound(p, <<Guard(c), Ref(c)>>)
        \/ Dropping(p, <<Guard(c)>>) \/ Dropping(p, <<Guard(c), Ref(c)>>)
    BY <1>10 DEF NamexLook
  <2> QED  BY <2>1, <2>2, <2>3, NotFoundSound, SoundDrop DEF SoundAfter
<1>11. CASE CreateLook(p)
  <2> DEFINE g == GetSlot(DirLookup(valid[c], LastName(p)))
  <2>1. TypeOK /\ c \in 0 .. NINODE /\ c # 0  BY <1>11, SlotsOf DEF CreateLook
  <2>2. CASE drops' = drops
    <3>1. drops[p] = <<>>  BY <1>11 DEF CreateLook, Running
    <3> QED  BY <2>2, <3>1, SameSound
  <2>3. CASE Dropping(p, <<Guard(c), Ref(c)>>)
    <3>1. <<Guard(c), Ref(c)>> \in Seq(Item) /\ AllSound(<<Guard(c), Ref(c)>>)  BY <2>1, CurSound
    <3> QED  BY <2>1, <2>3, <3>1, SoundDrop DEF SoundAfter
  <2>4. CASE /\ Get(DirLookup(valid[c], LastName(p)))
             /\ Return(p, <<Ref(g), Guard(c), Ref(c), EndOp>>)
    <3>1. g \in Slots
      <4>1. pc[p] = "create" /\ drops[p] = <<>>  BY <1>11 DEF CreateLook, Running
      <4>2. pc[p] \in CurLocked  BY <4>1 DEF CurLocked
      <4>3. c \in Slots  BY <2>1, InodesAssumption DEF Slots
      <4>4. valid[c] \in Inums  BY <4>1, <4>2, <4>3, LockedValid
      <4>5. DirLookup(valid[c], LastName(p)) \in 0 .. NINUM  BY <2>1, <4>4, LookupIs
      <4> QED  BY <2>1, <2>4, <4>5, GetIs
    <3> HIDE DEF g
    <3>2. g \in 0 .. NINODE /\ g # 0  BY <3>1, InodesAssumption DEF Slots
    <3>3. Ref(g) \in Item /\ Guard(c) \in Item /\ Ref(c) \in Item /\ EndOp \in Item
      BY <2>1, <3>2, ItemsAre
    <3>4. SoundItem(Ref(g)) /\ SoundItem(Guard(c)) /\ SoundItem(Ref(c)) /\ SoundItem(EndOp)
      BY <2>1, <3>2, SoundItems
    <3>5. AllSound(<<Ref(g), Guard(c), Ref(c), EndOp>>)  BY <3>4, SoundTuples
    <3>6. <<Ref(g), Guard(c), Ref(c), EndOp>> \in Seq(Item)  BY <3>3
    <3> QED  BY <2>1, <2>4, <3>5, <3>6, ReturnSound
  <2> QED  BY <1>11, <2>2, <2>3, <2>4 DEF CreateLook
<1>12. CASE CreateFill(p)
  <2>1. TypeOK /\ c \in 0 .. NINODE /\ c # 0 /\ j \in 0 .. NINODE /\ j # 0
    <3>1. Running(p, "fill")  BY <1>12 DEF CreateFill
    <3> QED  BY <3>1, SlotsOf
  <2>2. Ref(c) \in Item /\ Guard(c) \in Item /\ Guard(j) \in Item  BY <2>1, ItemsAre
  <2>3. SoundItem(Ref(c)) /\ SoundItem(Guard(c)) /\ SoundItem(Guard(j))  BY <2>1, SoundItems
  <2>4. AllSound(<<Guard(c), Ref(c), Guard(j)>>)  BY <2>3, SoundTuples
  <2>5. <<Guard(c), Ref(c), Guard(j)>> \in Seq(Item)  BY <2>2
  <2>6. Dropping(p, <<Guard(c), Ref(c), Guard(j)>>)  BY <1>12 DEF CreateFill
  <2> QED  BY <2>1, <2>4, <2>5, <2>6, SoundDrop DEF SoundAfter
<1>13. CASE SysMkdir(p) \/ SysMknod(p)
  <2>1. TypeOK /\ c \in 0 .. NINODE /\ c # 0  BY <1>13, SlotsOf DEF SysMkdir, SysMknod, Made
  <2>2. <<Ref(c), EndOp>> \in Seq(Item) /\ AllSound(<<Ref(c), EndOp>>)  BY <2>1, CurSound
  <2> QED  BY <1>13, <2>1, <2>2, ReturnSound DEF SysMkdir, SysMknod, Made
<1>14. CASE Opened(p)
  <2>1. TypeOK /\ c \in 0 .. NINODE /\ c # 0
    <3>1. Running(p, "opening")  BY <1>14 DEF Opened
    <3> QED  BY <3>1, SlotsOf
  <2>2. /\ <<Guard(c), Ref(c), EndOp>> \in Seq(Item) /\ AllSound(<<Guard(c), Ref(c), EndOp>>)
        /\ <<Guard(c), EndOp>> \in Seq(Item) /\ AllSound(<<Guard(c), EndOp>>)
    BY <2>1, CurSound
  <2> QED  BY <1>14, <2>1, <2>2, ReturnSound DEF Opened
<1>15. CASE SysChdir(p)
  <2>1. TypeOK /\ c \in 0 .. NINODE /\ c # 0 /\ cwd[p] \in 0 .. NINODE /\ cwd[p] # 0
    BY <1>15, SlotsOf DEF SysChdir
  <2>2. <<Guard(c), Ref(c), EndOp>> \in Seq(Item) /\ AllSound(<<Guard(c), Ref(c), EndOp>>)
    BY <2>1, CurSound
  <2>3. Ref(cwd[p]) \in Item /\ Guard(c) \in Item /\ EndOp \in Item  BY <2>1, ItemsAre
  <2>4. SoundItem(Ref(cwd[p])) /\ SoundItem(Guard(c)) /\ SoundItem(EndOp)  BY <2>1, SoundItems
  <2>5. AllSound(<<Guard(c), Ref(cwd[p]), EndOp>>)  BY <2>4, SoundTuples
  <2>6. <<Guard(c), Ref(cwd[p]), EndOp>> \in Seq(Item)  BY <2>3
  <2> QED  BY <1>15, <2>1, <2>2, <2>5, <2>6, ReturnSound DEF SysChdir
<1>16. CASE DirUnlinkLook(p)
  <2>1. TypeOK /\ c \in 0 .. NINODE /\ c # 0  BY <1>16, SlotsOf DEF DirUnlinkLook
  <2>2. /\ <<Guard(c), Ref(c), EndOp>> \in Seq(Item) /\ AllSound(<<Guard(c), Ref(c), EndOp>>)
        /\ <<>> \in Seq(Item) /\ AllSound(<<>>)
    BY <2>1, CurSound
  <2>3. /\ <<>> \o <<Guard(c), Ref(c), EndOp>> \in Seq(Item)
        /\ AllSound(<<>> \o <<Guard(c), Ref(c), EndOp>>)
    BY <2>2, SoundConcat
  <2>4. drops' = drops \/ Return(p, <<>> \o <<Guard(c), Ref(c), EndOp>>)
    BY <1>16 DEF DirUnlinkLook, SysUnlink
  <2>5. drops[p] = <<>>  BY <1>16 DEF DirUnlinkLook, Running
  <2> QED  BY <2>1, <2>3, <2>4, <2>5, SameSound, ReturnSound
<1>17. CASE DirUnlink(p)
  <2> DEFINE a == <<Guard(j), Ref(j)>>
             b == <<Guard(c), Ref(c), EndOp>>
  <2>1. TypeOK /\ c \in 0 .. NINODE /\ c # 0 /\ j \in 0 .. NINODE /\ j # 0
    <3>1. Running(p, "unlinked")  BY <1>17 DEF DirUnlink
    <3> QED  BY <3>1, SlotsOf
  <2>2. b \in Seq(Item) /\ AllSound(b)  BY <2>1, CurSound
  <2>3. a \in Seq(Item) /\ AllSound(a)  BY <2>1, CurSound
  <2>4. Return(p, a \o b)  BY <1>17 DEF DirUnlink, SysUnlink
  <2> HIDE DEF a, b
  <2>5. a \o b \in Seq(Item) /\ AllSound(a \o b)  BY <2>2, <2>3, SoundConcat
  <2> QED  BY <2>1, <2>4, <2>5, ReturnSound
<1>18. CASE LinkOld(p)
  <2>1. TypeOK /\ c \in 0 .. NINODE /\ c # 0  BY <1>18, SlotsOf DEF LinkOld
  <2>2. /\ <<EndOp, Guard(c), Ref(c)>> \in Seq(Item) /\ AllSound(<<EndOp, Guard(c), Ref(c)>>)
        /\ <<Guard(c)>> \in Seq(Item) /\ AllSound(<<Guard(c)>>)
    BY <2>1, CurSound
  <2>3. Return(p, <<EndOp, Guard(c), Ref(c)>>) \/ Dropping(p, <<Guard(c)>>)
    BY <1>18 DEF LinkOld, UnlockOld
  <2> QED  BY <2>1, <2>2, <2>3, ReturnSound, SoundDrop DEF SoundAfter
<1>19. CASE LinkNew(p)
  <2> DEFINE g == GetSlot(DirLookup(valid[c], LastName(p)))
  <2>1. TypeOK /\ c \in 0 .. NINODE /\ c # 0 /\ w \in 0 .. NINODE /\ w # 0
    BY <1>19, SlotsOf DEF LinkNew
  <2>2. CASE Get(DirLookup(valid[c], LastName(p))) /\ Dropping(p, <<Ref(g)>>)
    <3>1. g \in Slots
      <4>1. pc[p] = "linking" /\ drops[p] = <<>>  BY <1>19 DEF LinkNew, Running
      <4>2. pc[p] \in CurLocked  BY <4>1 DEF CurLocked
      <4>3. c \in Slots  BY <2>1, InodesAssumption DEF Slots
      <4>4. valid[c] \in Inums  BY <4>1, <4>2, <4>3, LockedValid
      <4>5. DirLookup(valid[c], LastName(p)) \in 0 .. NINUM  BY <2>1, <4>4, LookupIs
      <4> QED  BY <2>1, <2>2, <4>5, GetIs
    <3> HIDE DEF g
    <3>2. g \in 0 .. NINODE /\ g # 0  BY <3>1, InodesAssumption DEF Slots
    <3>3. <<Ref(g)>> \in Seq(Item) /\ AllSound(<<Ref(g)>>)  BY <3>2, CurSound
    <3> QED  BY <2>1, <2>2, <3>3, SoundDrop DEF SoundAfter
  <2>3. CASE Return(p, <<Guard(c), Ref(c), Ref(w), EndOp>>)
    <3>1. Ref(w) \in Item /\ Guard(c) \in Item /\ Ref(c) \in Item /\ EndOp \in Item
      BY <2>1, ItemsAre
    <3>2. SoundItem(Ref(w)) /\ SoundItem(Guard(c)) /\ SoundItem(Ref(c)) /\ SoundItem(EndOp)
      BY <2>1, SoundItems
    <3>3. AllSound(<<Guard(c), Ref(c), Ref(w), EndOp>>)  BY <3>2, SoundTuples
    <3>4. <<Guard(c), Ref(c), Ref(w), EndOp>> \in Seq(Item)  BY <3>1
    <3> QED  BY <2>1, <2>3, <3>3, <3>4, ReturnSound
  <2> QED  BY <1>19, <2>2, <2>3 DEF LinkNew
<1>20. CASE RevertLink(p)
  <2> DEFINE a == <<Guard(w), Ref(w), EndOp>>
             b == IF c = 0 THEN <<>> ELSE <<Guard(c), Ref(c)>>
  <2>1. TypeOK /\ c \in 0 .. NINODE /\ w \in 0 .. NINODE /\ w # 0
    BY <1>20, SlotsOf DEF RevertLink
  <2>2. a \in Seq(Item) /\ AllSound(a) /\ <<>> \in Seq(Item) /\ AllSound(<<>>)  BY <2>1, CurSound
  <2>3. b \in Seq(Item) /\ AllSound(b)
    <3>1. CASE c = 0  BY <2>2, <3>1
    <3>2. CASE c # 0  BY <2>1, <3>2, CurSound
    <3> QED  BY <3>1, <3>2
  <2>4. Return(p, a \o b)  BY <1>20 DEF RevertLink
  <2> HIDE DEF a, b
  <2>5. a \o b \in Seq(Item) /\ AllSound(a \o b)  BY <2>2, <2>3, SoundConcat
  <2> QED  BY <2>1, <2>4, <2>5, ReturnSound
<1> QED
  BY <1>1, <1>2, <1>3, <1>4, <1>5, <1>6, <1>7, <1>8, <1>9, <1>10, <1>11, <1>12, <1>13, <1>14, <1>15,
     <1>16, <1>17, <1>18, <1>19, <1>20 DEF Step

(* Queues stay sound. *)
LEMMA QueueNext == ASSUME CountInv, QueueInv, [Next]_vars PROVE QueueInv'
<1>1. CASE UNCHANGED vars  BY <1>1 DEF vars, QueueInv
<1>2. ASSUME NEW p \in Procs, Step(p) PROVE QueueInv'
  <2>1. Sound(drops'[p]) /\ OthersSame(p)
    <3>1. SoundAfter(p) => Sound(drops'[p])  BY DEF SoundAfter, AllSound, Sound
    <3>2. SoundAfter(p) \/ HalfPut(p)  BY <1>2, StepSound
    <3>3. OthersSame(p)  BY <1>2, StepGood DEF Good
    <3> QED  BY <3>1, <3>2, <3>3 DEF HalfPut
  <2>2. ASSUME NEW q \in Procs PROVE Sound(drops'[q])
    <3>1. CASE q = p  BY <2>1, <3>1
    <3>2. CASE q # p
      <4>1. drops'[q] = drops[q]  BY <2>1, <3>2 DEF OthersSame
      <4> QED  BY <4>1 DEF QueueInv
    <3> QED  BY <3>1, <3>2
  <2> QED  BY <2>2 DEF QueueInv
<1> QED  BY <1>1, <1>2 DEF Next

(* Every queue is empty at the start. *)
LEMMA QueueInit == ASSUME Init PROVE QueueInv
<1>1. \A p \in Procs : drops[p] = <<>>  BY DEF Init
<1> QED  BY <1>1 DEF QueueInv, Sound

(* The invariant: counts, locks, places and queues.                        *)
(* Every handle is counted, every lock has one guard, what a guard         *)
(* protects is referred to, and a queue names slots.                       *)
THEOREM CountCorrect == Spec => [](CountInv /\ QueueInv)
<1>1. Init => CountInv /\ QueueInv  BY CountInit, QueueInit
<1>2. CountInv /\ QueueInv /\ [Next]_vars => CountInv' /\ QueueInv'  BY CountNext, QueueNext
<1> QED  BY <1>1, <1>2, PTL DEF Spec

(* An item behind the head is in the tail. *)
LEMMA InTail ==
  ASSUME NEW s \in Seq(Item), s # <<>>, Len(s) <= 8, NEW m \in 2 .. Len(s), NEW i, NEW K,
         s[m].i = i, s[m].k \in K
  PROVE  InQueue(Tail(s), i, K) \in Nat /\ InQueue(Tail(s), i, K) > 0
<1>1. Len(Tail(s)) = Len(s) - 1 /\ Len(s) \in Nat  OBVIOUS
<1>2. m - 1 \in 1 .. 8 /\ m - 1 \in 1 .. Len(Tail(s)) /\ (m - 1) + 1 = m  BY <1>1
<1>3. Tail(s)[m - 1] = s[m]  BY <1>1, <1>2
<1>4. At(Tail(s), m - 1, i, K) = 1  BY <1>1, <1>2, <1>3 DEF At
<1>5. \A n \in 1 .. 8 : At(Tail(s), n, i, K) \in {0, 1}  BY DEF At
<1>6. InQueue(Tail(s), i, K) > 0
  <2>1. \E n \in 1 .. 8 : At(Tail(s), n, i, K) = 1  BY <1>2, <1>4
  <2> QED  BY <1>5, <2>1 DEF InQueue
<1> QED  BY <1>6, CountNat

(* Who holds the lock of a slot has a handle to the slot, besides the head *)
(* of its queue unless that is about to truncate.                          *)
LEMMA LockedHandle ==
  ASSUME CountInv, NEW p \in Procs, NEW i \in Slots, owner[i] = p
  PROVE  \/ VarHandles(p, i) > 0
         \/ drops[p] # <<>> /\ Head(drops[p]).k = "trunc" /\ Head(drops[p]).i = i
         \/ drops[p] # <<>> /\ InQueue(Tail(drops[p]), i, Refers) > 0
<1> DEFINE s == drops[p]
<1>1. s \in Seq(Item) /\ Len(s) <= 6  BY DEF CountInv, TypeOK, PlaceInv, PlaceOK
<1>2. Locks(p, i) = 1  BY DEF CountInv, LockInv, Bit
<1>3. CASE PlaceLocks(p, i) # 0
  <2>1. cur[p] = i \/ ino[p] = i \/ old[p] = i  BY <1>3 DEF PlaceLocks, AtPlace, Bit
  <2>2. Handles(p, i) > 0 /\ VarHandles(p, i) > 0
    <3>1. /\ Bit(cur[p] = i) \in {0, 1} /\ Bit(ino[p] = i) \in {0, 1} /\ Bit(old[p] = i) \in {0, 1}
          /\ Bit(cwd[p] = i) \in {0, 1} /\ Bit(file[p] = i) \in {0, 1}
          /\ \/ Bit(cur[p] = i) = 1 \/ Bit(ino[p] = i) = 1 \/ Bit(old[p] = i) = 1
      BY <2>1 DEF Bit
    <3>2. VarHandles(p, i) > 0  BY <3>1 DEF VarHandles, InVars
    <3>3. Handles(p, i) > 0
      <4>1. i \in {cur[p], ino[p], old[p], cwd[p], file[p]}  BY <2>1
      <4> QED  BY <4>1, HandleCounts
    <3> QED  BY <3>2, <3>3
  <2> QED  BY <2>2
<1>4. CASE PlaceLocks(p, i) = 0
  <2>1. InQueue(s, i, Claims) = 1
    <3>1. InQueue(s, i, Claims) \in Nat  BY CountNat
    <3> QED  BY <1>2, <1>4, <3>1 DEF Locks
  <2>2. PICK n \in 1 .. 8 : At(s, n, i, Claims) = 1
    <3>1. \A n \in 1 .. 8 : At(s, n, i, Claims) \in {0, 1}  BY DEF At
    <3>2. \E n \in 1 .. 8 : At(s, n, i, Claims) = 1
      <4>1. SUFFICES ASSUME \A n \in 1 .. 8 : At(s, n, i, Claims) = 0 PROVE FALSE  BY <3>1
      <4>2. InQueue(s, i, Claims) = 0  BY <4>1 DEF InQueue
      <4> QED  BY <2>1, <4>2
    <3> QED  BY <3>2
  <2>3. n <= Len(s) /\ s[n].i = i /\ s[n].k \in Claims  BY <2>2 DEF At
  <2>4. Len(s) \in Nat /\ s # <<>> /\ Head(s) = s[1] /\ n \in 1 .. Len(s)
    <3>1. Len(s) \in Nat  BY <1>1
    <3>2. n \in 1 .. Len(s)  BY <2>3, <3>1
    <3>3. s # <<>>  BY <1>1, <3>2
    <3> QED  BY <1>1, <3>1, <3>2, <3>3
  <2>5. CASE s[n].k = "trunc"
    <3>1. CASE n = 1  BY <2>3, <2>4, <2>5, <3>1
    <3>2. CASE n # 1
      <4>1. n \in 2 .. Len(s) /\ Len(s) <= 8  BY <1>1, <2>4, <3>2
      <4>2. s[n].k \in Refers  BY <2>5 DEF Refers
      <4> QED  BY <1>1, <2>3, <2>4, <4>1, <4>2, InTail
    <3> QED  BY <3>1, <3>2
  <2>6. CASE s[n].k = "guard"
    <3>1. Backed(s, {cur[p], old[p], cwd[p], file[p]})  BY DEF CountInv, BackedInv
    <3>2. \/ i \in {cur[p], old[p], cwd[p], file[p]}
          \/ \E m \in (n + 1) .. Len(s) : s[m].i = i /\ s[m].k \in Refers
      BY <2>3, <2>4, <2>6, <3>1 DEF Backed
    <3>3. CASE i \in {cur[p], old[p], cwd[p], file[p]}
      <4>1. /\ Bit(cur[p] = i) \in {0, 1} /\ Bit(ino[p] = i) \in {0, 1} /\ Bit(old[p] = i) \in {0, 1}
            /\ Bit(cwd[p] = i) \in {0, 1} /\ Bit(file[p] = i) \in {0, 1}
            /\ \/ Bit(cur[p] = i) = 1 \/ Bit(old[p] = i) = 1 \/ Bit(cwd[p] = i) = 1
               \/ Bit(file[p] = i) = 1
        BY <3>3 DEF Bit
      <4> QED  BY <4>1 DEF VarHandles, InVars
    <3>4. CASE \E m \in (n + 1) .. Len(s) : s[m].i = i /\ s[m].k \in Refers
      <4>1. PICK m \in (n + 1) .. Len(s) : s[m].i = i /\ s[m].k \in Refers  BY <3>4
      <4>2. m \in 2 .. Len(s) /\ Len(s) <= 8  BY <1>1, <2>4, <4>1
      <4> QED  BY <1>1, <2>4, <4>1, <4>2, InTail
    <3> QED  BY <3>2, <3>3, <3>4
  <2> QED  BY <2>3, <2>5, <2>6 DEF Claims
<1> QED  BY <1>3, <1>4

(* The last handle to a slot finds its sleep lock free. *)
LEMMA LastUnlocked ==
  ASSUME CountInv, QueueInv, NEW p \in Procs, Drops(p, "ref"), refs[Head(drops[p]).i] = 1
  PROVE  owner[Head(drops[p]).i] = None
<1> DEFINE s == drops[p]
           i == Head(s).i
<1>1. s \in Seq(Item) /\ s # <<>> /\ Len(s) <= 6 /\ Head(s) \in Item /\ Head(s).k = "ref"
      /\ i \in 0 .. NINODE
  BY HeadIs
<1>2. i # 0
  <2>1. 1 \in 1 .. Len(s) /\ Head(s) = s[1]  BY <1>1
  <2> QED  BY <1>1, <2>1 DEF QueueInv, Sound, SoundItem
<1>3. i \in Slots  BY <1>1, <1>2, InodesAssumption DEF Slots
<1>4. Len(s) <= 8  BY <1>1
<1>5. InQueue(s, i, Refers) = One(Head(s), i, Refers) + InQueue(Tail(s), i, Refers)
  BY <1>1, <1>4, TailCount
<1>6. One(Head(s), i, Refers) = 1  BY <1>1 DEF One, Refers
<1>7. InQueue(Tail(s), i, Refers) \in Nat /\ VarHandles(p, i) \in Nat
  BY CountNat, VarsNat DEF VarHandles
<1>8. Handles(p, i) = VarHandles(p, i) + (1 + InQueue(Tail(s), i, Refers))
  BY <1>5, <1>6 DEF Handles
<1> HIDE DEF i
<1>9. refs[i] = 1  BY DEF i
<1>10. /\ Handles(p, i) \in Nat /\ Handles(p, i) <= 1
       /\ \A q \in Procs : q # p => Handles(p, i) + Handles(q, i) <= 1
  BY <1>3, <1>9, HandlesCounted DEF CountInv
<1>11. VarHandles(p, i) = 0 /\ InQueue(Tail(s), i, Refers) = 0 /\ Handles(p, i) = 1
  BY <1>7, <1>8, <1>10
<1>12. ASSUME owner[i] = p PROVE FALSE
  <2>1. \/ VarHandles(p, i) > 0 \/ Head(s).k = "trunc" \/ InQueue(Tail(s), i, Refers) > 0
    BY <1>3, <1>12, LockedHandle
  <2> QED  BY <1>1, <1>11, <2>1
<1>13. ASSUME NEW q \in Procs, q # p, owner[i] = q PROVE FALSE
  <2>1. Handles(q, i) > 0
    <3> DEFINE t == drops[q]
    <3>1. t \in Seq(Item) /\ Len(t) <= 6  BY DEF CountInv, TypeOK, PlaceInv, PlaceOK
    <3>2. VarHandles(q, i) \in Nat /\ InQueue(t, i, Refers) \in Nat
      BY CountNat, VarsNat DEF VarHandles
    <3>3. \/ VarHandles(q, i) > 0
          \/ t # <<>> /\ Head(t).k = "trunc" /\ Head(t).i = i
          \/ t # <<>> /\ InQueue(Tail(t), i, Refers) > 0
      BY <1>3, <1>13, LockedHandle
    <3>4. CASE VarHandles(q, i) > 0  BY <3>2, <3>4 DEF Handles
    <3>5. CASE t # <<>> /\ (One(Head(t), i, Refers) = 1 \/ InQueue(Tail(t), i, Refers) > 0)
      <4>1. Len(t) <= 8 /\ t # <<>>  BY <3>1, <3>5
      <4>2. InQueue(t, i, Refers) = One(Head(t), i, Refers) + InQueue(Tail(t), i, Refers)
        BY <3>1, <4>1, TailCount
      <4>3. One(Head(t), i, Refers) \in {0, 1} /\ InQueue(Tail(t), i, Refers) \in Nat
        BY CountNat DEF One
      <4>4. InQueue(t, i, Refers) > 0  BY <3>5, <4>2, <4>3
      <4> QED  BY <3>2, <4>4 DEF Handles
    <3>6. Head(t).k = "trunc" /\ Head(t).i = i => One(Head(t), i, Refers) = 1  BY DEF One, Refers
    <3> QED  BY <3>3, <3>4, <3>5, <3>6
  <2>2. Handles(p, i) + Handles(q, i) <= 1 /\ Handles(q, i) \in Nat
    BY <1>3, <1>10, <1>13, HandlesCounted DEF CountInv
  <2> QED  BY <1>11, <2>1, <2>2
<1>14. owner[i] \in Procs \cup {None}  BY <1>3 DEF CountInv, TypeOK
<1>15. owner[i] = None  BY <1>12, <1>13, <1>14
<1> QED  BY <1>15 DEF i

(* put never waits: the invariant implies it. *)
LEMMA NeverWaits == ASSUME CountInv, QueueInv PROVE PutNeverWaits
<1> SUFFICES ASSUME NEW p \in Procs, Drops(p, "ref") PROVE WaitsFor(p) = None  BY DEF PutNeverWaits
<1>1. ~Locking(p)  BY DEF Drops, Locking
<1>2. refs[Head(drops[p]).i] = 1 => owner[Head(drops[p]).i] = None  BY LastUnlocked
<1> QED  BY <1>1, <1>2 DEF WaitsFor

-----------------------------------------------------------------------------
(* Variables have their types: in particular handles are slots, and the    *)
(* entries of directories are names and inode numbers of the disk.         *)
THEOREM InodesTypes == Spec => []TypeOK
<1>1. CountInv => TypeOK  BY DEF CountInv
<1> QED  BY <1>1, CountCorrect, PTL

(* InodeMeta.refs is exactly the number of handles, for any number of      *)
(* processes in any of the calls: nothing leaks on the early returns of    *)
(* namex, create, link, unlink and open, and no slot is recycled under a   *)
(* handle.                                                                 *)
THEOREM RefsExact == Spec => []RefsCounted
<1>1. CountInv => RefsCounted  BY DEF CountInv
<1> QED  BY <1>1, CountCorrect, PTL

(* put, which holds the spin lock of the cache, never blocks on the sleep  *)
(* lock of the inode it drops the last handle to.                          *)
THEOREM PutNeverBlocks == Spec => []PutNeverWaits
<1>1. CountInv /\ QueueInv => PutNeverWaits  BY NeverWaits
<1> QED  BY <1>1, CountCorrect, PTL

(* get never gives an inode two slots, even when it meets a slot that put  *)
(* is about to give up.                                                    *)
THEOREM OneSlotEach == Spec => []OneSlot
<1>1. CountInv => OneSlot  BY DEF CountInv
<1> QED  BY <1>1, CountCorrect, PTL

(* A sleep lock of the cache is held by the process that has exactly one   *)
(* guard of it: no early return forgets a guard or drops one twice.        *)
THEOREM GuardsExact == Spec => []LockInv
<1>1. CountInv => LockInv  BY DEF CountInv
<1> QED  BY <1>1, CountCorrect, PTL

-----------------------------------------------------------------------------
(***************************************************************************)
(* Cached data and the disk.                                               *)
(***************************************************************************)

(* Slots in use stay in use, for the same inode. *)
Grows == \A i \in Slots : refs[i] > 0 => refs'[i] > 0 /\ inum'[i] = inum[i]

(* What is written on the disk is data that somebody has, and both agree. *)
Writes == /\ \A i \in Slots : valid[i] # 0 =>
                 din'[i] = dino'[valid[i]] /\ din'[i].itype # "Empty"
          /\ \A n \in Inums : dino'[n] = dino[n] \/ \E i \in Slots : valid[i] = n
FreshMoves == \A r \in Procs : fresh[r] # 0 =>
                  fresh'[r] = fresh[r] \/ \E i \in Slots : valid[i] = fresh[r]

(* A slot changes its inode only if p has the last handle to it. *)
Steady(p) == \A i \in Slots : \/ inum'[i] = inum[i] \/ refs[i] = 0
                              \/ refs[i] = 1 /\ Handles(p, i) > 0

(* What others have freed and not given up stays free. *)
StaysFreed(p) == \A q \in Procs : \A i \in Slots :
                     q # p /\ Freeing(q, i) => valid'[i] = 0 /\ dino'[inum[i]].itype = "Empty"

(* What a step of p does to cached data. *)
DataGood(p) == ValidInv' /\ OrphanInv' /\ Steady(p) /\ StaysFreed(p) /\ FreshAt(p)'

(* The head of a queue is a handle. *)
LEMMA HeadHandle ==
  ASSUME CountInv, NEW p \in Procs, drops[p] # <<>>, Head(drops[p]).k \in Refers,
         NEW i \in Slots, Head(drops[p]).i = i
  PROVE  /\ Handles(p, i) \in Nat /\ Handles(p, i) > 0 /\ refs[i] \in Nat /\ refs[i] > 0
         /\ inum[i] # 0 /\ inum[i] \in Inums
<1> DEFINE s == drops[p]
<1>1. s \in Seq(Item) /\ Len(s) <= 6  BY DEF CountInv, TypeOK, PlaceInv, PlaceOK
<1>2. Len(s) <= 8 /\ s # <<>>  BY <1>1
<1>3. InQueue(s, i, Refers) = One(Head(s), i, Refers) + InQueue(Tail(s), i, Refers)
  BY <1>1, <1>2, TailCount
<1>4. One(Head(s), i, Refers) = 1  BY DEF One
<1>5. InQueue(Tail(s), i, Refers) \in Nat /\ VarHandles(p, i) \in Nat
  BY CountNat, VarsNat DEF VarHandles
<1>6. Handles(p, i) > 0  BY <1>3, <1>4, <1>5 DEF Handles
<1>7. refs[i] \in Nat /\ Handles(p, i) \in Nat /\ Handles(p, i) <= refs[i]
  BY HandlesCounted DEF CountInv
<1>8. refs[i] > 0  BY <1>6, <1>7
<1>9. inum[i] # 0 /\ inum[i] \in 0 .. NINUM  BY <1>8 DEF CountInv, SlotInv, TypeOK
<1> QED  BY <1>6, <1>7, <1>8, <1>9, InodesAssumption DEF Inums

(* So is the one of a put that has freed its inode. *)
LEMMA FreeingHandle ==
  ASSUME CountInv, NEW p \in Procs, NEW i \in Slots, Freeing(p, i)
  PROVE  /\ Handles(p, i) \in Nat /\ Handles(p, i) > 0 /\ refs[i] > 0
         /\ inum[i] # 0 /\ inum[i] \in Inums
<1>1. drops[p] # <<>> /\ Head(drops[p]).k \in Refers /\ Head(drops[p]).i = i
  BY DEF Freeing, Deref, Refers
<1> QED  BY <1>1, HeadHandle

(* Writes through valid data keep the cache and the disk together. *)
LEMMA WritesGood ==
  ASSUME CountInv, LiveInv, NEW p \in Procs, Grows, valid' = valid, Writes, FreshMoves,
         FreshAt(p)'
  PROVE  DataGood(p)
<1>1. ValidInv /\ FreedInv /\ OrphanInv  BY DEF LiveInv
<1>2. ValidInv'
  <2>1. ASSUME NEW i \in Slots, valid'[i] # 0
        PROVE  /\ refs'[i] > 0 /\ valid'[i] = inum'[i]
               /\ din'[i] = dino'[inum'[i]] /\ din'[i].itype # "Empty"
    <3>1. valid[i] # 0  BY <2>1
    <3>2. refs[i] > 0 /\ valid[i] = inum[i]  BY <1>1, <3>1 DEF ValidInv
    <3>3. refs'[i] > 0 /\ inum'[i] = inum[i]  BY <3>2 DEF Grows
    <3>4. din'[i] = dino'[valid[i]] /\ din'[i].itype # "Empty"  BY <3>1 DEF Writes
    <3> QED  BY <3>2, <3>3, <3>4
  <2> QED  BY <2>1 DEF ValidInv
<1>3. OrphanInv'
  <2>1. ASSUME NEW n \in Inums, dino'[n].itype # "Empty", dino'[n].nlink = 0
        PROVE  (\E r \in Procs : fresh'[r] = n) \/ \E i \in Slots : valid'[i] = n
    <3>1. CASE \E i \in Slots : valid[i] = n  BY <3>1
    <3>2. CASE ~\E i \in Slots : valid[i] = n
      <4>1. dino'[n] = dino[n]  BY <3>2 DEF Writes
      <4>2. PICK r \in Procs : fresh[r] = n  BY <1>1, <2>1, <3>2, <4>1 DEF OrphanInv
      <4>3. n # 0  BY InodesAssumption DEF Inums
      <4>4. fresh'[r] = n  BY <3>2, <4>2, <4>3 DEF FreshMoves
      <4> QED  BY <4>4
    <3> QED  BY <3>1, <3>2
  <2> QED  BY <2>1 DEF OrphanInv
<1>4. Steady(p)
  <2>1. ASSUME NEW i \in Slots PROVE inum'[i] = inum[i] \/ refs[i] = 0
    <3>1. refs[i] \in Nat  BY HandlesCounted DEF CountInv
    <3> QED  BY <3>1 DEF Grows
  <2> QED  BY <2>1 DEF Steady
<1>5. StaysFreed(p)
  <2>1. ASSUME NEW q \in Procs, NEW i \in Slots, q # p, Freeing(q, i)
        PROVE  valid'[i] = 0 /\ dino'[inum[i]].itype = "Empty"
    <3>1. valid[i] = 0 /\ dino[inum[i]].itype = "Empty"  BY <1>1, <2>1 DEF FreedInv
    <3>2. refs[i] > 0 /\ inum[i] \in Inums /\ inum[i] # 0  BY <2>1, FreeingHandle
    <3>3. ASSUME NEW j \in Slots, valid[j] = inum[i] PROVE FALSE
      <4>1. refs[j] > 0 /\ valid[j] = inum[j]  BY <1>1, <3>2, <3>3 DEF ValidInv
      <4>2. i = j  BY <3>2, <3>3, <4>1 DEF CountInv, OneSlot
      <4> QED  BY <3>1, <3>2, <3>3, <4>2
    <3>4. dino'[inum[i]] = dino[inum[i]]  BY <3>2, <3>3 DEF Writes
    <3> QED  BY <3>1, <3>4
  <2> QED  BY <2>1 DEF StaysFreed
<1> QED  BY <1>2, <1>3, <1>4, <1>5 DEF DataGood

(* A step that leaves data alone. *)
LEMMA CalmData ==
  ASSUME CountInv, LiveInv, NEW p \in Procs, Grows, UNCHANGED <<valid, din, dino, fresh>>,
         FreshAt(p)'
  PROVE  DataGood(p)
<1>1. ValidInv  BY DEF LiveInv
<1>2. Writes  BY <1>1 DEF Writes, ValidInv
<1>3. FreshMoves  BY DEF FreshMoves
<1> QED  BY <1>2, <1>3, WritesGood

(* A step away from inode_alloc, and one of a queue. *)
LEMMA FreshCalm ==
  ASSUME LiveInv, NEW p \in Procs, fresh'[p] = fresh[p],
         pc[p] \notin {"get", "new", "fill"}, pc'[p] \notin {"new", "fill"}
  PROVE  FreshAt(p)'
<1>1. FreshAt(p)  BY DEF LiveInv, FreshInv
<1>2. fresh'[p] = 0  BY <1>1 DEF FreshAt
<1> QED  BY <1>2 DEF FreshAt

(* The same while something is dropped. *)
LEMMA FreshHead ==
  ASSUME LiveInv, NEW p \in Procs, fresh'[p] = fresh[p], pc'[p] = pc[p], drops[p] # <<>>
  PROVE  FreshAt(p)'
<1>1. FreshAt(p)  BY DEF LiveInv, FreshInv
<1> QED  BY <1>1 DEF FreshAt

(* get and dup add handles, if the cache is not full. *)
LEMMA GetGrows ==
  ASSUME CountInv, NEW n \in 0 .. NINUM, Get(n), panicked' = None PROVE Grows
<1> DEFINE g == GetSlot(n)
<1>1. TypeOK  BY DEF CountInv
<1>2. /\ g \in Slots /\ inum'[g] = n /\ refs'[g] = refs[g] + 1
      /\ \A i \in Slots : i # g => inum'[i] = inum[i] /\ refs'[i] = refs[i]
      /\ \/ refs[g] > 0 /\ inum[g] = n
         \/ refs[g] = 0
  BY <1>1, GetIs
<1> HIDE DEF g
<1>3. ASSUME NEW i \in Slots, refs[i] > 0 PROVE refs'[i] > 0 /\ inum'[i] = inum[i]
  <2>1. CASE i = g
    <3>1. refs[g] \in Int  BY <1>1, <1>2 DEF TypeOK
    <3> QED  BY <1>2, <1>3, <2>1, <3>1
  <2>2. CASE i # g  BY <1>2, <1>3, <2>2
  <2> QED  BY <2>1, <2>2
<1> QED  BY <1>3 DEF Grows

(* A step of a call that leaves data alone, away from inode_alloc. *)
LEMMA CallData ==
  ASSUME CountInv, LiveInv, NEW p \in Procs, Grows, UNCHANGED <<valid, din, dino, fresh>>,
         pc[p] \notin {"get", "new", "fill"}, pc'[p] \notin {"new", "fill"}
  PROVE  DataGood(p)
BY FreshCalm, CalmData

(* A step that leaves the slots alone. *)
LEMMA SameGrows == ASSUME UNCHANGED <<inum, refs>> PROVE Grows
BY DEF Grows

(* Where the end of namex leads. *)
LEMMA NotFoundGoes ==
  ASSUME CountInv, NEW p \in Procs, NEW s, NotFound(p, s)
  PROVE  pc'[p] \in {"user", "revert"} /\ fresh' = fresh
<1>1. pc \in [Procs -> PCs]  BY DEF CountInv, TypeOK
<1>2. pc' = [pc EXCEPT ![p] = "user"] \/ pc' = [pc EXCEPT ![p] = "revert"]
  BY DEF NotFound, Return, Goto
<1>3. fresh' = fresh  BY DEF NotFound, Return
<1> QED  BY <1>1, <1>2, <1>3

(* A step of p keeps data current: the steps that leave slots and data     *)
(* alone.                                                                  *)
LEMMA PlainData ==
  ASSUME CountInv, LiveInv, NEW p \in Procs,
         \/ \E c \in menu : Enter(p, c)
         \/ SysClose(p) \/ CloseFiles(p) \/ NamexEnd(p) \/ SysMkdir(p) \/ SysMknod(p)
         \/ Opened(p) \/ SysChdir(p)
  PROVE  DataGood(p)
<1>1. pc \in [Procs -> PCs]  BY DEF CountInv, TypeOK
<1>2. SUFFICES /\ UNCHANGED <<inum, refs, valid, din, dino, fresh>>
               /\ pc[p] \notin {"get", "new", "fill"} /\ pc'[p] \notin {"new", "fill"}
  BY SameGrows, CallData
<1>3. CASE \E c \in menu : Enter(p, c)
  <2>1. pc' = [pc EXCEPT ![p] = "start"] /\ pc[p] = "user"  BY <1>3 DEF Enter, Goto, Running
  <2>2. UNCHANGED <<inum, refs, valid, din, dino, fresh>>  BY <1>3 DEF Enter, cache, disk
  <2> QED  BY <1>1, <2>1, <2>2
<1>4. CASE SysClose(p)
  <2>1. pc' = pc /\ pc[p] = "user"  BY <1>4 DEF SysClose, Running
  <2>2. UNCHANGED <<inum, refs, valid, din, dino, fresh>>  BY <1>4 DEF SysClose, cache, disk
  <2> QED  BY <1>1, <2>1, <2>2
<1>5. CASE CloseFiles(p)
  <2>1. pc' = [pc EXCEPT ![p] = "gone"] /\ pc[p] = "user"  BY <1>5 DEF CloseFiles, Goto, Running
  <2>2. UNCHANGED <<inum, refs, valid, din, dino, fresh>>  BY <1>5 DEF CloseFiles, cache, disk
  <2> QED  BY <1>1, <2>1, <2>2
<1>6. CASE NamexEnd(p)
  <2>1. pc[p] = "walk" /\ UNCHANGED <<inum, refs, valid, din, dino>>
    BY <1>6 DEF NamexEnd, Running, disk
  <2>2. CASE NotFound(p, <<Ref(cur[p])>>)  BY <2>1, <2>2, NotFoundGoes
  <2>3. CASE pc' = [pc EXCEPT ![p] = "found"] /\ fresh' = fresh  BY <1>1, <2>1, <2>3
  <2> QED  BY <1>6, <2>2, <2>3 DEF NamexEnd, Goto
<1>7. CASE SysMkdir(p) \/ SysMknod(p)
  <2>1. pc' = [pc EXCEPT ![p] = "user"] /\ pc[p] = "made" /\ fresh' = fresh
    BY <1>7 DEF SysMkdir, SysMknod, Made, Return, Goto, Running
  <2>2. UNCHANGED <<inum, refs, valid, din, dino>>  BY <1>7 DEF SysMkdir, SysMknod, Made, disk
  <2> QED  BY <1>1, <2>1, <2>2
<1>8. CASE Opened(p)
  <2>1. pc' = [pc EXCEPT ![p] = "user"] /\ pc[p] = "opening" /\ fresh' = fresh
    BY <1>8 DEF Opened, Return, Goto, Running
  <2>2. UNCHANGED <<inum, refs, valid, din, dino>>  BY <1>8 DEF Opened, disk
  <2> QED  BY <1>1, <2>1, <2>2
<1>9. CASE SysChdir(p)
  <2>1. pc' = [pc EXCEPT ![p] = "user"] /\ pc[p] = "chdir" /\ fresh' = fresh
    BY <1>9 DEF SysChdir, Return, Goto, Running
  <2>2. UNCHANGED <<inum, refs, valid, din, dino>>  BY <1>9 DEF SysChdir, disk
  <2> QED  BY <1>1, <2>1, <2>2
<1> QED  BY <1>3, <1>4, <1>5, <1>6, <1>7, <1>8, <1>9

(* Steps that get a handle to an inode found in a directory. *)
LEMMA LookupData ==
  ASSUME CountInv, LiveInv, NEW p \in Procs, panicked' = None,
         NamexLook(p) \/ CreateLook(p) \/ DirUnlinkLook(p) \/ LinkNew(p)
  PROVE  DataGood(p)
<1>1. PICK nm : LET n == DirLookup(valid[cur[p]], nm) IN
          UNCHANGED <<inum, refs>> \/ Get(n)
  BY DEF NamexLook, CreateLook, DirUnlinkLook, LinkNew
<1> DEFINE n == DirLookup(valid[cur[p]], nm)
<1>2. UNCHANGED <<valid, din, dino>>
  BY DEF NamexLook, CreateLook, DirUnlinkLook, LinkNew, disk
<1>3. PICK at \in {"look", "create", "unlink", "linking"} : Running(p, at)
  BY DEF NamexLook, CreateLook, DirUnlinkLook, LinkNew
<1>4. /\ TypeOK /\ PlaceOK(p) /\ pc[p] = at /\ drops[p] = <<>> /\ cur[p] \in 0 .. NINODE
  <2>1. at # "gone"  BY <1>3
  <2> QED  BY <1>3, <2>1, RunningIs
<1>5. pc[p] \in CurLocked /\ cur[p] # 0  BY <1>3, <1>4 DEF PlaceOK, CurLocked
<1>6. cur[p] \in Slots  BY <1>4, <1>5, InodesAssumption DEF Slots
<1>7. valid[cur[p]] \in Inums  BY <1>4, <1>5, <1>6, LockedValid
<1>8. n \in 0 .. NINUM  BY <1>4, <1>7, LookupIs
<1> HIDE DEF n
<1>9. UNCHANGED <<inum, refs>> \/ Get(n)  BY <1>1 DEF n
<1>10. Grows  BY <1>8, <1>9, SameGrows, GetGrows
<1>11. pc \in [Procs -> PCs]  BY <1>4 DEF TypeOK
<1>12. fresh' = fresh /\ pc'[p] \notin {"new", "fill"}
  <2>1. CASE NamexLook(p)
    <3>1. \/ NotFound(p, <<Guard(cur[p]), Ref(cur[p])>>)
          \/ pc' = [pc EXCEPT ![p] = "found"] /\ fresh' = fresh
          \/ pc' = [pc EXCEPT ![p] = "walk"] /\ fresh' = fresh
      BY <2>1 DEF NamexLook, Goto
    <3> QED  BY <1>11, <3>1, NotFoundGoes
  <2>2. CASE CreateLook(p)
    <3>1. /\ fresh' = fresh
          /\ \E to \in {"alloc", "made", "user"} : pc' = [pc EXCEPT ![p] = to]
      BY <2>2 DEF CreateLook, Goto, Return
    <3> QED  BY <1>11, <3>1
  <2>3. CASE DirUnlinkLook(p)
    <3>1. /\ fresh' = fresh
          /\ \E to \in {"child", "user"} : pc' = [pc EXCEPT ![p] = to]
      BY <2>3 DEF DirUnlinkLook, Goto, SysUnlink, Return
    <3> QED  BY <1>11, <3>1
  <2>4. CASE LinkNew(p)
    <3>1. /\ fresh' = fresh
          /\ \E to \in {"revert", "user"} : pc' = [pc EXCEPT ![p] = to]
      BY <2>4 DEF LinkNew, Goto, Return
    <3> QED  BY <1>11, <3>1
  <2> QED  BY <2>1, <2>2, <2>3, <2>4
<1>13. pc[p] \notin {"get", "new", "fill"}  BY <1>3, <1>4
<1> QED  BY <1>2, <1>10, <1>12, <1>13, CallData

(* The start of namex. *)
LEMMA StartData ==
  ASSUME CountInv, LiveInv, NEW p \in Procs, panicked' = None, NamexStart(p) PROVE DataGood(p)
<1>1. UNCHANGED <<valid, din, dino, fresh>> /\ pc' = [pc EXCEPT ![p] = "walk"]
  BY DEF NamexStart, disk, Goto
<1>2. TypeOK /\ pc[p] = "start" /\ cwd[p] \in 0 .. NINODE /\ cwd[p] # 0
      /\ refs \in [Slots -> Int]
  BY RunningIs DEF NamexStart
<1>3. pc'[p] = "walk"  BY <1>1, <1>2 DEF TypeOK
<1>4. Grows
  <2>1. CASE Get(ROOTINUM)
    <3>1. ROOTINUM \in 0 .. NINUM  BY InodesAssumption DEF ROOTINUM
    <3> QED  BY <2>1, <3>1, GetGrows
  <2>2. CASE Dup(cwd[p])
    <3>1. inum' = inum /\ refs' = [refs EXCEPT ![cwd[p]] = refs[cwd[p]] + 1]  BY <2>2 DEF Dup
    <3>2. cwd[p] \in Slots  BY <1>2, InodesAssumption DEF Slots
    <3>3. \A i \in Slots : refs[i] > 0 => refs'[i] > 0  BY <1>2, <3>1, <3>2
    <3> QED  BY <3>1, <3>3 DEF Grows
  <2> QED  BY <2>1, <2>2 DEF NamexStart
<1> QED  BY <1>1, <1>2, <1>3, <1>4, CallData

(* The slot of a new inode. *)
LEMMA CreateGetData ==
  ASSUME CountInv, LiveInv, NEW p \in Procs, panicked' = None, CreateGet(p) PROVE DataGood(p)
<1>1. /\ UNCHANGED <<valid, din, dino, fresh, drops>> /\ pc' = [pc EXCEPT ![p] = "new"]
      /\ ino' = [ino EXCEPT ![p] = GetSlot(fresh[p])] /\ Get(fresh[p])
  BY DEF CreateGet, disk, Goto
<1>2. TypeOK /\ PlaceOK(p) /\ pc[p] = "get" /\ drops[p] = <<>>  BY RunningIs DEF CreateGet
<1>3. fresh[p] \in 0 .. NINUM  BY <1>2 DEF TypeOK
<1>4. Grows  BY <1>1, <1>3, GetGrows
<1>5. pc'[p] = "new" /\ ino'[p] = GetSlot(fresh[p])  BY <1>1, <1>2 DEF TypeOK
<1>6. inum'[GetSlot(fresh[p])] = fresh[p]  BY <1>1, <1>2, <1>3, GetIs
<1>7. FreshAt(p)'  BY <1>1, <1>2, <1>5, <1>6 DEF FreshAt
<1> QED  BY <1>1, <1>4, <1>7, CalmData

(* The drop of a guard, begin_op and end_op. *)
LEMMA DropData ==
  ASSUME CountInv, LiveInv, NEW p \in Procs, DropGuard(p) \/ DropOp(p) PROVE DataGood(p)
<1>1. UNCHANGED <<inum, refs, valid, din, dino, fresh, pc>>
  BY DEF DropGuard, DropOp, cache, disk, prog
<1>2. drops[p] # <<>>  BY DEF DropGuard, DropOp, Drops
<1>3. FreshAt(p)'  BY <1>1, <1>2, FreshHead
<1> QED  BY <1>1, <1>3, SameGrows, CalmData

(* One inode, or two, are written to the disk from their slots. *)
Wrote(k, a) == /\ k \in Slots /\ valid[k] # 0 /\ a.itype # "Empty"
               /\ din' = [din EXCEPT ![k] = a]
               /\ dino' = [dino EXCEPT ![valid[k]] = a]
WroteBoth(c, j, a, b) ==
    /\ c \in Slots /\ j \in Slots /\ c # j /\ valid[c] # 0 /\ valid[j] # 0
    /\ a.itype # "Empty" /\ b.itype # "Empty"
    /\ din' = [din EXCEPT ![c] = a, ![j] = b]
    /\ dino' = [dino EXCEPT ![valid[c]] = a, ![valid[j]] = b]

(* Valid data of two slots is that of two inodes. *)
LEMMA ValidApart ==
  ASSUME CountInv, LiveInv, NEW i \in Slots, NEW j \in Slots, i # j, valid[i] # 0
  PROVE  valid[i] # valid[j] /\ valid[i] \in Inums
<1>1. ValidInv  BY DEF LiveInv
<1>2. OneSlot /\ valid[i] \in 0 .. NINUM  BY DEF CountInv, TypeOK
<1>3. valid[i] \in Inums  BY <1>2, InodesAssumption DEF Inums
<1>4. refs[i] > 0 /\ valid[i] = inum[i]  BY <1>1 DEF ValidInv
<1>5. valid[j] # 0 => refs[j] > 0 /\ valid[j] = inum[j]  BY <1>1 DEF ValidInv
<1> QED  BY <1>2, <1>3, <1>4, <1>5 DEF OneSlot

(* Both are writes that keep cache and disk together. *)
LEMMA WroteOne ==
  ASSUME CountInv, LiveInv, NEW k, NEW a, Wrote(k, a) PROVE Writes
<1>1. ValidInv  BY DEF LiveInv
<1>2. din \in [Slots -> Dinode] /\ dino \in [Inums -> Dinode] /\ valid[k] \in 0 .. NINUM
  BY DEF CountInv, TypeOK, Wrote
<1>3. k \in Slots /\ valid[k] \in Inums  BY <1>2, InodesAssumption DEF Wrote, Inums
<1>4. ASSUME NEW i \in Slots, valid[i] # 0
      PROVE  din'[i] = dino'[valid[i]] /\ din'[i].itype # "Empty"
  <2>1. CASE i = k  BY <1>2, <1>3, <2>1 DEF Wrote
  <2>2. CASE i # k
    <3>1. valid[i] # valid[k] /\ valid[i] \in Inums  BY <1>3, <1>4, <2>2, ValidApart
    <3>2. din'[i] = din[i] /\ dino'[valid[i]] = dino[valid[i]]
      BY <1>2, <1>3, <2>2, <3>1 DEF Wrote
    <3> QED  BY <1>1, <1>4, <3>2 DEF ValidInv
  <2> QED  BY <2>1, <2>2
<1>5. ASSUME NEW n \in Inums PROVE dino'[n] = dino[n] \/ \E i \in Slots : valid[i] = n
  <2>1. CASE n = valid[k]  BY <1>3, <2>1
  <2>2. CASE n # valid[k]  BY <1>2, <2>2 DEF Wrote
  <2> QED  BY <2>1, <2>2
<1> QED  BY <1>4, <1>5 DEF Writes

(* The same for two. *)
LEMMA WroteTwo ==
  ASSUME CountInv, LiveInv, NEW c, NEW j, NEW a, NEW b, WroteBoth(c, j, a, b) PROVE Writes
<1>1. ValidInv  BY DEF LiveInv
<1>2. din \in [Slots -> Dinode] /\ dino \in [Inums -> Dinode]  BY DEF CountInv, TypeOK
<1>3. c \in Slots /\ j \in Slots /\ c # j /\ valid[c] # 0 /\ valid[j] # 0
      /\ a.itype # "Empty" /\ b.itype # "Empty"
  BY DEF WroteBoth
<1>4. /\ din' = [din EXCEPT ![c] = a, ![j] = b]
      /\ dino' = [dino EXCEPT ![valid[c]] = a, ![valid[j]] = b]
  BY DEF WroteBoth
<1>5. valid[c] # valid[j] /\ valid[c] \in Inums /\ valid[j] \in Inums  BY <1>3, ValidApart
<1>6. ASSUME NEW i \in Slots, valid[i] # 0
      PROVE  din'[i] = dino'[valid[i]] /\ din'[i].itype # "Empty"
  <2>1. CASE i = c
    <3>1. din'[c] = a  BY <1>2, <1>3, <1>4
    <3>2. dino'[valid[c]] = a  BY <1>2, <1>4, <1>5
    <3> QED  BY <1>3, <2>1, <3>1, <3>2
  <2>2. CASE i = j
    <3>1. din'[j] = b  BY <1>2, <1>3, <1>4
    <3>2. dino'[valid[j]] = b  BY <1>2, <1>4, <1>5
    <3> QED  BY <1>3, <2>2, <3>1, <3>2
  <2>3. CASE i # c /\ i # j
    <3>1. valid[i] # valid[c] /\ valid[i] \in Inums  BY <1>3, <1>6, <2>3, ValidApart
    <3>2. valid[i] # valid[j]  BY <1>3, <1>6, <2>3, ValidApart
    <3>3. din'[i] = din[i] /\ dino'[valid[i]] = dino[valid[i]]
      BY <1>2, <1>4, <2>3, <3>1, <3>2
    <3> QED  BY <1>1, <1>6, <3>3 DEF ValidInv
  <2> QED  BY <2>1, <2>2, <2>3
<1>7. ASSUME NEW n \in Inums PROVE dino'[n] = dino[n] \/ \E i \in Slots : valid[i] = n
  <2>1. CASE n = valid[c] \/ n = valid[j]  BY <1>3, <2>1
  <2>2. CASE n # valid[c] /\ n # valid[j]  BY <1>2, <1>4, <2>2
  <2> QED  BY <2>1, <2>2
<1> QED  BY <1>6, <1>7 DEF Writes

(* A step that writes data somebody has locked, away from inode_alloc. *)
LEMMA WriteData ==
  ASSUME CountInv, LiveInv, NEW p \in Procs, Writes, UNCHANGED <<inum, refs, valid, fresh>>,
         pc[p] \notin {"get", "new", "fill"}, pc'[p] \notin {"new", "fill"}
  PROVE  DataGood(p)
<1>1. FreshMoves  BY DEF FreshMoves
<1> QED  BY <1>1, SameGrows, FreshCalm, WritesGood

(* Two slots that p has locked are different. *)
LEMMA TwoLocked ==
  ASSUME CountInv, NEW p \in Procs, drops[p] = <<>>, pc[p] \in {"fill", "unlinked"}
  PROVE  /\ cur[p] \in Slots /\ ino[p] \in Slots /\ cur[p] # ino[p]
         /\ valid[cur[p]] # 0 /\ valid[ino[p]] # 0
<1>1. TypeOK /\ PlaceOK(p)  BY DEF CountInv, PlaceInv
<1>2. cur[p] \in 0 .. NINODE /\ ino[p] \in 0 .. NINODE  BY <1>1 DEF TypeOK
<1>3. cur[p] # 0 /\ ino[p] # 0  BY <1>1 DEF PlaceOK
<1>4. cur[p] \in Slots /\ ino[p] \in Slots  BY <1>2, <1>3, InodesAssumption DEF Slots
<1>5. pc[p] \in CurLocked /\ pc[p] \in InoLocked /\ pc[p] \notin OldLocked
  BY DEF CurLocked, InoLocked, OldLocked
<1>6. valid[cur[p]] # 0 /\ valid[ino[p]] # 0  BY <1>4, <1>5, LockedValid
<1>7. cur[p] # ino[p]
  <2>1. SUFFICES ASSUME cur[p] = ino[p] PROVE FALSE  OBVIOUS
  <2>2. PlaceLocks(p, cur[p]) = 2  BY <1>5, <2>1 DEF PlaceLocks, AtPlace, Bit
  <2>3. Locks(p, cur[p]) = PlaceLocks(p, cur[p])  BY <1>4, CalmCounts
  <2>4. Locks(p, cur[p]) \in {0, 1}  BY <1>4 DEF CountInv, LockInv, Bit
  <2> QED  BY <2>2, <2>3, <2>4
<1> QED  BY <1>4, <1>6, <1>7

(* create writes both inodes. *)
LEMMA CreateFillData ==
  ASSUME CountInv, LiveInv, NEW p \in Procs, CreateFill(p) PROVE DataGood(p)
<1> DEFINE c == cur[p]
           j == ino[p]
           isdir == call[p].op = "mkdir"
           parent == [din[c] EXCEPT !.nlink = ParentLink(c, isdir)]
           made == [din[j] EXCEPT !.nlink = 1]
<1>1. TypeOK /\ pc[p] = "fill" /\ drops[p] = <<>>  BY RunningIs DEF CreateFill
<1>2. /\ din' = [din EXCEPT ![c] = parent, ![j] = made]
      /\ dino' = [dino EXCEPT ![valid[c]] = parent, ![valid[j]] = made]
      /\ fresh' = [fresh EXCEPT ![p] = 0] /\ pc' = [pc EXCEPT ![p] = "made"]
      /\ UNCHANGED <<inum, refs, valid>>
  BY DEF CreateFill, Goto
<1>3. c \in Slots /\ j \in Slots /\ c # j /\ valid[c] # 0 /\ valid[j] # 0  BY <1>1, TwoLocked
<1>4. parent.itype # "Empty" /\ made.itype # "Empty"
  <2>1. din[c] \in Dinode /\ din[j] \in Dinode  BY <1>1, <1>3 DEF TypeOK
  <2>2. ParentLink(c, isdir) \in Int  BY <2>1 DEF ParentLink, Dinode
  <2>3. parent.itype = din[c].itype /\ made.itype = din[j].itype  BY <2>1, <2>2, NlinkIs
  <2>4. din[c].itype # "Empty" /\ din[j].itype # "Empty"  BY <1>3 DEF LiveInv, ValidInv
  <2> QED  BY <2>3, <2>4
<1> HIDE DEF parent, made
<1>5. WroteBoth(c, j, parent, made)  BY <1>2, <1>3, <1>4 DEF WroteBoth
<1>6. Writes  BY <1>5, WroteTwo
<1>7. fresh \in [Procs -> 0 .. NINUM] /\ pc \in [Procs -> PCs]  BY <1>1 DEF TypeOK
<1>8. pc'[p] = "made" /\ fresh'[p] = 0 /\ \A r \in Procs : r # p => fresh'[r] = fresh[r]
  BY <1>2, <1>7
<1>9. FreshAt(p)'  BY <1>8 DEF FreshAt
<1>10. valid[j] = fresh[p]
  <2>1. inum[j] = fresh[p]  BY <1>1 DEF LiveInv, FreshInv, FreshAt
  <2> QED  BY <1>3, <2>1 DEF LiveInv, ValidInv
<1>11. FreshMoves  BY <1>3, <1>8, <1>10 DEF FreshMoves
<1> QED  BY <1>2, <1>6, <1>9, <1>11, SameGrows, WritesGood

(* dir_unlink writes both, or nothing. *)
LEMMA DirUnlinkData ==
  ASSUME CountInv, LiveInv, NEW p \in Procs, DirUnlink(p) PROVE DataGood(p)
<1> DEFINE c == cur[p]
           j == ino[p]
           parent == [din[c] EXCEPT !.nlink =
                          IF din[j].itype = "Directory" THEN @ - 1 ELSE @]
           child == [din[j] EXCEPT !.nlink = @ - 1]
<1>1. TypeOK /\ pc[p] = "unlinked" /\ drops[p] = <<>>  BY RunningIs DEF DirUnlink
<1>2. /\ UNCHANGED <<inum, refs, valid, fresh>> /\ pc' = [pc EXCEPT ![p] = "user"]
  BY DEF DirUnlink, SysUnlink, Return, Goto
<1>3. \/ UNCHANGED <<din, dino>>
      \/ /\ din' = [din EXCEPT ![c] = parent, ![j] = child]
         /\ dino' = [dino EXCEPT ![valid[c]] = parent, ![valid[j]] = child]
  BY DEF DirUnlink, disk
<1>4. c \in Slots /\ j \in Slots /\ c # j /\ valid[c] # 0 /\ valid[j] # 0  BY <1>1, TwoLocked
<1>5. pc'[p] = "user"  BY <1>1, <1>2 DEF TypeOK
<1>6. parent.itype # "Empty" /\ child.itype # "Empty"
  <2>1. din[c] \in Dinode /\ din[j] \in Dinode  BY <1>1, <1>4 DEF TypeOK
  <2>2. parent.itype = din[c].itype /\ child.itype = din[j].itype  BY <2>1 DEF Dinode
  <2>3. din[c].itype # "Empty" /\ din[j].itype # "Empty"  BY <1>4 DEF LiveInv, ValidInv
  <2> QED  BY <2>2, <2>3
<1> HIDE DEF parent, child
<1>7. CASE UNCHANGED <<din, dino>>  BY <1>1, <1>2, <1>5, <1>7, SameGrows, CallData
<1>8. CASE /\ din' = [din EXCEPT ![c] = parent, ![j] = child]
           /\ dino' = [dino EXCEPT ![valid[c]] = parent, ![valid[j]] = child]
  <2>1. WroteBoth(c, j, parent, child)  BY <1>4, <1>6, <1>8 DEF WroteBoth
  <2>2. Writes  BY <2>1, WroteTwo
  <2> QED  BY <1>1, <1>2, <1>5, <2>2, WriteData
<1> QED  BY <1>3, <1>7, <1>8

(* A link count goes up or down. *)
LEMMA RelinkWrites ==
  ASSUME CountInv, LiveInv, NEW k \in Slots, valid[k] # 0, NEW n \in Int, Relink(k, n)
  PROVE  Writes
<1> DEFINE a == [din[k] EXCEPT !.nlink = n]
<1>1. din \in [Slots -> Dinode]  BY DEF CountInv, TypeOK
<1>2. din' = [din EXCEPT ![k] = a] /\ dino' = [dino EXCEPT ![valid[k]] = din'[k]]
  BY DEF Relink
<1>3. din[k] \in Dinode /\ din[k].itype # "Empty"  BY <1>1 DEF LiveInv, ValidInv
<1>4. a.itype # "Empty"  BY <1>3, NlinkIs
<1> HIDE DEF a
<1>5. din'[k] = a  BY <1>1, <1>2
<1>6. Wrote(k, a)  BY <1>2, <1>4, <1>5 DEF Wrote
<1> QED  BY <1>6, WroteOne

(* sys_link counts a link, and takes it back. *)
LEMMA LinkData ==
  ASSUME CountInv, LiveInv, NEW p \in Procs, LinkOld(p) \/ RevertLink(p) PROVE DataGood(p)
<1>1. PICK at \in {"link", "reverting"} : Running(p, at)  BY DEF LinkOld, RevertLink
<1>2. TypeOK /\ PlaceOK(p) /\ pc[p] = at /\ drops[p] = <<>>
  <2>1. at # "gone"  BY <1>1
  <2> QED  BY <1>1, <2>1, RunningIs
<1>3. cur[p] \in 0 .. NINODE /\ old[p] \in 0 .. NINODE /\ din \in [Slots -> Dinode]
      /\ pc \in [Procs -> PCs]
  BY <1>2 DEF TypeOK
<1>4. \A i \in Slots : din[i].nlink \in Int  BY <1>3 DEF Dinode
<1>5. UNCHANGED <<inum, refs, valid, fresh>>  BY DEF LinkOld, RevertLink, Return
<1>6. pc'[p] \in {"user", "start"}
  <2>1. pc' = [pc EXCEPT ![p] = "user"] \/ pc' = [pc EXCEPT ![p] = "start"]
    BY DEF LinkOld, RevertLink, Return, Goto
  <2> QED  BY <1>3, <2>1
<1>7. CASE UNCHANGED <<din, dino>>  BY <1>1, <1>2, <1>5, <1>6, <1>7, SameGrows, CallData
<1>8. CASE LinkOld(p) /\ Relink(cur[p], din[cur[p]].nlink + 1)
  <2>1. pc[p] = "link"  BY <1>8 DEF LinkOld, Running
  <2>2. cur[p] # 0 /\ pc[p] \in CurLocked  BY <1>2, <2>1 DEF PlaceOK, CurLocked
  <2>3. cur[p] \in Slots  BY <1>3, <2>2, InodesAssumption DEF Slots
  <2>4. valid[cur[p]] # 0  BY <1>2, <2>2, <2>3, LockedValid
  <2>5. din[cur[p]].nlink + 1 \in Int  BY <1>4, <2>3
  <2>6. Writes  BY <1>8, <2>3, <2>4, <2>5, RelinkWrites
  <2> QED  BY <1>1, <1>2, <1>5, <1>6, <2>6, WriteData
<1>9. CASE RevertLink(p) /\ Relink(old[p], din[old[p]].nlink - 1)
  <2>1. pc[p] = "reverting"  BY <1>9 DEF RevertLink, Running
  <2>2. old[p] # 0 /\ pc[p] \in OldLocked  BY <1>2, <2>1 DEF PlaceOK, OldLocked
  <2>3. old[p] \in Slots  BY <1>3, <2>2, InodesAssumption DEF Slots
  <2>4. valid[old[p]] # 0  BY <1>2, <2>2, <2>3, LockedValid
  <2>5. din[old[p]].nlink - 1 \in Int  BY <1>4, <2>3
  <2>6. Writes  BY <1>9, <2>3, <2>4, <2>5, RelinkWrites
  <2> QED  BY <1>1, <1>2, <1>5, <1>6, <2>6, WriteData
<1>10. \/ UNCHANGED <<din, dino>>
       \/ LinkOld(p) /\ Relink(cur[p], din[cur[p]].nlink + 1)
       \/ RevertLink(p) /\ Relink(old[p], din[old[p]].nlink - 1)
  BY DEF LinkOld, RevertLink
<1> QED  BY <1>7, <1>8, <1>9, <1>10

(* Inode::lock reads data that is not valid yet; it panics if the inode    *)
(* has been freed.                                                         *)
LEMMA LockData ==
  ASSUME CountInv, LiveInv, NEW p \in Procs, panicked' = None, Lock(p) PROVE DataGood(p)
<1> DEFINE k == LockTarget(p)
<1>1. k \in Slots /\ k \in {cur[p], ino[p], old[p]}  BY LockAt
<1>2. /\ UNCHANGED <<inum, refs, dino, fresh, ino, drops>> /\ pc' = [pc EXCEPT ![p] = Locked(p)]
      /\ Locking(p)
      /\ \/ UNCHANGED <<valid, din>>
         \/ /\ valid[k] = 0
            /\ valid' = [valid EXCEPT ![k] = inum[k]]
            /\ din' = [din EXCEPT ![k] = dino[inum[k]]]
            /\ dino[inum[k]].itype = "Empty" => panicked' = "empty inode"
  BY DEF Lock, disk, Goto
<1> HIDE DEF k
<1>3. refs[k] > 0 /\ inum[k] # 0  BY <1>1, HandleCounts
<1>4. FreshAt(p)'
  <2>1. drops[p] = <<>> /\ pc[p] \in {"found", "new", "child", "revert", "walk", "made"}
    BY <1>2 DEF Locking
  <2>2. FreshAt(p)  BY DEF LiveInv, FreshInv
  <2>3. pc \in [Procs -> PCs]  BY DEF CountInv, TypeOK
  <2>4. pc'[p] = Locked(p)  BY <1>2, <2>3
  <2>5. CASE pc[p] = "new"
    <3>1. Locked(p) = "fill"  BY <2>5 DEF Locked
    <3> QED  BY <1>2, <2>1, <2>2, <2>4, <2>5, <3>1 DEF FreshAt
  <2>6. CASE pc[p] # "new"
    <3>1. Locked(p) \notin {"new", "fill"}  BY <2>1, <2>6 DEF Locked
    <3> QED  BY <1>2, <2>1, <2>4, <2>6, <3>1, FreshCalm
  <2> QED  BY <2>5, <2>6
<1>5. CASE UNCHANGED <<valid, din>>  BY <1>2, <1>4, <1>5, SameGrows, CalmData
<1>6. CASE /\ valid[k] = 0
           /\ valid' = [valid EXCEPT ![k] = inum[k]]
           /\ din' = [din EXCEPT ![k] = dino[inum[k]]]
           /\ dino[inum[k]].itype = "Empty" => panicked' = "empty inode"
  <2>1. dino[inum[k]].itype # "Empty"  BY <1>6 DEF None
  <2>2. valid \in [Slots -> 0 .. NINUM] /\ din \in [Slots -> Dinode]  BY DEF CountInv, TypeOK
  <2>3. valid'[k] = inum[k] /\ din'[k] = dino[inum[k]]  BY <1>1, <1>6, <2>2
  <2>4. \A i \in Slots : i # k => valid'[i] = valid[i] /\ din'[i] = din[i]  BY <1>6, <2>2
  <2>5. ValidInv'
    <3>1. ASSUME NEW i \in Slots, valid'[i] # 0
          PROVE  /\ refs'[i] > 0 /\ valid'[i] = inum'[i]
                 /\ din'[i] = dino'[inum'[i]] /\ din'[i].itype # "Empty"
      <4>1. CASE i = k  BY <1>2, <1>3, <2>1, <2>3, <4>1
      <4>2. CASE i # k
        <5>1. valid[i] # 0  BY <2>4, <3>1, <4>2
        <5> QED  BY <1>2, <2>4, <4>2, <5>1 DEF LiveInv, ValidInv
      <4> QED  BY <4>1, <4>2
    <3> QED  BY <3>1 DEF ValidInv
  <2>6. OrphanInv'
    <3>1. ASSUME NEW n \in Inums, dino[n].itype # "Empty", dino[n].nlink = 0
          PROVE  (\E r \in Procs : fresh[r] = n) \/ \E i \in Slots : valid'[i] = n
      <4>1. (\E r \in Procs : fresh[r] = n) \/ \E i \in Slots : valid[i] = n
        BY <3>1 DEF LiveInv, OrphanInv
      <4>2. n # 0  BY InodesAssumption DEF Inums
      <4>3. ASSUME NEW i \in Slots, valid[i] = n PROVE valid'[i] = n
        BY <1>6, <2>4, <4>2, <4>3
      <4> QED  BY <4>1, <4>3
    <3> QED  BY <1>2, <3>1 DEF OrphanInv
  <2>7. Steady(p)  BY <1>2 DEF Steady
  <2>8. StaysFreed(p)
    <3>1. ASSUME NEW q \in Procs, NEW i \in Slots, q # p, Freeing(q, i)
          PROVE  valid'[i] = 0 /\ dino'[inum[i]].itype = "Empty"
      <4>1. valid[i] = 0 /\ dino[inum[i]].itype = "Empty"  BY <3>1 DEF LiveInv, FreedInv
      <4>2. i # k  BY <2>1, <4>1
      <4> QED  BY <1>2, <2>4, <4>1, <4>2
    <3> QED  BY <3>1 DEF StaysFreed
  <2> QED  BY <1>4, <2>5, <2>6, <2>7, <2>8 DEF DataGood
<1> QED  BY <1>2, <1>5, <1>6

(* inode_alloc takes an empty inode that no put has still to give up. *)
LEMMA AllocData ==
  ASSUME CountInv, LiveInv, NEW p \in Procs, ~Reuses(p), panicked' = None, InodeAlloc(p)
  PROVE  DataGood(p)
<1>1. TypeOK /\ pc[p] = "alloc"  BY RunningIs DEF InodeAlloc
<1>2. UNCHANGED <<inum, refs, valid, din>> /\ pc' = [pc EXCEPT ![p] = "get"]
  BY DEF InodeAlloc, cache, Goto
<1>3. PICK n \in Inums :
        /\ fresh' = [fresh EXCEPT ![p] = n]
        /\ dino' = [dino EXCEPT ![n] = [itype |-> TypeOf(call[p]), nlink |-> 0]]
        /\ dino[n].itype = "Empty"
  BY AllocIs
<1>4. fresh \in [Procs -> 0 .. NINUM] /\ dino \in [Inums -> Dinode] /\ pc \in [Procs -> PCs]
  BY <1>1 DEF TypeOK
<1>5. fresh'[p] = n /\ \A r \in Procs : r # p => fresh'[r] = fresh[r]  BY <1>3, <1>4
<1>6. \A m \in Inums : m # n => dino'[m] = dino[m]  BY <1>3, <1>4
<1>7. fresh[p] = 0  BY <1>1 DEF LiveInv, FreshInv, FreshAt
<1>8. ValidInv'
  <2>1. ASSUME NEW i \in Slots, valid'[i] # 0
        PROVE  /\ refs'[i] > 0 /\ valid'[i] = inum'[i]
               /\ din'[i] = dino'[inum'[i]] /\ din'[i].itype # "Empty"
    <3>1. /\ valid[i] # 0 /\ refs[i] > 0 /\ valid[i] = inum[i]
          /\ din[i] = dino[inum[i]] /\ din[i].itype # "Empty"
      BY <1>2, <2>1 DEF LiveInv, ValidInv
    <3>2. inum[i] # n  BY <1>3, <3>1
    <3>3. inum[i] \in Inums
      <4>1. inum[i] \in 0 .. NINUM  BY <1>1 DEF TypeOK
      <4> QED  BY <3>1, <4>1, InodesAssumption DEF Inums
    <3>4. dino'[inum[i]] = dino[inum[i]]  BY <1>6, <3>2, <3>3
    <3> QED  BY <1>2, <3>1, <3>4
  <2> QED  BY <2>1 DEF ValidInv
<1>9. OrphanInv'
  <2>1. ASSUME NEW m \in Inums, dino'[m].itype # "Empty", dino'[m].nlink = 0
        PROVE  (\E r \in Procs : fresh'[r] = m) \/ \E i \in Slots : valid'[i] = m
    <3>1. CASE m = n  BY <1>5, <3>1
    <3>2. CASE m # n
      <4>1. (\E r \in Procs : fresh[r] = m) \/ \E i \in Slots : valid[i] = m
        BY <1>6, <2>1, <3>2 DEF LiveInv, OrphanInv
      <4>2. m # 0  BY InodesAssumption DEF Inums
      <4>3. ASSUME NEW r \in Procs, fresh[r] = m PROVE fresh'[r] = m
        BY <1>5, <1>7, <4>2, <4>3
      <4> QED  BY <1>2, <4>1, <4>3
    <3> QED  BY <3>1, <3>2
  <2> QED  BY <2>1 DEF OrphanInv
<1>10. Steady(p)  BY <1>2 DEF Steady
<1>11. StaysFreed(p)
  <2>1. ASSUME NEW q \in Procs, NEW i \in Slots, q # p, Freeing(q, i)
        PROVE  valid'[i] = 0 /\ dino'[inum[i]].itype = "Empty"
    <3>1. valid[i] = 0 /\ dino[inum[i]].itype = "Empty"  BY <2>1 DEF LiveInv, FreedInv
    <3>2. inum[i] \in Inums  BY <2>1, FreeingHandle
    <3>3. inum[i] # 0  BY <3>2, InodesAssumption DEF Inums
    <3>4. inum[i] # n  BY <1>5, <1>7, <2>1, <3>3 DEF Reuses
    <3> QED  BY <1>2, <1>6, <3>1, <3>2, <3>4
  <2> QED  BY <2>1 DEF StaysFreed
<1>12. FreshAt(p)'
  <2>1. pc'[p] = "get"  BY <1>2, <1>4
  <2> QED  BY <2>1 DEF FreshAt
<1> QED  BY <1>8, <1>9, <1>10, <1>11, <1>12 DEF DataGood

(* What a put has at the head of its queue. *)
LEMMA PutAt ==
  ASSUME CountInv, QueueInv, NEW p \in Procs, NEW k \in Refers, Drops(p, k)
  PROVE  /\ Head(drops[p]).i \in Slots /\ Head(drops[p]).k = k /\ drops[p] # <<>>
         /\ Head(drops[p]) \in Item
         /\ Handles(p, Head(drops[p]).i) > 0
         /\ refs[Head(drops[p]).i] \in Nat /\ refs[Head(drops[p]).i] > 0
         /\ inum[Head(drops[p]).i] \in Inums
<1> DEFINE s == drops[p]
           i == Head(s).i
<1>1. s \in Seq(Item) /\ s # <<>> /\ Head(s) \in Item /\ Head(s).k = k /\ i \in 0 .. NINODE
  BY HeadIs
<1>2. i # 0
  <2>1. 1 \in 1 .. Len(s) /\ Head(s) = s[1]  BY <1>1
  <2> QED  BY <1>1, <2>1 DEF QueueInv, Sound, SoundItem, Refers
<1>3. i \in Slots  BY <1>1, <1>2, InodesAssumption DEF Slots
<1> QED  BY <1>1, <1>3, HeadHandle

(* put gives up a handle: the data of the last one is forgotten unless the *)
(* inode is to be freed.                                                   *)
LEMMA PutData ==
  ASSUME CountInv, QueueInv, LiveInv, NEW p \in Procs, Put(p) PROVE DataGood(p)
<1> DEFINE k == Head(drops[p]).i
<1>1. /\ k \in Slots /\ drops[p] # <<>> /\ Handles(p, k) > 0 /\ refs[k] \in Nat
  <2>1. "ref" \in Refers /\ Drops(p, "ref")  BY DEF Refers, Put
  <2> QED  BY <2>1, PutAt
<1>2. /\ UNCHANGED <<dino, fresh, pc>>
      /\ inum' = [inum EXCEPT ![k] = IF refs'[k] = 0 THEN 0 ELSE @]
      /\ \/ /\ refs[k] > 1 /\ refs' = [refs EXCEPT ![k] = @ - 1]
            /\ UNCHANGED <<valid, din>>
         \/ /\ refs[k] = 1 /\ (valid[k] = 0 \/ din[k].nlink > 0)
            /\ valid' = [valid EXCEPT ![k] = 0] /\ din' = [din EXCEPT ![k] = Empty]
            /\ refs' = [refs EXCEPT ![k] = 0]
         \/ refs[k] = 1 /\ UNCHANGED <<refs, valid, din>>
  BY DEF Put, disk, prog
<1> HIDE DEF k
<1>3. /\ inum \in [Slots -> 0 .. NINUM] /\ refs \in [Slots -> Int]
      /\ valid \in [Slots -> 0 .. NINUM] /\ din \in [Slots -> Dinode]
  BY DEF CountInv, TypeOK
<1>4. FreshAt(p)'  BY <1>1, <1>2, FreshHead
<1>5. CASE /\ refs[k] > 1 /\ refs' = [refs EXCEPT ![k] = @ - 1]
           /\ UNCHANGED <<valid, din>>
  <2>1. refs'[k] = refs[k] - 1 /\ refs'[k] > 0  BY <1>1, <1>3, <1>5
  <2>2. inum' = inum  BY <1>1, <1>2, <1>3, <2>1
  <2>3. \A i \in Slots : i # k => refs'[i] = refs[i]  BY <1>3, <1>5
  <2>4. Grows  BY <2>1, <2>2, <2>3 DEF Grows
  <2> QED  BY <1>2, <1>4, <1>5, <2>4, CalmData
<1>6. CASE refs[k] = 1 /\ UNCHANGED <<refs, valid, din>>
  <2>1. inum' = inum  BY <1>1, <1>2, <1>3, <1>6
  <2> QED  BY <1>2, <1>4, <1>6, <2>1, SameGrows, CalmData
<1>7. CASE /\ refs[k] = 1 /\ (valid[k] = 0 \/ din[k].nlink > 0)
           /\ valid' = [valid EXCEPT ![k] = 0] /\ din' = [din EXCEPT ![k] = Empty]
           /\ refs' = [refs EXCEPT ![k] = 0]
  <2>1. valid'[k] = 0  BY <1>1, <1>3, <1>7
  <2>2. \A i \in Slots : i # k => /\ valid'[i] = valid[i] /\ din'[i] = din[i]
                                  /\ refs'[i] = refs[i] /\ inum'[i] = inum[i]
    BY <1>2, <1>3, <1>7
  <2>3. ValidInv'
    <3>1. ASSUME NEW i \in Slots, valid'[i] # 0
          PROVE  /\ refs'[i] > 0 /\ valid'[i] = inum'[i]
                 /\ din'[i] = dino'[inum'[i]] /\ din'[i].itype # "Empty"
      <4>1. i # k  BY <2>1, <3>1
      <4>2. valid[i] # 0  BY <2>2, <3>1, <4>1
      <4> QED  BY <1>2, <2>2, <4>1, <4>2 DEF LiveInv, ValidInv
    <3> QED  BY <3>1 DEF ValidInv
  <2>4. OrphanInv'
    <3>1. ASSUME NEW n \in Inums, dino[n].itype # "Empty", dino[n].nlink = 0
          PROVE  (\E r \in Procs : fresh[r] = n) \/ \E i \in Slots : valid'[i] = n
      <4>1. (\E r \in Procs : fresh[r] = n) \/ \E i \in Slots : valid[i] = n
        BY <3>1 DEF LiveInv, OrphanInv
      <4>2. n # 0  BY InodesAssumption DEF Inums
      <4>3. ASSUME NEW i \in Slots, valid[i] = n PROVE valid'[i] = n
        <5>1. CASE i # k  BY <2>2, <4>3, <5>1
        <5>2. CASE i = k
          <6>1. valid[k] # 0 /\ valid[k] = n  BY <4>2, <4>3, <5>2
          <6>2. din[k] = dino[n]  BY <1>1, <6>1 DEF LiveInv, ValidInv
          <6> QED  BY <1>7, <3>1, <6>1, <6>2
        <5> QED  BY <5>1, <5>2
      <4> QED  BY <4>1, <4>3
    <3> QED  BY <1>2, <3>1 DEF OrphanInv
  <2>5. Steady(p)  BY <1>1, <1>7, <2>2 DEF Steady
  <2>6. StaysFreed(p)
    <3>1. ASSUME NEW q \in Procs, NEW i \in Slots, q # p, Freeing(q, i)
          PROVE  valid'[i] = 0 /\ dino'[inum[i]].itype = "Empty"
      <4>1. valid[i] = 0 /\ dino[inum[i]].itype = "Empty"  BY <3>1 DEF LiveInv, FreedInv
      <4>2. valid'[i] = 0  BY <2>1, <2>2, <4>1
      <4> QED  BY <1>2, <4>1, <4>2
    <3> QED  BY <3>1 DEF StaysFreed
  <2> QED  BY <1>4, <2>3, <2>4, <2>5, <2>6 DEF DataGood
<1> QED  BY <1>2, <1>5, <1>6, <1>7

(* The second locked part of put gives up the slot of a freed inode. *)
LEMMA PutDerefData ==
  ASSUME CountInv, QueueInv, LiveInv, NEW p \in Procs, PutDeref(p) PROVE DataGood(p)
<1> DEFINE k == Head(drops[p]).i
<1>1. /\ k \in Slots /\ drops[p] # <<>> /\ Handles(p, k) > 0 /\ refs[k] \in Nat
      /\ Head(drops[p]) \in Item /\ Head(drops[p]).k = "deref"
  <2>1. "deref" \in Refers /\ Drops(p, "deref")  BY DEF Refers, PutDeref
  <2> QED  BY <2>1, PutAt
<1>2. /\ UNCHANGED <<dino, fresh, pc, valid, din>>
      /\ inum' = [inum EXCEPT ![k] = IF refs'[k] = 0 THEN 0 ELSE @]
      /\ refs' = [refs EXCEPT ![k] = @ - 1]
  BY DEF PutDeref, disk, prog
<1>3. Freeing(p, k)
  <2>1. Head(drops[p]) = Deref(k)  BY <1>1 DEF Item, Deref
  <2> QED  BY <1>1, <2>1 DEF Freeing
<1> HIDE DEF k
<1>4. valid[k] = 0  BY <1>1, <1>3 DEF LiveInv, FreedInv
<1>5. inum \in [Slots -> 0 .. NINUM] /\ refs \in [Slots -> Int]  BY DEF CountInv, TypeOK
<1>6. FreshAt(p)'  BY <1>1, <1>2, FreshHead
<1>7. \A i \in Slots : i # k => refs'[i] = refs[i] /\ inum'[i] = inum[i]  BY <1>2, <1>5
<1>8. ValidInv'
  <2>1. ASSUME NEW i \in Slots, valid'[i] # 0
        PROVE  /\ refs'[i] > 0 /\ valid'[i] = inum'[i]
               /\ din'[i] = dino'[inum'[i]] /\ din'[i].itype # "Empty"
    <3>1. i # k /\ valid[i] # 0  BY <1>2, <1>4, <2>1
    <3> QED  BY <1>2, <1>7, <3>1 DEF LiveInv, ValidInv
  <2> QED  BY <2>1 DEF ValidInv
<1>9. OrphanInv'
  <2>1. OrphanInv  BY DEF LiveInv
  <2> QED  BY <1>2, <2>1 DEF OrphanInv
<1>10. Steady(p)
  <2>1. inum'[k] = inum[k] \/ refs[k] = 1
    <3>1. refs'[k] = refs[k] - 1  BY <1>1, <1>2, <1>5
    <3>2. refs'[k] # 0 => inum'[k] = inum[k]  BY <1>1, <1>2, <1>5
    <3> QED  BY <1>1, <3>1, <3>2
  <2> QED  BY <1>1, <1>7, <2>1 DEF Steady
<1>11. StaysFreed(p)
  <2>1. FreedInv  BY DEF LiveInv
  <2> QED  BY <1>2, <2>1 DEF FreedInv, StaysFreed
<1> QED  BY <1>6, <1>8, <1>9, <1>10, <1>11 DEF DataGood

(* put frees an inode: no other slot has its data. *)
LEMMA PutTruncateData ==
  ASSUME CountInv, QueueInv, LiveInv, NEW p \in Procs, PutTruncate(p)
  PROVE  DataGood(p) /\ \A i \in Slots : Freeing(p, i)' =>
                            valid'[i] = 0 /\ dino'[inum'[i]].itype = "Empty"
<1> DEFINE h == Head(drops[p])
           t == Tail(drops[p])
           k == h.i
<1>1. /\ k \in Slots /\ drops[p] # <<>> /\ h.k = "trunc" /\ h \in Item
  <2>1. "trunc" \in Refers /\ Drops(p, "trunc")  BY DEF Refers, PutTruncate
  <2> QED  BY <2>1, PutAt
<1>2. /\ UNCHANGED <<inum, refs, fresh, pc>>
      /\ din' = [din EXCEPT ![k] = Empty] /\ dino' = [dino EXCEPT ![valid[k]] = Empty]
      /\ valid' = [valid EXCEPT ![k] = 0]
      /\ Dropping(p, <<Guard(k), Deref(k)>> \o t)
  BY DEF PutTruncate, prog
<1>3. /\ drops[p] \in Seq(Item) /\ Len(drops[p]) <= 6 /\ t \in Seq(Item) /\ k \in 0 .. NINODE
  BY HeadIs DEF PutTruncate
<1>4. valid[k] # 0
  <2>1. Len(drops[p]) <= 8  BY <1>3
  <2>2. InQueue(drops[p], k, Claims) = One(h, k, Claims) + InQueue(t, k, Claims)
    BY <1>1, <1>3, <2>1, TailCount
  <2>3. One(h, k, Claims) = 1  BY <1>1 DEF One, Claims
  <2>4. InQueue(t, k, Claims) \in Nat  BY CountNat
  <2>5. PlaceLocks(p, k) \in Nat  BY DEF PlaceLocks, AtPlace, Bit
  <2>6. Locks(p, k) # 0  BY <2>2, <2>3, <2>4, <2>5 DEF Locks
  <2>7. owner[k] = p  BY <1>1, <2>6 DEF CountInv, LockInv, Bit
  <2>8. p # None  BY InodesAssumption
  <2> QED  BY <1>1, <2>7, <2>8 DEF CountInv, SlotInv
<1>5. drops'[p] # <<>> /\ Head(drops'[p]) = Deref(k)
  <2> DEFINE a == Guard(k)
             b == Deref(k)
  <2>1. a \in Item /\ b \in Item /\ a.k = "guard"  BY <1>3, ItemsAre DEF Guard
  <2>2. Dropping(p, <<a, b>> \o t)  BY <1>2
  <2> HIDE DEF a, b, h, t, k
  <2>3. <<a, b>> \o t # <<>> /\ Head(<<a, b>> \o t) = a /\ Tail(<<a, b>> \o t) = <<b>> \o t
    BY <1>3, <2>1, TruncQueue
  <2>4. drops' = [drops EXCEPT ![p] = <<b>> \o t]  BY <2>1, <2>2, <2>3 DEF Dropping, Queue
  <2>5. drops \in [Procs -> Seq(Item)]  BY DEF CountInv, TypeOK
  <2>6. drops'[p] = <<b>> \o t  BY <2>4, <2>5
  <2>7. <<b>> \o t # <<>> /\ Head(<<b>> \o t) = b
    <3>1. <<b>> \in Seq(Item) /\ Len(<<b>>) = 1 /\ <<b>>[1] = b  BY <2>1
    <3>2. Len(<<b>> \o t) = 1 + Len(t) /\ (<<b>> \o t)[1] = b /\ <<b>> \o t \in Seq(Item)
          /\ Len(t) \in Nat
      BY <1>3, <2>1, <3>1
    <3> QED  BY <3>2
  <2> QED  BY <2>6, <2>7 DEF b
<1> HIDE DEF h, t, k
<1>6. /\ valid \in [Slots -> 0 .. NINUM] /\ din \in [Slots -> Dinode]
      /\ dino \in [Inums -> Dinode] /\ valid[k] \in Inums
  <2>1. valid \in [Slots -> 0 .. NINUM] /\ din \in [Slots -> Dinode] /\ dino \in [Inums -> Dinode]
    BY DEF CountInv, TypeOK
  <2> QED  BY <1>1, <1>4, <2>1, InodesAssumption DEF Inums
<1>7. /\ valid'[k] = 0 /\ dino'[valid[k]] = Empty
      /\ \A i \in Slots : i # k => valid'[i] = valid[i] /\ din'[i] = din[i]
      /\ \A n \in Inums : n # valid[k] => dino'[n] = dino[n]
  BY <1>1, <1>2, <1>6
<1>8. valid[k] = inum[k]  BY <1>1, <1>4 DEF LiveInv, ValidInv
<1>9. ValidInv'
  <2>1. ASSUME NEW i \in Slots, valid'[i] # 0
        PROVE  /\ refs'[i] > 0 /\ valid'[i] = inum'[i]
               /\ din'[i] = dino'[inum'[i]] /\ din'[i].itype # "Empty"
    <3>1. i # k /\ valid[i] # 0  BY <1>7, <2>1
    <3>2. valid[i] # valid[k] /\ valid[i] \in Inums  BY <1>1, <3>1, ValidApart
    <3>3. dino'[valid[i]] = dino[valid[i]]  BY <1>7, <3>2
    <3> QED  BY <1>2, <1>7, <3>1, <3>3 DEF LiveInv, ValidInv
  <2> QED  BY <2>1 DEF ValidInv
<1>10. OrphanInv'
  <2>1. ASSUME NEW n \in Inums, dino'[n].itype # "Empty", dino'[n].nlink = 0
        PROVE  (\E r \in Procs : fresh[r] = n) \/ \E i \in Slots : valid'[i] = n
    <3>1. n # valid[k]  BY <1>7, <2>1 DEF Empty
    <3>2. dino'[n] = dino[n]  BY <1>7, <3>1
    <3>3. (\E r \in Procs : fresh[r] = n) \/ \E i \in Slots : valid[i] = n
      BY <2>1, <3>2 DEF LiveInv, OrphanInv
    <3>4. ASSUME NEW i \in Slots, valid[i] = n PROVE valid'[i] = n  BY <1>7, <3>1, <3>4
    <3> QED  BY <3>3, <3>4
  <2> QED  BY <1>2, <2>1 DEF OrphanInv
<1>11. Steady(p)  BY <1>2 DEF Steady
<1>12. StaysFreed(p)
  <2>1. ASSUME NEW q \in Procs, NEW i \in Slots, q # p, Freeing(q, i)
        PROVE  valid'[i] = 0 /\ dino'[inum[i]].itype = "Empty"
    <3>1. valid[i] = 0 /\ dino[inum[i]].itype = "Empty"  BY <2>1 DEF LiveInv, FreedInv
    <3>2. inum[i] \in Inums  BY <2>1, FreeingHandle
    <3>3. i # k  BY <1>4, <3>1
    <3>4. dino'[inum[i]].itype = "Empty"  BY <1>7, <3>1, <3>2 DEF Empty
    <3> QED  BY <1>7, <3>1, <3>3, <3>4
  <2> QED  BY <2>1 DEF StaysFreed
<1>13. FreshAt(p)'  BY <1>1, <1>2, FreshHead
<1>14. ASSUME NEW i \in Slots, Freeing(p, i)'
       PROVE  valid'[i] = 0 /\ dino'[inum'[i]].itype = "Empty"
  <2>1. Deref(i) = Deref(k)  BY <1>5, <1>14 DEF Freeing
  <2>2. Deref(i).i = i /\ Deref(k).i = k  BY DEF Deref
  <2>3. i = k  BY <2>1, <2>2
  <2> QED  BY <1>2, <1>7, <1>8, <2>3 DEF Empty
<1> QED  BY <1>9, <1>10, <1>11, <1>12, <1>13, <1>14 DEF DataGood

(* Every step keeps cached data current. *)
LEMMA StepData ==
  ASSUME CountInv, QueueInv, LiveInv, NEW p \in Procs, Step(p), ~Reuses(p), panicked' = None
  PROVE  DataGood(p)
<1>1. CASE \/ \E c \in menu : Enter(p, c)
           \/ SysClose(p) \/ CloseFiles(p) \/ NamexEnd(p) \/ SysMkdir(p) \/ SysMknod(p)
           \/ Opened(p) \/ SysChdir(p)
  BY <1>1, PlainData
<1>2. CASE NamexLook(p) \/ CreateLook(p) \/ DirUnlinkLook(p) \/ LinkNew(p)  BY <1>2, LookupData
<1>3. CASE NamexStart(p)  BY <1>3, StartData
<1>4. CASE CreateGet(p)  BY <1>4, CreateGetData
<1>5. CASE DropGuard(p) \/ DropOp(p)  BY <1>5, DropData
<1>6. CASE CreateFill(p)  BY <1>6, CreateFillData
<1>7. CASE DirUnlink(p)  BY <1>7, DirUnlinkData
<1>8. CASE LinkOld(p) \/ RevertLink(p)  BY <1>8, LinkData
<1>9. CASE Lock(p)  BY <1>9, LockData
<1>10. CASE InodeAlloc(p)  BY <1>10, AllocData
<1>11. CASE Put(p)  BY <1>11, PutData
<1>12. CASE PutDeref(p)  BY <1>12, PutDerefData
<1>13. CASE PutTruncate(p)  BY <1>13, PutTruncateData
<1> QED
  BY <1>1, <1>2, <1>3, <1>4, <1>5, <1>6, <1>7, <1>8, <1>9, <1>10, <1>11, <1>12, <1>13 DEF Step

(* A handle of another process keeps a slot to its inode. *)
LEMMA OthersHandle ==
  ASSUME CountInv, NEW p \in Procs, Steady(p), NEW q \in Procs, q # p, NEW i \in Slots,
         Handles(q, i) > 0
  PROVE  inum'[i] = inum[i]
<1>1. /\ refs[i] \in Nat /\ Handles(p, i) \in Nat
      /\ Handles(p, i) + Handles(q, i) <= refs[i]
  BY HandlesCounted DEF CountInv
<1>2. Handles(q, i) \in Nat  BY HandlesCounted DEF CountInv
<1>3. refs[i] # 0 /\ ~(refs[i] = 1 /\ Handles(p, i) > 0)  BY <1>1, <1>2
<1> QED  BY <1>3 DEF Steady

(* A process that has just freed an inode has just truncated it. *)
LEMMA FreeingNext ==
  ASSUME CountInv, QueueInv, NEW p \in Procs, Step(p), NEW i \in Slots, Freeing(p, i)'
  PROVE  PutTruncate(p)
<1>1. TypeOK'  BY StepGood DEF Good
<1>2. drops'[p] \in Seq(Item)  BY <1>1 DEF TypeOK
<1>3. drops'[p] # <<>> /\ Head(drops'[p]).k = "deref"  BY DEF Freeing, Deref
<1>4. ASSUME SoundAfter(p) PROVE FALSE
  <2>1. 1 \in 1 .. Len(drops'[p]) /\ Head(drops'[p]) = drops'[p][1]  BY <1>2, <1>3
  <2>2. SoundItem(drops'[p][1])  BY <1>4, <2>1 DEF SoundAfter, AllSound
  <2> QED  BY <1>3, <2>1, <2>2 DEF SoundItem
<1>5. SoundAfter(p) \/ HalfPut(p)  BY StepSound
<1> QED  BY <1>3, <1>4, <1>5 DEF HalfPut

(* Nobody steps after a panic. *)
LEMMA StepLive == ASSUME NEW p \in Procs, Step(p) PROVE panicked = None
<1> USE DEF Running, Drops
<1>1. CASE \E c \in menu : Enter(p, c)  BY <1>1 DEF Enter
<1>2. CASE SysClose(p) \/ CloseFiles(p)  BY <1>2 DEF SysClose, CloseFiles
<1>3. CASE Put(p) \/ PutTruncate(p) \/ PutDeref(p)  BY <1>3 DEF Put, PutTruncate, PutDeref
<1>4. CASE DropGuard(p) \/ DropOp(p)  BY <1>4 DEF DropGuard, DropOp
<1>5. CASE Lock(p)  BY <1>5 DEF Lock
<1>6. CASE NamexStart(p) \/ NamexEnd(p) \/ NamexLook(p)
  BY <1>6 DEF NamexStart, NamexEnd, NamexLook
<1>7. CASE CreateLook(p) \/ InodeAlloc(p) \/ CreateGet(p) \/ CreateFill(p)
  BY <1>7 DEF CreateLook, InodeAlloc, CreateGet, CreateFill
<1>8. CASE SysMkdir(p) \/ SysMknod(p)  BY <1>8 DEF SysMkdir, SysMknod, Made
<1>9. CASE Opened(p) \/ SysChdir(p)  BY <1>9 DEF Opened, SysChdir
<1>10. CASE DirUnlinkLook(p) \/ DirUnlink(p)  BY <1>10 DEF DirUnlinkLook, DirUnlink
<1>11. CASE LinkOld(p) \/ LinkNew(p) \/ RevertLink(p)  BY <1>11 DEF LinkOld, LinkNew, RevertLink
<1> QED  BY <1>1, <1>2, <1>3, <1>4, <1>5, <1>6, <1>7, <1>8, <1>9, <1>10, <1>11 DEF Step

(* Cached data stays current. *)
LEMMA DataNext ==
  ASSUME CountInv, QueueInv, DataInv, [Next]_vars PROVE DataInv'
<1>1. CASE UNCHANGED vars
  BY <1>1 DEF vars, cache, disk, prog, history, DataInv, LiveInv, ValidInv, FreedInv, Freeing, FreshInv,
     FreshAt, OrphanInv
<1>2. ASSUME NEW p \in Procs, Step(p), Remember(p), panicked' = None, "reuse" \notin slips'
      PROVE  LiveInv'
  <2>0. ~Reuses(p) /\ "reuse" \notin slips  BY <1>2 DEF Remember
  <2>1. LiveInv  BY <1>2, <2>0, StepLive DEF DataInv
  <2>2. DataGood(p)  BY <1>2, <2>0, <2>1, StepData
  <2>3. OthersSame(p)  BY <1>2, StepGood DEF Good
  <2>4. Steady(p) /\ StaysFreed(p)  BY <2>2 DEF DataGood
  <2>5. FreedInv'
    <3>1. ASSUME NEW q \in Procs, NEW i \in Slots, Freeing(q, i)'
          PROVE  valid'[i] = 0 /\ dino'[inum'[i]].itype = "Empty"
      <4>1. CASE q = p
        <5>1. PutTruncate(p)  BY <1>2, <3>1, <4>1, FreeingNext
        <5> QED  BY <2>1, <3>1, <4>1, <5>1, PutTruncateData
      <4>2. CASE q # p
        <5>1. Freeing(q, i)  BY <2>3, <3>1, <4>2 DEF OthersSame, Freeing
        <5>2. Handles(q, i) > 0  BY <5>1, FreeingHandle
        <5>3. inum'[i] = inum[i]  BY <2>4, <4>2, <5>2, OthersHandle
        <5> QED  BY <2>4, <4>2, <5>1, <5>3 DEF StaysFreed
      <4> QED  BY <4>1, <4>2
    <3> QED  BY <3>1 DEF FreedInv
  <2>6. FreshInv'
    <3>1. ASSUME NEW q \in Procs PROVE FreshAt(q)'
      <4>1. CASE q = p  BY <2>2, <4>1 DEF DataGood
      <4>2. CASE q # p
        <5>1. FreshAt(q)  BY <2>1 DEF LiveInv, FreshInv
        <5>2. pc'[q] = pc[q] /\ fresh'[q] = fresh[q] /\ ino'[q] = ino[q] /\ drops'[q] = drops[q]
          BY <2>3, <4>2 DEF OthersSame
        <5>3. ASSUME pc[q] \in {"new", "fill"} PROVE inum'[ino[q]] = inum[ino[q]]
          <6>1. ino[q] # 0 /\ ino[q] \in 0 .. NINODE
            BY <5>3 DEF CountInv, PlaceInv, PlaceOK, TypeOK
          <6>2. ino[q] \in Slots  BY <6>1, InodesAssumption DEF Slots
          <6>3. Handles(q, ino[q]) > 0  BY <6>2, HandleCounts
          <6> QED  BY <2>4, <4>2, <6>2, <6>3, OthersHandle
        <5> QED  BY <5>1, <5>2, <5>3 DEF FreshAt
      <4> QED  BY <4>1, <4>2
    <3> QED  BY <3>1 DEF FreshInv
  <2> QED  BY <2>2, <2>5, <2>6 DEF DataGood, LiveInv
<1>3. ASSUME NEW p \in Procs, Step(p), Remember(p) PROVE DataInv'  BY <1>2, <1>3 DEF DataInv
<1> QED  BY <1>1, <1>3 DEF Next

(* No data is cached at the start, and every inode in use has a link. *)
LEMMA DataInit == ASSUME Init PROVE DataInv
<1>1. /\ valid = [i \in Slots |-> 0] /\ drops = [p \in Procs |-> <<>>]
      /\ fresh = [p \in Procs |-> 0] /\ pc = [p \in Procs |-> "user"]
  BY DEF Init
<1>2. ValidInv  BY <1>1 DEF ValidInv
<1>3. FreedInv  BY <1>1 DEF FreedInv, Freeing
<1>4. FreshInv  BY <1>1 DEF FreshInv, FreshAt
<1>5. OrphanInv
  <2>1. PICK t \in Trees : dino = t.dino  BY DEF Init
  <2>2. \A n \in Inums : dino[n].itype # "Empty" => dino[n].nlink # 0
    BY <2>1, TreesAssumption
  <2> QED  BY <2>2 DEF OrphanInv
<1> QED  BY <1>2, <1>3, <1>4, <1>5 DEF DataInv, LiveInv

(* What the invariants say of the cache and of the disk. *)
LEMMA DataShows ==
  ASSUME CountInv, DataInv PROVE CachedIsCurrent /\ NoOrphan
<1> SUFFICES ASSUME panicked = None, "reuse" \notin slips PROVE CachedIsCurrent /\ NoOrphan
  BY DEF CachedIsCurrent, NoOrphan
<1>1. ValidInv /\ OrphanInv /\ OneSlot  BY DEF CountInv, DataInv, LiveInv
<1>2. ASSUME NEW i \in Slots, refs[i] > 0 PROVE Holding(inum[i]) = {i}
  BY <1>1, <1>2 DEF OneSlot, Holding
<1>3. CachedIsCurrent  BY <1>1, <1>2 DEF CachedIsCurrent, ValidInv
<1>4. ASSUME NEW n \in Inums, dino[n].itype # "Empty", dino[n].nlink = 0
      PROVE  Holding(n) # {} \/ \E p \in Procs : fresh[p] = n
  <2>1. CASE \E p \in Procs : fresh[p] = n  BY <2>1
  <2>2. CASE \E i \in Slots : valid[i] = n
    <3>1. PICK i \in Slots : valid[i] = n  BY <2>2
    <3>2. n # 0  BY InodesAssumption DEF Inums
    <3>3. refs[i] > 0 /\ inum[i] = n  BY <1>1, <3>1, <3>2 DEF ValidInv
    <3> QED  BY <3>3 DEF Holding
  <2> QED  BY <1>1, <1>4, <2>1, <2>2 DEF OrphanInv
<1> QED  BY <1>3, <1>4 DEF NoOrphan

(* Data marked valid is that of the slot's inode and agrees with the disk, *)
(* whatever the other processes write, until inode_alloc takes an inode    *)
(* between the two locked parts of the put that frees it.                  *)
THEOREM CachedCurrent == Spec => []CachedIsCurrent
<1>1. Init => DataInv  BY DataInit
<1>2. CountInv /\ QueueInv /\ DataInv /\ [Next]_vars => DataInv'  BY DataNext
<1>3. CountInv /\ DataInv => CachedIsCurrent  BY DataShows
<1> QED  BY <1>1, <1>2, <1>3, CountCorrect, PTL DEF Spec

(* Until then, an inode without links is freed by the last put: it is on   *)
(* the disk only while somebody has a handle to it.                        *)
THEOREM OrphansHeld == Spec => []NoOrphan
<1>1. Init => DataInv  BY DataInit
<1>2. CountInv /\ QueueInv /\ DataInv /\ [Next]_vars => DataInv'  BY DataNext
<1>3. CountInv /\ DataInv => NoOrphan  BY DataShows
<1> QED  BY <1>1, <1>2, <1>3, CountCorrect, PTL DEF Spec
=============================================================================
