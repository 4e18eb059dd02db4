------------------------------- MODULE Buddy -------------------------------
(***************************************************************************)
(* The buddy allocator of kernel/src/mm/kalloc.rs as operators on the      *)
(* state of a BuddySystem.  Addresses are counted from its base in blocks  *)
(* of the smallest size; block b of class k covers 2^k of them.  A heap is *)
(* a record of the three things BuddyInfo keeps for each class: the alloc  *)
(* bits and the split bits (as sets of block indices) and the free list    *)
(* (block addresses, the head first).                                      *)
(*                                                                         *)
(* The lock of KernelHeap makes init, alloc and dealloc atomic.  The loops *)
(* of alloc and dealloc touch each class once, so that each is written as  *)
(* one function over the classes.                                          *)
(***************************************************************************)
EXTENDS Naturals, Sequences, FiniteSets, FiniteSetsExt

CONSTANTS Meta,     \* blocks used by the metadata, at the start
          End       \* blocks between base and actual_end

(* init: the number of classes, the largest one covering [0, End). *)
max_size == CHOOSE k \in 0 .. End : 2^k >= End /\ \A j \in 0 .. k - 1 : 2^j < End
Classes == 0 .. max_size

(* The free lists (mm/list.rs): the head is the node pushed last, and a    *)
(* node takes itself off its list.                                         *)
Push(l, a) == <<a>> \o l
IsEmpty(l) == l = <<>>
Pop(l) == Tail(l)
Unlink(l, a) == SelectSeq(l, LAMBDA x : x # a)

blk_index(k, addr) == addr \div (2^k)
blk_index_next(k, addr) == (addr + 2^k - 1) \div (2^k)
blk_addr(k, bi) == bi * 2^k
BuddyOf(bi) == IF bi % 2 = 0 THEN bi + 1 ELSE bi - 1

(* mark: the blocks of class k that [left, right) touches. *)
mark(k, left, right) == blk_index(k, left) .. blk_index_next(k, right) - 1

(* mark_meta and mark_unavail: neither the metadata nor what lies between  *)
(* actual_end and the next power of two is ever handed out.                *)
Marked(k) == mark(k, 0, Meta) \cup mark(k, End, 2^max_size)

(* init_free_pair: of two buddies of which one is marked, the other is     *)
(* free.                                                                   *)
init_free_pair(k, bi) ==
    IF (bi \in Marked(k)) = (BuddyOf(bi) \in Marked(k)) THEN <<>>
    ELSE <<blk_addr(k, IF bi \in Marked(k) THEN BuddyOf(bi) ELSE bi)>>

(* init_free: in each class but the largest, the pair at either end of the *)
(* free memory; the lists are filled at the head.                          *)
init_free(k) ==
    IF k = max_size THEN <<>>
    ELSE (IF Meta < End THEN init_free_pair(k, blk_index(k, End)) ELSE <<>>)
         \o init_free_pair(k, blk_index_next(k, Meta))

InitHeap == [alloc |-> [k \in Classes |-> Marked(k)],
             split |-> [k \in Classes |-> IF k = 0 THEN {} ELSE Marked(k)],
             free  |-> [k \in Classes |-> init_free(k)]]

(* What init checks before it returns: the free blocks add up. *)
InitChecks ==
    MapThenSumSet(LAMBDA k : Len(init_free(k)) * 2^k, Classes) = End - Meta

ASSUME HeapAssumption ==
    /\ Meta \in Nat \ {0} /\ End \in Nat /\ Meta < End
    /\ InitChecks                       \* boot does not panic
    /\ End < 2^max_size                 \* no bit beyond a bitmap is read

-----------------------------------------------------------------------------
(* alloc: the class that is searched first and has a free block; NoClass   *)
(* when there is none and alloc returns null.                              *)
NoClass == max_size + 1
Found(h, k) == Min({j \in Classes : j >= k /\ ~IsEmpty(h.free[j])} \cup {NoClass})
CanAlloc(h, k) == Found(h, k) # NoClass
AllocAddr(h, k) == Head(h.free[Found(h, k)])

(* alloc: the block is taken off its list and split down to class k, the   *)
(* right half of each split going on the list of its class.                *)
Alloc(h, k) ==
    LET top == Found(h, k)
        a == AllocAddr(h, k)
    IN [alloc |-> [j \in Classes |-> IF j \in k .. top THEN h.alloc[j] \cup {blk_index(j, a)}
                                     ELSE h.alloc[j]],
        split |-> [j \in Classes |-> IF j \in k + 1 .. top THEN h.split[j] \cup {blk_index(j, a)}
                                     ELSE h.split[j]],
        free  |-> [j \in Classes |-> IF j = top THEN Pop(h.free[j])
                                     ELSE IF j \in k .. top - 1 THEN Push(h.free[j], a + 2^j)
                                     ELSE h.free[j]]]

-----------------------------------------------------------------------------
(* dealloc: the class of the block at addr, one below the smallest class   *)
(* in which the block that contains it is split.                           *)
ClassOf(h, a) ==
    Min({k \in 0 .. max_size - 1 : blk_index(k + 1, a) \in h.split[k + 1]} \cup {NoClass})
InRange(a) == a < End

(* dealloc does not panic: the address is one of the heap and the block is *)
(* large enough for the layout, of class k, it was allocated with.         *)
CanDealloc(h, a, k) == InRange(a) /\ ClassOf(h, a) \in k .. max_size

(* dealloc's loop: it merges upwards from class k until a buddy is         *)
(* allocated or the largest class is reached.                              *)
MergeTo(h, a, k) ==
    Min({j \in k .. max_size - 1 : BuddyOf(blk_index(j, a)) \in h.alloc[j]} \cup {max_size})

(* Fault: a buddy that is merged stays on its free list. *)
DeallocKeepsBuddy(h, a) ==
    LET k == ClassOf(h, a)
        m == MergeTo(h, a, k)
    IN [alloc |-> [j \in Classes |-> IF j \in k .. m /\ j < max_size
                                     THEN h.alloc[j] \ {blk_index(j, a)} ELSE h.alloc[j]],
        split |-> [j \in Classes |-> IF j \in k + 1 .. m
                                     THEN h.split[j] \ {blk_index(j, a)} ELSE h.split[j]],
        free  |-> [h.free EXCEPT ![m] = Push(@, blk_addr(m, blk_index(m, a)))]]

(* dealloc: on the way up the alloc bits are cleared, each free buddy is   *)
(* taken off its list and the split bit of the merged block is cleared;    *)
(* the block that results goes on the list of its class.                   *)
Dealloc(h, a) ==
    LET k == ClassOf(h, a)
        m == MergeTo(h, a, k)
    IN [alloc |-> [j \in Classes |-> IF j \in k .. m /\ j < max_size
                                     THEN h.alloc[j] \ {blk_index(j, a)} ELSE h.alloc[j]],
        split |-> [j \in Classes |-> IF j \in k + 1 .. m
                                     THEN h.split[j] \ {blk_index(j, a)} ELSE h.split[j]],
        free  |-> [j \in Classes |->
                     IF j = m THEN Push(h.free[m], blk_addr(m, blk_index(m, a)))
                     ELSE IF j \in k .. m - 1
                          THEN Unlink(h.free[j], blk_addr(j, BuddyOf(blk_index(j, a))))
                     ELSE h.free[j]]]

-----------------------------------------------------------------------------
(* The memory of a block, and the blocks on the free lists. *)
Span(a, k) == a .. a + 2^k - 1
FreeBlocks(h) == UNION {{<<h.free[k][i], k>> : i \in 1 .. Len(h.free[k])} : k \in Classes}
FreeMemory(h) == UNION {Span(b[1], b[2]) : b \in FreeBlocks(h)}

(* The heap is sound for a set of live blocks <<address, class>>: together *)
(* with the metadata they and the free blocks cover the memory once, no    *)
(* block is on a list twice, and no two buddies are free without having    *)
(* been merged.                                                            *)
Sound(h, live) ==
    LET free == FreeBlocks(h)
        blocks == free \cup live
    IN /\ UNION {Span(b[1], b[2]) : b \in blocks} = Meta .. End - 1
       /\ MapThenSumSet(LAMBDA b : 2^b[2], blocks) = End - Meta
       /\ live \cap free = {}
       /\ Cardinality(free) = MapThenSumSet(LAMBDA k : Len(h.free[k]), Classes)
       /\ \A b \in free : <<blk_addr(b[2], BuddyOf(blk_index(b[2], b[1]))), b[2]>> \notin free
=============================================================================
