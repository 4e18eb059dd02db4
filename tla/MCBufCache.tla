---------------------------- MODULE MCBufCache ----------------------------
(* Model-checking instances of the block cache. *)
EXTENDS BufCache, TLC

(* Every process uses every block. *)
AllBlocks == [p \in Procs |-> Blocks]

(* Processes, contents, and the blocks that are not logged are             *)
(* interchangeable.                                                        *)
Symmetric == Permutations(Procs) \cup Permutations(Data) \cup Permutations(Blocks \ LogBlocks)
=============================================================================
