------------------------------- MODULE MCLog -------------------------------
(* Log for TLC.  Nothing in Log tells two processes apart, and no block    *)
(* is special either: both sets may be declared symmetric in the runs that *)
(* check safety only.                                                      *)
EXTENDS Log, TLC

SymProcs == Permutations(Procs)
SymProcsBlocks == Permutations(Procs) \cup Permutations(Blocks)
=============================================================================
