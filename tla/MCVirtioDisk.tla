---------------------------- MODULE MCVirtioDisk ----------------------------
(* Model-checking instances of the virtio driver. *)
EXTENDS VirtioDisk, TLC

(* Processes are interchangeable. *)
SymProcs == Permutations(Procs)
=============================================================================
