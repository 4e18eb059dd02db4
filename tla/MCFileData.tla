----------------------------- MODULE MCFileData -----------------------------
(* FileData for TLC.  Processes, files and File objects are interchangeable. *)
EXTENDS FileData, TLC

Sym == Permutations(Procs) \cup Permutations(Files) \cup Permutations(Objs)
=============================================================================
