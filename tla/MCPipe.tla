------------------------------- MODULE MCPipe -------------------------------
(* Model-checking instances of the pipe. *)
EXTENDS Pipe, TLC

(* Readers are interchangeable, and so are writers. *)
SymEnds == Permutations(Readers) \cup Permutations(Writers)
=============================================================================
