------------------------------- MODULE MCProc -------------------------------
(* Proc for TLC.  CPUs are interchangeable; slots are not: slot 0 is init. *)
EXTENDS Proc, TLC

SymCPUs == Permutations(CPUs)
=============================================================================
