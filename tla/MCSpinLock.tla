----------------------------- MODULE MCSpinLock -----------------------------
(***************************************************************************)
(* Two CPUs and two processes, each of which can be interrupted anywhere.  *)
(***************************************************************************)
EXTENDS SpinLock
=============================================================================
