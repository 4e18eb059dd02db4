----------------------------- MODULE MCUserMem -----------------------------
(***************************************************************************)
(* Two slots: init and a child, on a heap that does not end at a power of  *)
(* two; either both can run exec, but not at the same time, or the rest of *)
(* the system holds so much that already a fork runs out of memory.        *)
(***************************************************************************)
EXTENDS UserMem

Grow == {1, -2}
=============================================================================
