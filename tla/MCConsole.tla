----------------------------- MODULE MCConsole -----------------------------
(***************************************************************************)
(* Two writers over a transmit ring of two characters, and a reader of a   *)
(* console ring of two.                                                    *)
(***************************************************************************)
EXTENDS Console
=============================================================================
