----------------------------- MODULE MCListener -----------------------------
(***************************************************************************)
(* Small instances of Listener.                                            *)
(***************************************************************************)
EXTENDS Listener
============================================================================
