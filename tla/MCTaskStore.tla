---------------------------- MODULE MCTaskStore ----------------------------
(* TaskStore for TLC. *)
EXTENDS TaskStore
=============================================================================
