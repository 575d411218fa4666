----------------------------- MODULE MCEventBus -----------------------------
(* EventBus for TLC. *)
EXTENDS EventBus
=============================================================================
