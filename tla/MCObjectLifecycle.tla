-------------------------- MODULE MCObjectLifecycle --------------------------
(* ObjectLifecycle for TLC. *)
EXTENDS ObjectLifecycle
==============================================================================
