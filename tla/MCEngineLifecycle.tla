-------------------------- MODULE MCEngineLifecycle --------------------------
(* Instances of EngineLifecycle for TLC. *)
EXTENDS EngineLifecycle
=============================================================================
