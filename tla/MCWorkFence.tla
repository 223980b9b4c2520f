---------------------------- MODULE MCWorkFence ----------------------------
(* Small instances of the work fence for TLC. *)
EXTENDS WorkFence
MCNonces == 1 .. MaxFences + 1
=============================================================================
