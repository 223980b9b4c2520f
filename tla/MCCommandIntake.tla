--------------------------- MODULE MCCommandIntake ---------------------------
(* Instances of CommandIntake for TLC. *)
EXTENDS CommandIntake
=============================================================================
