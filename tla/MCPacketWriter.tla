--------------------------- MODULE MCPacketWriter ---------------------------
(* Instances of PacketWriter for TLC. *)
EXTENDS PacketWriter

(* The Writer treats pages alike, but for those whose sound is captured. *)
SilentPages == Permutations(Pages \ AudioPages)
=============================================================================
