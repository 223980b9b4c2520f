------------------------------- MODULE Erase -------------------------------
(***************************************************************************)
(* Erasing elements from a sequence (std::erase, std::erase_if): what is   *)
(* left at some of its places keeps its order.                             *)
(***************************************************************************)
EXTENDS Naturals, Sequences, FiniteSets

Rank(places, i) == Cardinality({j \in places : j <= i})

(* The elements of s at these places. *)
Kept(s, places) ==
  [k \in 1 .. Cardinality(places) |-> s[CHOOSE i \in places : Rank(places, i) = k]]
=============================================================================
