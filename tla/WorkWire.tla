------------------------------ MODULE WorkWire ------------------------------
(***************************************************************************)
(* What the processes of a work fence say to one another                   *)
(* (native/runner/retained_source_work_wire.h and the SOURCE_WORK_ packets *)
(* of runner_retained_sources.h and native-runner-source-protocol.ts).     *)
(* There is one Source, so the ticket is left out.  A challenge is its     *)
(* nonce and the generation of its borrow; a fence has one deadline, known *)
(* by that generation.  The cuts of a challenge are how many stdin lines   *)
(* the Engine had accepted and how many stdout packets it had published.   *)
(***************************************************************************)
EXTENDS Naturals, Sequences

NoCuts == [nonce |-> 0, reader |-> 0, writer |-> 0]

(* Every packet has the same fields; those a kind does not carry are 0. *)
Packet(kind, nonce, generation, cuts) ==
  [kind |-> kind, nonce |-> nonce, generation |-> generation, cuts |-> cuts]

(* The state after each of the packets has been given to Receive in turn. *)
Received(Receive(_, _), state, packets) ==
  LET after[i \in 0 .. Len(packets)] ==
        IF i = 0 THEN state ELSE Receive(after[i - 1], packets[i])
  IN after[Len(packets)]

(* F(x); the argument is evaluated once, where a LET would be evaluated at *)
(* every use when TLC decides what is enabled.                             *)
With(x, F(_)) == CHOOSE y \in {F(v) : v \in {x}} : TRUE

AtMost(n, packets) == IF Len(packets) < n THEN Len(packets) ELSE n
Batch(n, packets) == SubSeq(packets, 1, AtMost(n, packets))
Rest(n, packets) == SubSeq(packets, AtMost(n, packets) + 1, Len(packets))
=============================================================================
