----------------------------- MODULE EngineWork -----------------------------
(***************************************************************************)
(* The Engine's side of a work fence                                       *)
(* (controllers/work/accepted_engine_work.inc).  An exception leaves a CEF *)
(* task and ends the process: thrown.                                      *)
(***************************************************************************)
EXTENDS WorkWire

CONSTANT EngineBatch \* packets of one pump (16)

ASSUME EngineWorkAssumption == EngineBatch \in Nat \ {0}

NoEngineWork ==
  [nonce |-> 0, generation |-> 0, command |-> FALSE, reader |-> 0, cuts |-> NoCuts,
   observed |-> FALSE, granted |-> FALSE, refused |-> FALSE, resume |-> 0]

(* posted is native_work_posted_, and the delayed coordinator task it stands *)
(* for; unattested is PublicationAudit().Unattested() # 0.                   *)
InitEngine ==
  [installed |-> FALSE, nonce |-> 0, generation |-> 0, work |-> NoEngineWork, posted |-> FALSE,
   unattested |-> FALSE, thrown |-> FALSE]

(* A pump threads this record: the Engine, its packets to the runner, its  *)
(* answers to barrier commands and the watermark it asks the writer for.   *)
Pump(e, toRunner) == [e |-> e, toRunner |-> toRunner, answers |-> <<>>, mark |-> NoCuts]
EngineSends(p, packet) == [p EXCEPT !.toRunner = Append(@, packet)]
EngineThrows(p) == [p EXCEPT !.e.thrown = TRUE]
Answer(p, ok) == [p EXCEPT !.answers = Append(@, ok)]

(* PostAcceptedWork *)
PostAcceptedWork(p) == [p EXCEPT !.e.posted = TRUE]

(* The conditions under which the drain accepts a packet; expired is the   *)
(* set of generations whose deadline has passed.                           *)
Admits(e, m, expired) ==
  CASE m.kind = "Install" -> ~e.installed /\ e.work = NoEngineWork
    [] m.kind = "Begin" -> /\ e.installed /\ e.work = NoEngineWork /\ m.nonce > e.nonce
                           /\ m.generation >= e.generation /\ m.generation \notin expired
    [] m.kind = "Observed" -> /\ e.work.cuts # NoCuts /\ e.work.cuts = m.cuts
                              /\ ~e.work.observed /\ ~e.work.granted
    [] m.kind = "Resume" -> /\ e.work.granted /\ m.nonce = e.work.nonce
                            /\ m.generation > e.work.generation /\ e.work.resume = 0

Take(p, m, expired) ==
  IF p.e.thrown THEN p
  ELSE IF ~Admits(p.e, m, expired) THEN EngineThrows(p)
  ELSE CASE m.kind = "Install" -> EngineSends([p EXCEPT !.e.installed = TRUE], Packet("Capability", 0, 0, NoCuts))
         [] m.kind = "Begin" -> [p EXCEPT !.e.nonce = m.nonce,
                                          !.e.work = [NoEngineWork EXCEPT !.nonce = m.nonce,
                                                                          !.generation = m.generation]]
         [] m.kind = "Observed" -> [p EXCEPT !.e.work.observed = TRUE]
         [] m.kind = "Resume" -> [p EXCEPT !.e.work.resume = m.generation]

RefuseWork(p) ==
  LET told == EngineSends([p EXCEPT !.e.work.refused = TRUE], Packet("Unsupported", p.e.work.nonce, 0, NoCuts))
  IN IF p.e.work.command THEN Answer(told, TRUE) ELSE told

ResumeBorrow(p) ==
  LET w == p.e.work
  IN EngineSends([p EXCEPT !.e.generation = w.resume, !.e.work = NoEngineWork],
                 Packet("Resumed", w.nonce, w.resume, NoCuts))

(* QueueWorkWatermark and the Cut: published is the writer's cut. *)
IssueCut(p, published) ==
  LET cuts == [nonce |-> p.e.work.nonce, reader |-> p.e.work.reader, writer |-> published]
  IN EngineSends([p EXCEPT !.e.work.cuts = cuts, !.mark = cuts], Packet("Cut", cuts.nonce, 0, cuts))

(* RetireWorkWatermark, the acknowledgement and the answer to the barrier. *)
GrantWork(p) ==
  Answer(EngineSends([p EXCEPT !.e.work.granted = TRUE], Packet("Acknowledged", p.e.work.nonce, 0, p.e.work.cuts)),
         TRUE)

(* What the pump does after the drain.  ready is AcceptedWorkReady() and   *)
(* the reader's Through(cut), written is WorkWatermarkWritten.             *)
Settle(p, expired, ready, published, written) ==
  LET w == p.e.work
      cut == IF w.cuts = NoCuts THEN IssueCut(p, published) ELSE p
  IN IF p.e.thrown \/ w = NoEngineWork \/ (w.granted /\ w.resume = 0) THEN p
     ELSE IF w.granted THEN IF ready THEN ResumeBorrow(p) ELSE PostAcceptedWork(p)
     ELSE IF w.generation \in expired THEN IF w.refused THEN p ELSE RefuseWork(p)
     ELSE IF ~w.command \/ w.refused THEN p
     ELSE IF p.e.unattested THEN RefuseWork(p)
     ELSE IF ~ready THEN PostAcceptedWork(p)
     ELSE IF ~cut.e.work.observed THEN cut
     ELSE IF ~written THEN PostAcceptedWork(cut)
     ELSE GrantWork(cut)

(* PumpAcceptedWork: packets are those the socket yields in this turn. *)
PumpAcceptedWork(e, toRunner, packets, expired, ready, published, written) ==
  LET Drain(p, m) == Take(p, m, expired)
  IN Settle(Received(Drain, Pump(e, toRunner), packets), expired, ready, published, written)

(* OriginalAcceptedWorkBarrier after its pump: accepted is the reader's cut. *)
AcceptBarrier(p, challenge, accepted) ==
  LET w == p.e.work
  IN IF p.e.thrown THEN p
     ELSE IF w = NoEngineWork \/ w.command \/ w.granted \/ w.refused
             \/ w.nonce # challenge.nonce \/ w.generation # challenge.generation
     THEN Answer(p, FALSE)
     ELSE PostAcceptedWork([p EXCEPT !.e.work.command = TRUE, !.e.work.reader = accepted])
=============================================================================
