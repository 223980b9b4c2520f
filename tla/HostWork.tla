------------------------------ MODULE HostWork ------------------------------
(***************************************************************************)
(* The SDK host's side of a work fence: the inbox that pairs the native    *)
(* expectation with the watermark decoded from stdout                      *)
(* (native-work-watermark.ts), the callbacks around it                     *)
(* (native-source-work.ts) and the packets of the runner                   *)
(* (native-runner-source-protocol.ts).  failed is an exception, or a call  *)
(* of fail in native-browser.ts: the host then kills the browser.          *)
(***************************************************************************)
EXTENDS WorkWire, FiniteSets

CONSTANTS Nonces,      \* the nonces of challenges
          InFlightCap, \* entries of the inbox (8)
          HistoryCap   \* completed barriers the inbox remembers (64)

ASSUME HostWorkAssumption ==
  /\ Nonces \subseteq Nat \ {0} /\ InFlightCap \in Nat \ {0} /\ HistoryCap \in Nat

NoEntry == [expected |-> NoCuts, observed |-> NoCuts, sent |-> FALSE]
NoChallenge == [nonce |-> 0, generation |-> 0, callback |-> FALSE]
NoPending == [nonce |-> 0, raw |-> FALSE, acknowledged |-> FALSE, failed |-> FALSE, refused |-> FALSE]

(* challenge, ready and resume are the maps of NativeSourceSetupProtocol at *)
(* the one ticket; pending and last are of NativeSourceWorkCallbacks.       *)
InitHost ==
  [challenge |-> NoChallenge, ready |-> FALSE, resume |-> 0, pending |-> NoPending, last |-> 0,
   entries |-> [n \in Nonces |-> NoEntry], completed |-> {}, poisoned |-> FALSE, failed |-> FALSE]

(* A call threads this record: the host, what it writes to the runner and *)
(* the barriers it writes to the Engine's stdin.                          *)
Call(h, toRunner, barriers) == [h |-> h, toRunner |-> toRunner, barriers |-> barriers]
Throw(c) == [c EXCEPT !.h.failed = TRUE]
SendToRunner(c, packet) == [c EXCEPT !.toRunner = Append(@, packet)]

Entries(h) == {n \in Nonces : h.entries[n] # NoEntry}
ObservationSettled(h) == ~h.poisoned /\ Entries(h) = {}
HostIdleReady_BeforeRaw(h) ==
  /\ ObservationSettled(h)
  /\ h.pending # NoPending => ~h.pending.failed /\ h.pending.acknowledged
HostIdleReady(h) ==
  /\ ObservationSettled(h)
  /\ h.pending # NoPending => ~h.pending.failed /\ h.pending.raw /\ h.pending.acknowledged

(* beforeAuthorAdmission *)
AuthorAdmitted_Always(h) == TRUE
AuthorAdmitted(h) == h.pending = NoPending \/ h.challenge.callback

(* workChanged: announce readiness once, and resume when the runner said so. *)
WorkChanged(c) ==
  LET h == c.h
      told == IF h.ready THEN c
              ELSE SendToRunner([c EXCEPT !.h.ready = TRUE], Packet("READY", h.challenge.nonce, 0, NoCuts))
      resumed == [told EXCEPT !.h.resume = 0, !.h.challenge = NoChallenge, !.h.ready = FALSE,
                              !.h.pending = NoPending]
  IN IF ~h.challenge.callback \/ ~HostIdleReady(h) \/ h.failed THEN c
     ELSE IF h.resume = 0 THEN told
     ELSE SendToRunner(resumed, Packet("HOST_RESUMED", h.challenge.nonce, h.resume, NoCuts))

(* admit: the inbox takes no more for this barrier. *)
AdmitFails(h, n) == h.poisoned \/ n \in h.completed
AdmitPoisons(h, n) == h.entries[n] = NoEntry /\ Cardinality(Entries(h)) = InFlightCap

(* expect or observe: side is the receipt that arrives, other the one that *)
(* may already be there.                                                   *)
Enter(c, n, cuts, entry, replayed, other) ==
  IF AdmitFails(c.h, n) \/ replayed THEN Throw(c)
  ELSE IF AdmitPoisons(c.h, n) \/ (other # NoCuts /\ other # cuts)
  THEN Throw([c EXCEPT !.h.poisoned = TRUE])
  ELSE [c EXCEPT !.h.entries[n] = entry]

(* take and publish: once both receipts match, the runner is told. *)
Publish(c, n) ==
  LET e == c.h.entries[n]
  IN IF c.h.failed \/ e.expected = NoCuts \/ e.observed = NoCuts \/ e.sent THEN c
     ELSE SendToRunner([c EXCEPT !.h.entries[n].sent = TRUE], Packet("OBSERVED", n, 0, e.observed))

Matches(h, n) == h.pending.nonce = n /\ h.pending # NoPending /\ ~h.pending.failed

Expect(c, cuts) ==
  LET e == c.h.entries[cuts.nonce]
  IN IF ~Matches(c.h, cuts.nonce) THEN Throw(c)
     ELSE Publish(Enter(c, cuts.nonce, cuts, [e EXCEPT !.expected = cuts], e.expected # NoCuts, e.observed),
                  cuts.nonce)

(* The decoder of stdout calls this after the whole packet. *)
Observe(c, cuts) ==
  LET e == c.h.entries[cuts.nonce]
  IN IF ~Matches(c.h, cuts.nonce) THEN Throw(c)
     ELSE Publish(Enter(c, cuts.nonce, cuts, [e EXCEPT !.observed = cuts], e.observed # NoCuts, e.expected),
                  cuts.nonce)

Acknowledge(c, cuts) ==
  LET h == c.h
      e == h.entries[cuts.nonce]
  IN IF ~Matches(h, cuts.nonce) \/ h.poisoned \/ ~e.sent \/ e.expected # cuts THEN Throw(c)
     ELSE IF Cardinality(h.completed) = HistoryCap THEN Throw([c EXCEPT !.h.poisoned = TRUE])
     ELSE [c EXCEPT !.h.completed = @ \cup {cuts.nonce}, !.h.entries[cuts.nonce] = NoEntry,
                    !.h.pending.acknowledged = TRUE]

Begin(c, m) ==
  LET ch == [nonce |-> m.nonce, generation |-> m.generation, callback |-> m.kind = "BEGIN callback"]
  IN IF c.h.challenge # NoChallenge \/ c.h.pending # NoPending \/ m.nonce <= c.h.last THEN Throw(c)
     ELSE [c EXCEPT !.h.challenge = ch, !.h.last = m.nonce, !.barriers = Append(@, ch),
                    !.h.pending = [NoPending EXCEPT !.nonce = m.nonce]]

Refuse(c, m) ==
  IF c.h.pending = NoPending \/ c.h.pending.refused \/ c.h.pending.nonce # m.nonce
     \/ c.h.pending.acknowledged THEN Throw(c)
  ELSE [c EXCEPT !.h.pending.refused = TRUE, !.h.pending.failed = TRUE]

ResumeWork(c, m) ==
  IF c.h.challenge.nonce # m.nonce \/ m.generation <= c.h.challenge.generation \/ c.h.resume # 0
  THEN Throw(c)
  ELSE [c EXCEPT !.h.resume = m.generation]

(* workPacket *)
WorkPacket(c, m) ==
  WorkChanged(CASE m.kind \in {"BEGIN", "BEGIN callback"} -> Begin(c, m)
                [] m.kind = "EXPECT" -> Expect(c, m.cuts)
                [] m.kind = "ACK" -> Acknowledge(c, m.cuts)
                [] m.kind = "REFUSE" -> Refuse(c, m)
                [] m.kind = "RESUME" -> ResumeWork(c, m))

(* The answer to the barrier command.  A rejection of a challenge that has *)
(* not failed yet goes through hooks.failed to fail.                       *)
RawReturned(c, ok) ==
  LET back == [c EXCEPT !.h.pending.raw = TRUE]
  IN IF ok THEN WorkChanged(back)
     ELSE IF c.h.pending.failed THEN back
     ELSE Throw([back EXCEPT !.h.pending.failed = TRUE])
=============================================================================
