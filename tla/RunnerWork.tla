----------------------------- MODULE RunnerWork -----------------------------
(***************************************************************************)
(* The runner's side of a work fence: RetainedSourceReceiver, which talks  *)
(* to the Engine over the Source's socket, and RunnerRetainedSources, which *)
(* owns the fence and forwards receipts to the SDK host.  Both live in one *)
(* record, because every entry point of the second ends in its Tick.  An   *)
(* exception is failed: the actor then only drains.                        *)
(***************************************************************************)
EXTENDS WorkWire

CONSTANTS MaxFences,   \* completed_callback_fences_ may reach this (64)
          RunnerBatch  \* receipts of one Tick (4)

ASSUME RunnerWorkAssumption == MaxFences \in Nat \ {0} /\ RunnerBatch \in Nat \ {0}

NoRunnerWork ==
  [nonce |-> 0, generation |-> 0, cuts |-> NoCuts, observed |-> FALSE, acknowledged |-> FALSE,
   late |-> FALSE, canceled |-> FALSE, refused |-> FALSE, resume |-> 0, resumed |-> FALSE]

NoFence ==
  [generation |-> 0, canceled |-> FALSE, hostReady |-> FALSE, resumeRequested |-> FALSE,
   hostResumeSent |-> FALSE, hostResumed |-> FALSE]

(* idle is idle_borrow_: the one barrier asked for when a worker might be   *)
(* reused; its borrow is generation 1.                                      *)
InitRunner ==
  [install |-> FALSE, capability |-> FALSE, work |-> NoRunnerWork, fence |-> NoFence,
   idle |-> FALSE, generation |-> 0, sequence |-> 0, completed |-> 0,
   expectSent |-> FALSE, ackSent |-> FALSE, refusalSent |-> FALSE,
   exit |-> FALSE, failed |-> FALSE]

(* A Tick threads this record: the runner and the two channels it writes. *)
Turn(r, toEngine, toHost) == [r |-> r, toEngine |-> toEngine, toHost |-> toHost]

HasWork(r) == r.work # NoRunnerWork
HasFence(r) == r.fence # NoFence
AdmissionActive(r) == ~r.exit
RunnerAcceptedWorkReady(r) ==
  /\ r.capability /\ r.work.cuts # NoCuts /\ r.work.observed /\ r.work.acknowledged
  /\ ~r.work.canceled /\ ~r.work.refused /\ AdmissionActive(r)

(* CancelAcceptedWork *)
CancelAcceptedWork(r) == IF HasWork(r) THEN [r EXCEPT !.work.canceled = TRUE] ELSE r

SendToEngine(t, packet, exited) ==
  IF exited THEN [t EXCEPT !.r.failed = TRUE] ELSE [t EXCEPT !.toEngine = Append(@, packet)]
SendToHost(t, packet) == [t EXCEPT !.toHost = Append(@, packet)]

(* InstallAcceptedWork *)
InstallAcceptedWork(t, exited) ==
  IF t.r.install \/ ~AdmissionActive(t.r) \/ exited THEN t
  ELSE SendToEngine([t EXCEPT !.r.install = TRUE], Packet("Install", 0, 0, NoCuts), exited)

(* The conditions under which ObserveWork does not throw. *)
Expects(r, m) ==
  CASE m.kind = "Capability" -> r.install /\ ~r.capability
    [] m.kind = "Resumed" -> /\ m.nonce = r.work.nonce /\ m.generation = r.work.resume
                             /\ r.work.resume # 0 /\ ~r.work.resumed /\ r.work.acknowledged
    [] m.kind = "Unsupported" -> m.nonce = r.work.nonce /\ ~r.work.refused /\ ~r.work.acknowledged
    [] m.kind = "Cut" -> m.nonce = r.work.nonce /\ ~r.work.refused /\ r.work.cuts = NoCuts
    [] m.kind = "Acknowledged" -> /\ m.nonce = r.work.nonce /\ ~r.work.refused
                                  /\ m.cuts = r.work.cuts /\ r.work.observed
                                  /\ ~r.work.acknowledged /\ ~r.work.late

(* A genuine acknowledgement after the deadline or a cancellation stays    *)
(* visible as late and authorises nothing.                                 *)
Acknowledged(r, expired, exited) ==
  IF r.work.canceled \/ expired \/ ~AdmissionActive(r) \/ exited
  THEN [r EXCEPT !.work.late = TRUE]
  ELSE [r EXCEPT !.work.acknowledged = TRUE]

ObserveWork(r, m, expired, exited) ==
  IF r.failed THEN r
  ELSE IF ~Expects(r, m) THEN [r EXCEPT !.failed = TRUE]
  ELSE CASE m.kind = "Capability" -> [r EXCEPT !.capability = TRUE]
         [] m.kind = "Resumed" -> [r EXCEPT !.work.resumed = TRUE]
         [] m.kind = "Unsupported" -> [r EXCEPT !.work.refused = TRUE]
         [] m.kind = "Cut" -> [r EXCEPT !.work.cuts = m.cuts]
         [] m.kind = "Acknowledged" -> Acknowledged(r, expired, exited)

(* receiver_.Tick: the receipts, then the exit of the process. *)
ReceiverTick(r, receipts, expired, exited) ==
  LET Observe(state, m) == ObserveWork(state, m, expired, exited)
      after == Received(Observe, r, receipts)
  IN IF after.failed THEN after ELSE [after EXCEPT !.exit = @ \/ exited]

Fencing(r) == (r.idle \/ HasFence(r)) /\ AdmissionActive(r) /\ ~r.failed

CancelIfOver(t, expired, owned) ==
  IF HasFence(t.r) /\ (expired \/ ~owned) THEN [t EXCEPT !.r.fence.canceled = TRUE] ELSE t

(* BeginAcceptedWork stores the challenge before it sends it. *)
IssueChallenge(t, expired, exited) ==
  LET g == IF HasFence(t.r) THEN t.r.fence.generation ELSE 1
      n == t.r.sequence + 1
      issued == [t EXCEPT !.r.sequence = n,
                          !.r.work = [NoRunnerWork EXCEPT !.nonce = n, !.generation = g]]
  IN IF expired \/ t.r.fence.canceled THEN [t EXCEPT !.r = CancelAcceptedWork(@)]
     ELSE IF t.r.capability /\ ~HasWork(t.r)
     THEN SendToHost(SendToEngine(issued, Packet("Begin", n, g, NoCuts), exited),
                     Packet(IF HasFence(t.r) THEN "BEGIN callback" ELSE "BEGIN", n, g, NoCuts))
     ELSE t

(* Forward every receipt to the host once. *)
Forward_Repeats(t) ==
  LET w == t.r.work
      expect == IF w.cuts # NoCuts
                THEN SendToHost([t EXCEPT !.r.expectSent = TRUE], Packet("EXPECT", w.nonce, 0, w.cuts))
                ELSE t
      ack == IF w.acknowledged /\ ~t.r.ackSent /\ ~w.canceled
             THEN SendToHost([expect EXCEPT !.r.ackSent = TRUE], Packet("ACK", w.nonce, 0, w.cuts))
             ELSE expect
  IN IF w.refused /\ ~t.r.refusalSent
     THEN SendToHost([ack EXCEPT !.r.refusalSent = TRUE], Packet("REFUSE", w.nonce, 0, NoCuts))
     ELSE ack
Forward(t) ==
  LET w == t.r.work
      expect == IF w.cuts # NoCuts /\ ~t.r.expectSent
                THEN SendToHost([t EXCEPT !.r.expectSent = TRUE], Packet("EXPECT", w.nonce, 0, w.cuts))
                ELSE t
      ack == IF w.acknowledged /\ ~t.r.ackSent /\ ~w.canceled
             THEN SendToHost([expect EXCEPT !.r.ackSent = TRUE], Packet("ACK", w.nonce, 0, w.cuts))
             ELSE expect
  IN IF w.refused /\ ~t.r.refusalSent
     THEN SendToHost([ack EXCEPT !.r.refusalSent = TRUE], Packet("REFUSE", w.nonce, 0, NoCuts))
     ELSE ack

(* ResumeAcceptedWork, once the host is ready. *)
RequestResume(t, expired, exited) ==
  LET r == t.r
      asked == [t EXCEPT !.r.fence.resumeRequested = TRUE, !.r.work.resume = r.fence.generation + 1]
  IN IF ~(HasFence(r) /\ ~r.fence.canceled /\ ~expired /\ ~r.work.refused
          /\ r.fence.hostReady /\ r.work.acknowledged /\ ~r.fence.resumeRequested) THEN t
     ELSE IF RunnerAcceptedWorkReady(r) /\ r.work.resume = 0
     THEN SendToEngine(asked, Packet("Resume", r.work.nonce, r.fence.generation + 1, NoCuts), exited)
     ELSE [t EXCEPT !.r.fence.resumeRequested = TRUE, !.r.failed = TRUE]

ResumeHost(t, expired) ==
  LET r == t.r
  IN IF /\ HasFence(r) /\ ~r.fence.canceled /\ ~expired /\ ~r.work.refused /\ ~r.failed
        /\ r.work.resumed /\ ~r.fence.hostResumeSent
     THEN SendToHost([t EXCEPT !.r.fence.hostResumeSent = TRUE],
                     Packet("RESUME", r.work.nonce, r.fence.generation + 1, NoCuts))
     ELSE t

(* Tick: receipts are the packets the receiver reads in this turn. *)
Tick(t, receipts, expired, exited, owned) ==
  LET Asks(forwarded) == With(RequestResume(forwarded, expired, exited), LAMBDA u : ResumeHost(u, expired))
      Forwards(issued) == IF issued.r.failed THEN issued ELSE With(Forward(issued), Asks)
      Issues(seen) == IF ~Fencing(seen.r) THEN seen
                      ELSE With(IssueChallenge(CancelIfOver(seen, expired, owned), expired, exited), Forwards)
  IN With([t EXCEPT !.r = ReceiverTick(@, receipts, expired, exited)], Issues)

CallbackIterationFenceReady(r, expired, owned) ==
  /\ HasFence(r) /\ ~r.fence.canceled /\ ~expired /\ owned
  /\ r.fence.hostReady /\ r.fence.hostResumed /\ RunnerAcceptedWorkReady(r) /\ r.work.resumed

(* BeginCallbackIterationFence up to its Tick; the guard is its first test. *)
MayBeginFence(r, owned) ==
  /\ AdmissionActive(r) /\ ~r.idle /\ ~HasFence(r) /\ ~HasWork(r) /\ owned
  /\ r.completed < MaxFences
BeginFence(t, exited) ==
  LET g == t.r.generation
      begun == [t EXCEPT !.r.fence = [NoFence EXCEPT !.generation = g + 1], !.r.generation = g + 2]
  IN IF t.r.install THEN begun ELSE InstallAcceptedWork(begun, exited)

(* BeginAcceptedIdle up to its Tick. *)
MayBeginIdle(r) == AdmissionActive(r) /\ ~r.idle /\ ~HasFence(r) /\ r.generation = 0
BeginIdle(t, exited) == InstallAcceptedWork([t EXCEPT !.r.idle = TRUE], exited)

(* FinishCallbackIterationFence *)
FinishFence(r) ==
  [r EXCEPT !.fence = NoFence, !.work = NoRunnerWork, !.completed = @ + 1,
            !.expectSent = FALSE, !.ackSent = FALSE, !.refusalSent = FALSE]

(* ObserveOriginalDecoder: a late observation is kept and not passed on. *)
ObserveOriginalDecoder(t, m, expired, exited) ==
  LET w == t.r.work
      seen == [t EXCEPT !.r.work.observed = TRUE]
  IN IF w.cuts = NoCuts \/ w.cuts # m.cuts \/ w.observed \/ w.refused THEN [t EXCEPT !.r.failed = TRUE]
     ELSE IF w.canceled \/ expired \/ ~AdmissionActive(t.r) THEN seen
     ELSE SendToEngine(seen, Packet("Observed", w.nonce, 0, w.cuts), exited)

(* Packet(fields, now, stopped) up to its Tick. *)
FromHost(t, m, expired, exited, stopped) ==
  LET r == IF ~stopped THEN t.r
           ELSE IF m.kind = "OBSERVED" THEN CancelAcceptedWork(t.r)
           ELSE CancelAcceptedWork([t.r EXCEPT !.fence.canceled = TRUE])
      u == [t EXCEPT !.r = r]
      foreign == ~HasFence(t.r) \/ m.nonce # t.r.work.nonce
  IN CASE m.kind = "OBSERVED" -> ObserveOriginalDecoder(u, m, expired, exited)
       [] m.kind = "READY" ->
            IF foreign \/ r.fence.hostReady \/ ~r.work.acknowledged THEN [t EXCEPT !.r.failed = TRUE]
            ELSE [u EXCEPT !.r.fence.hostReady = TRUE]
       [] m.kind = "HOST_RESUMED" ->
            IF foreign \/ r.fence.hostResumed \/ ~r.fence.hostResumeSent \/ ~r.work.resumed
               \/ m.generation # r.fence.generation + 1 THEN [t EXCEPT !.r.failed = TRUE]
            ELSE [u EXCEPT !.r.fence.hostResumed = TRUE]
=============================================================================
