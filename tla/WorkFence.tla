----------------------------- MODULE WorkFence -----------------------------
(***************************************************************************)
(* A work fence across its three processes: the runner (RunnerWork), the   *)
(* SDK host (HostWork) and the browser's Engine (EngineWork), with the     *)
(* channels between them, the Engine's UI thread, its command reader and   *)
(* packet writer, and the thread that watches the Engine's socket          *)
(* (accepted_engine_work_wake.h).                                          *)
(*                                                                         *)
(* One UI task is one step.  A command's route task begins an operation;   *)
(* the operation ends in a CEF callback that answers at once or posts a    *)
(* task that does.  The ledgers of the reader and of the writer are        *)
(* modelled in full in CommandIntake and PacketWriter; here a command is   *)
(* in the reader's ledger until its route task returns, and a packet in    *)
(* the writer's until it is written.  The Engine is not closing.           *)
(***************************************************************************)
EXTENDS RunnerWork, HostWork, EngineWork, Functions

CONSTANTS Commands,    \* commands the client may write
          Controls,    \* those sent as controls, which no borrow gates
          Purposes,    \* fences the runner may begin: "callback", "idle"
          Faults,      \* what else may happen
          MaxFaults    \* and how many kinds of it in one behaviour

ASSUME WorkFenceAssumption ==
  /\ Controls \subseteq Commands /\ "none" \notin Commands
  /\ Purposes \subseteq {"callback", "idle"}
  /\ Faults \subseteq {"expire", "disown", "stop", "crash", "audit", "overflow"}
  /\ MaxFaults \in Nat
  /\ Nonces = 1 .. MaxFences + 1 \* one to spare

VARIABLES
  runner, host, engine, \* the records of the three processes
  alive,                \* the Engine's process runs
  toEngine, toRunner,   \* the Source's socket, one direction each
  toHost, fromHost,     \* the host's control channel
  stdin, stdout,        \* the browser's pipes
  ui,                   \* tasks posted to the UI thread, in order
  running,              \* operations_
  accepted,             \* stdin lines the reader has accepted
  queue,                \* the writer's control_
  published,            \* packets the writer has been given
  mark,                 \* the watermark: its cuts, and whether it was written
  wake,                 \* the watching thread and its eventfd
  past,                 \* generations whose deadline has passed
  owned, stopped,       \* the runner's iterationOwner hook, and its stop flag
  submitted, settled,   \* history: commands written, answers decoded
  before,               \* history: commands written before each barrier
  errored               \* history: an infrastructure error was published
                        \* while this nonce was the Engine's, 0 for none

channels == <<toEngine, toRunner, toHost, fromHost, stdin, stdout>>
engineVars == <<engine, alive, ui, running, accepted, queue, published, mark, wake>>
history == <<submitted, settled, before, errored>>
vars == <<runner, host, channels, engineVars, past, owned, stopped, history>>

NoCommand == "none"
NoMark == [cuts |-> NoCuts, written |-> FALSE]

Line(kind, c, ch) == [kind |-> kind, command |-> c, challenge |-> ch]
Task(kind, c, ch, sequence) == [kind |-> kind, command |-> c, challenge |-> ch, sequence |-> sequence]
WatchTask == Task("watch", NoCommand, NoChallenge, 0)
Output(kind, c, ok, cuts, sequence) ==
  [kind |-> kind, command |-> c, ok |-> ok, cuts |-> cuts, sequence |-> sequence]

Init ==
  /\ runner = InitRunner /\ host = InitHost /\ engine = InitEngine /\ alive = TRUE
  /\ toEngine = <<>> /\ toRunner = <<>> /\ toHost = <<>> /\ fromHost = <<>>
  /\ stdin = <<>> /\ stdout = <<>>
  /\ ui = <<>> /\ running = {} /\ accepted = 0 /\ queue = <<>> /\ published = 0 /\ mark = NoMark
  /\ wake = [at |-> "load", watching |-> FALSE, event |-> FALSE]
  /\ past = {} /\ owned = TRUE /\ stopped = FALSE
  /\ submitted = {} /\ settled = {} /\ before = [n \in Nonces |-> {}] /\ errored = {}

FaultsSoFar ==
  {k \in Faults : \/ k = "expire" /\ past # {}
                  \/ k = "disown" /\ ~owned
                  \/ k = "stop" /\ stopped
                  \/ k = "crash" /\ ~alive
                  \/ k = "audit" /\ engine.unattested
                  \/ k = "overflow" /\ errored # {}}
MayFault(k) == k \in Faults /\ Cardinality(FaultsSoFar \cup {k}) <= MaxFaults

-----------------------------------------------------------------------------
(* The runner.  Its loop ticks, reads the host's packets, and asks for and *)
(* finishes fences on behalf of the callback retries.                      *)

GenerationOf(r) == IF HasFence(r) THEN r.fence.generation ELSE 1
RunnerExpired == GenerationOf(runner) \in past

RunnerActs(t) ==
  /\ runner' = t.r /\ toEngine' = t.toEngine /\ toHost' = t.toHost
  /\ UNCHANGED <<host, fromHost, stdin, stdout, engineVars, past, owned, stopped, history>>

Ticked(t) == Tick(t, Batch(RunnerBatch, toRunner), GenerationOf(t.r) \in past, ~alive, owned)

RunnerTick ==
  /\ ~runner.failed
  /\ toRunner' = Rest(RunnerBatch, toRunner)
  /\ \E t \in {Ticked(Turn(runner, toEngine, toHost))} : RunnerActs(t)

RunnerPacket ==
  /\ ~runner.failed /\ fromHost # <<>>
  /\ \E t \in {FromHost(Turn(runner, toEngine, toHost), Head(fromHost), RunnerExpired, ~alive, stopped)} :
       \E u \in {IF t.r.failed THEN t ELSE Ticked(t)} :
         /\ runner' = u.r /\ toEngine' = u.toEngine /\ toHost' = u.toHost
         /\ toRunner' = IF t.r.failed THEN toRunner ELSE Rest(RunnerBatch, toRunner)
  /\ fromHost' = Tail(fromHost)
  /\ UNCHANGED <<host, stdin, stdout, engineVars, past, owned, stopped, history>>

RunnerBegin(purpose) ==
  LET t == Turn(runner, toEngine, toHost)
  IN /\ ~runner.failed /\ purpose \in Purposes
     /\ \/ /\ purpose = "callback" /\ MayBeginFence(runner, owned)
           /\ RunnerActs(Ticked(BeginFence(t, ~alive)))
        \/ /\ purpose = "idle" /\ MayBeginIdle(runner)
           /\ RunnerActs(Ticked(BeginIdle(t, ~alive)))
     /\ toRunner' = Rest(RunnerBatch, toRunner)

FenceReady == ~runner.failed /\ CallbackIterationFenceReady(runner, RunnerExpired, owned)

RunnerFinish ==
  /\ FenceReady
  /\ runner' = FinishFence(runner)
  /\ UNCHANGED <<host, channels, engineVars, past, owned, stopped, history>>

(* The callback the fence belongs to ends, or the run is told to stop. *)
Disown ==
  /\ MayFault("disown") /\ owned
  /\ owned' = FALSE
  /\ UNCHANGED <<runner, host, channels, engineVars, past, stopped, history>>

Stop ==
  /\ MayFault("stop") /\ ~stopped
  /\ stopped' = TRUE
  /\ UNCHANGED <<runner, host, channels, engineVars, past, owned, history>>

Expire ==
  /\ MayFault("expire") /\ (HasFence(runner) \/ runner.idle) /\ ~RunnerExpired
  /\ past' = past \cup {GenerationOf(runner)}
  /\ UNCHANGED <<runner, host, channels, engineVars, owned, stopped, history>>

-----------------------------------------------------------------------------
(* The SDK host.                                                           *)

HostCalls(c) ==
  /\ host' = c.h /\ fromHost' = c.toRunner
  /\ stdin' = stdin \o [i \in DOMAIN c.barriers |-> Line("barrier", NoCommand, c.barriers[i])]
  /\ before' = [n \in Nonces |->
                  IF \E i \in DOMAIN c.barriers : c.barriers[i].nonce = n THEN submitted ELSE before[n]]

HostCall == Call(host, fromHost, <<>>)

HostSubmit(c) ==
  /\ ~host.failed /\ c \in Commands \ submitted
  /\ c \notin Controls => AuthorAdmitted(host)
  /\ stdin' = Append(stdin, Line("command", c, NoChallenge))
  /\ submitted' = submitted \cup {c}
  /\ UNCHANGED <<runner, host, toEngine, toRunner, toHost, fromHost, stdout, engineVars,
                 past, owned, stopped, settled, before, errored>>

HostPacket ==
  /\ ~host.failed /\ toHost # <<>>
  /\ \E c \in {WorkPacket(HostCall, Head(toHost))} : HostCalls(c)
  /\ toHost' = Tail(toHost)
  /\ UNCHANGED <<runner, toEngine, toRunner, stdout, engineVars, past, owned, stopped,
                 submitted, settled, errored>>

Decoded(m) ==
  CASE m.kind = "reply" -> HostCall
    [] m.kind = "error" -> Throw(HostCall)
    [] m.kind = "answer" -> RawReturned(HostCall, m.ok)
    [] m.kind = "mark" -> WorkChanged(Observe(HostCall, m.cuts))

HostDecode ==
  /\ ~host.failed /\ stdout # <<>>
  /\ \E c \in {Decoded(Head(stdout))} : HostCalls(c)
  /\ stdout' = Tail(stdout)
  /\ settled' = settled \cup ({Head(stdout).command} \cap Commands)
  /\ UNCHANGED <<runner, toEngine, toRunner, toHost, engineVars, past, owned, stopped,
                 submitted, errored>>

(* fail: child.kill('SIGKILL') *)
HostKills ==
  /\ host.failed /\ alive
  /\ alive' = FALSE
  /\ UNCHANGED <<runner, host, channels, engine, ui, running, accepted, queue, published, mark,
                 wake, past, owned, stopped, history>>

-----------------------------------------------------------------------------
(* The Engine's process.                                                   *)

Crash ==
  /\ MayFault("crash") /\ alive
  /\ alive' = FALSE
  /\ UNCHANGED <<runner, host, channels, engine, ui, running, accepted, queue, published, mark,
                 wake, past, owned, stopped, history>>

otherProcesses == <<runner, host, toHost, fromHost, past, owned, stopped, submitted, settled, before>>

ReaderAccepts ==
  /\ alive /\ stdin # <<>>
  /\ LET l == Head(stdin)
     IN ui' = Append(ui, Task(l.kind, l.command, l.challenge, accepted + 1))
  /\ accepted' = accepted + 1 /\ stdin' = Tail(stdin)
  /\ UNCHANGED <<otherProcesses, errored, toEngine, toRunner, stdout, engine, alive, running, queue,
                 published, mark, wake>>

WriterWrites ==
  /\ alive /\ queue # <<>>
  /\ stdout' = Append(stdout, Head(queue)) /\ queue' = Tail(queue)
  /\ UNCHANGED <<otherProcesses, errored, toEngine, toRunner, stdin, engine, alive, ui, running, accepted,
                 published, mark, wake>>

(* EnqueueReadyWorkWatermarks and the write: the packet goes ahead of the  *)
(* control queue, once nothing from before its cuts is left.               *)
ReaderThrough(n) == \A i \in DOMAIN ui : ui[i].kind \in {"command", "barrier"} => ui[i].sequence > n
WatermarkReady_Early(cuts) == TRUE
WatermarkReady(cuts) ==
  ReaderThrough(cuts.reader) /\ \A i \in DOMAIN queue : queue[i].sequence > cuts.writer

WriterMarks ==
  /\ alive /\ mark # NoMark /\ ~mark.written /\ WatermarkReady(mark.cuts)
  /\ stdout' = Append(stdout, Output("mark", NoCommand, TRUE, mark.cuts, 0))
  /\ mark' = [mark EXCEPT !.written = TRUE]
  /\ UNCHANGED <<otherProcesses, errored, toEngine, toRunner, stdin, engine, alive, ui, running, accepted,
                 queue, published, wake>>

(* In a coordinator's task that leaves rest in the queue: the operation     *)
(* registry and every other task row must be empty.                         *)
ReadyAtBarrier(rest, posted) == rest = <<>> /\ ~posted
AcceptedWorkReady(rest, posted) == running = {} /\ ReadyAtBarrier(rest, posted)

(* What the end of a pump leaves behind. *)
EngineTurn(p) ==
  /\ engine' = p.e /\ toRunner' = p.toRunner /\ alive' = ~p.e.thrown
  /\ queue' = queue \o [i \in DOMAIN p.answers |->
                          Output("answer", NoCommand, p.answers[i], NoCuts, published + i)]
  /\ published' = published + Len(p.answers)
  /\ mark' = IF p.mark # NoCuts THEN [cuts |-> p.mark, written |-> FALSE]
             ELSE IF p.e.work.granted /\ ~engine.work.granted THEN NoMark ELSE mark

Pumped(e, ready) ==
  PumpAcceptedWork(e, toRunner, Batch(EngineBatch, toEngine), past, ready,
                   published, mark.written)

UIBarrier ==
  /\ alive /\ ui # <<>> /\ Head(ui).kind = "barrier"
  /\ \E p \in {AcceptBarrier(Pumped(engine, FALSE), Head(ui).challenge, accepted)} : EngineTurn(p)
  /\ toEngine' = Rest(EngineBatch, toEngine)
  /\ ui' = Tail(ui)
  /\ UNCHANGED <<otherProcesses, errored, stdin, stdout, running, accepted, wake>>

(* The task of the watching thread; its token wakes that thread as it ends. *)
UIWatch_NoWake ==
  /\ alive /\ ui # <<>> /\ Head(ui).kind = "watch"
  /\ \E p \in {Pumped(engine, AcceptedWorkReady(Tail(ui), engine.posted))} : EngineTurn(p)
  /\ toEngine' = Rest(EngineBatch, toEngine)
  /\ ui' = Tail(ui) /\ wake' = wake
  /\ UNCHANGED <<otherProcesses, errored, stdin, stdout, running, accepted>>
UIWatch ==
  /\ alive /\ ui # <<>> /\ Head(ui).kind = "watch"
  /\ \E p \in {Pumped(engine, AcceptedWorkReady(Tail(ui), engine.posted))} : EngineTurn(p)
  /\ toEngine' = Rest(EngineBatch, toEngine)
  /\ ui' = Tail(ui) /\ wake' = [wake EXCEPT !.event = TRUE]
  /\ UNCHANGED <<otherProcesses, errored, stdin, stdout, running, accepted>>

(* The delayed coordinator task of PostAcceptedWork. *)
UIDelayed ==
  /\ alive /\ engine.posted
  /\ \E p \in {Pumped([engine EXCEPT !.posted = FALSE], AcceptedWorkReady(ui, FALSE))} : EngineTurn(p)
  /\ toEngine' = Rest(EngineBatch, toEngine)
  /\ wake' = [wake EXCEPT !.event = TRUE]
  /\ UNCHANGED <<otherProcesses, errored, stdin, stdout, ui, running, accepted>>

UICommand ==
  /\ alive /\ ui # <<>> /\ Head(ui).kind = "command"
  /\ running' = running \cup {Head(ui).command}
  /\ ui' = Tail(ui)
  /\ UNCHANGED <<otherProcesses, errored, toEngine, toRunner, stdin, stdout, engine, alive, accepted,
                 queue, published, mark, wake>>

Reply(c) == queue' = Append(queue, Output("reply", c, TRUE, NoCuts, published + 1))
            /\ published' = published + 1

UIReply ==
  /\ alive /\ ui # <<>> /\ Head(ui).kind = "reply"
  /\ Reply(Head(ui).command)
  /\ ui' = Tail(ui)
  /\ UNCHANGED <<otherProcesses, errored, toEngine, toRunner, stdin, stdout, engine, alive, running,
                 accepted, mark, wake>>

OperationEnds(c) ==
  /\ alive /\ c \in running
  /\ running' = running \ {c}
  /\ \/ Reply(c) /\ UNCHANGED ui
     \/ /\ ui' = Append(ui, Task("reply", c, NoChallenge, 0))
        /\ UNCHANGED <<queue, published>>
  /\ UNCHANGED <<otherProcesses, errored, toEngine, toRunner, stdin, stdout, engine, alive, accepted,
                 mark, wake>>

(* A publication that the barrier cannot attest to. *)
PublishUnattested ==
  /\ MayFault("audit") /\ alive /\ ~engine.unattested
  /\ engine' = [engine EXCEPT !.unattested = TRUE]
  /\ UNCHANGED <<otherProcesses, errored, toEngine, toRunner, stdin, stdout, alive, ui, running, accepted,
                 queue, published, mark, wake>>

(* The event queue overflows: the error goes first, and past the audit. *)
EventOverflow ==
  /\ MayFault("overflow") /\ alive /\ errored = {}
  /\ queue' = <<Output("error", NoCommand, FALSE, NoCuts, published + 1)>> \o queue
  /\ published' = published + 1
  /\ errored' = {n \in Nonces : n > engine.nonce \/ (n = engine.nonce /\ engine.work # NoEngineWork
                                                     /\ ~engine.work.granted)} \cup {0}
  /\ UNCHANGED <<otherProcesses, toEngine, toRunner, stdin, stdout, engine, alive, ui, running, accepted,
                 mark, wake>>

-----------------------------------------------------------------------------
(* AcceptedEngineWorkWake: poll the socket unless a pump is pending, and   *)
(* the eventfd always.  The posts pending are the tokens of the tasks.     *)

Posts == Cardinality({i \in DOMAIN ui : ui[i].kind = "watch"}) + (IF engine.posted THEN 1 ELSE 0)
watcherUnchanged == <<otherProcesses, errored, channels, engine, alive, running, accepted, queue,
                      published, mark>>

WatcherLoads ==
  /\ alive /\ wake.at = "load"
  /\ wake' = [wake EXCEPT !.at = "wait", !.watching = (Posts = 0)]
  /\ UNCHANGED <<ui, watcherUnchanged>>

Readable == wake.watching /\ toEngine # <<>>
WatcherReturns ==
  /\ alive /\ wake.at = "wait" /\ (wake.event \/ Readable)
  /\ wake' = [wake EXCEPT !.event = FALSE, !.at = IF Readable THEN "post" ELSE "load"]
  /\ UNCHANGED <<ui, watcherUnchanged>>

WatcherPosts ==
  /\ alive /\ wake.at = "post"
  /\ ui' = Append(ui, WatchTask)
  /\ wake' = [wake EXCEPT !.at = "load"]
  /\ UNCHANGED watcherUnchanged

-----------------------------------------------------------------------------
Runner == RunnerTick \/ RunnerPacket \/ RunnerFinish
Host == HostPacket \/ HostDecode \/ HostKills
UI == UIBarrier \/ UIWatch \/ UICommand \/ UIReply
Writer == WriterWrites \/ WriterMarks
Watcher == WatcherLoads \/ WatcherReturns \/ WatcherPosts

Next ==
  \/ Runner \/ \E purpose \in Purposes : RunnerBegin(purpose)
  \/ Host \/ \E c \in Commands : HostSubmit(c)
  \/ UI \/ UIDelayed \/ ReaderAccepts \/ Writer \/ Watcher
  \/ \E c \in Commands : OperationEnds(c)
  \/ Disown \/ Stop \/ Expire \/ Crash \/ PublishUnattested \/ EventOverflow

(* Every thread keeps taking steps, whichever: the runner's loop, the host's *)
(* event loop, the Engine's UI thread, reader, writer and watcher.  A delayed *)
(* task comes due, and an operation ends (by its deadline if not before).     *)
(* Nothing says when a fault happens.                                         *)
Fairness ==
  /\ WF_vars(Runner) /\ WF_vars(Host)
  /\ WF_vars(UI) /\ WF_vars(UIDelayed) /\ WF_vars(ReaderAccepts) /\ WF_vars(Writer) /\ WF_vars(Watcher)
  /\ WF_vars(\E c \in Commands : OperationEnds(c))

Spec == Init /\ [][Next]_vars /\ Fairness

-----------------------------------------------------------------------------
PacketKinds == {"Install", "Begin", "Observed", "Resume", "Capability", "Cut", "Acknowledged",
                "Unsupported", "Resumed", "BEGIN", "BEGIN callback", "EXPECT", "ACK", "REFUSE",
                "RESUME", "OBSERVED", "READY", "HOST_RESUMED"}
CutsType == [nonce : Nonces \cup {0}, reader : Nat, writer : Nat]
PacketType == [kind : PacketKinds, nonce : Nonces \cup {0}, generation : Nat, cuts : CutsType]

(* The shape of the state.  The counters of the three processes agree: the *)
(* Engine and the host have met no nonce the runner did not issue, and the *)
(* runner has completed no fence the Engine has not resumed.               *)
TypeOK ==
  /\ toEngine \in Seq(PacketType) /\ toRunner \in Seq(PacketType)
  /\ toHost \in Seq(PacketType) /\ fromHost \in Seq(PacketType)
  /\ runner.work.cuts \in CutsType /\ engine.work.cuts \in CutsType
  /\ running \subseteq submitted /\ settled \subseteq submitted /\ submitted \subseteq Commands
  /\ runner.sequence \in Nonces \cup {0} /\ runner.completed \in 0 .. MaxFences
  /\ engine.nonce <= runner.sequence /\ host.last <= runner.sequence
  /\ runner.completed <= runner.sequence /\ 2 * runner.completed <= engine.generation + 1
  /\ wake.at \in {"load", "wait", "post"} /\ past \subseteq Nat

Verdict(n) ==
  IF n <= runner.completed THEN "resumed"
  ELSE IF n # runner.work.nonce THEN "open"
  ELSE IF runner.work.canceled \/ runner.work.refused THEN "denied"
  ELSE IF runner.work.acknowledged THEN "granted" ELSE "open"

Barrier == INSTANCE WorkBarrier
  WITH Rounds <- Nonces, asked <- {n \in Nonces : n <= host.last},
       verdict <- [n \in Nonces |-> Verdict(n)]

(* The fence implements its promise: the runner counts a challenge as      *)
(* acknowledged only when the host had decoded the answer of every command *)
(* it wrote before the barrier, and never after a refusal or cancellation. *)
BarrierSpec == Barrier!Spec

(* A worker may be reused on an idle barrier: then every authored command  *)
(* ever written is answered and decoded, not only those before the barrier *)
(* (native-source-work.ts, beforeAuthorAdmission).                         *)
IdleMeansQuiet ==
  runner.idle /\ RunnerAcceptedWorkReady(runner) => submitted \ Controls \subseteq settled

(* When a fence may be finished no packet of it is left anywhere, so the   *)
(* next fence meets none (FinishCallbackIterationFence clears the runner). *)
FenceLeavesNothing ==
  FenceReady =>
    /\ toEngine = <<>> /\ toRunner = <<>> /\ toHost = <<>> /\ fromHost = <<>>
    /\ engine.work = NoEngineWork /\ host.pending = NoPending /\ host.challenge = NoChallenge
    /\ mark = NoMark /\ \A m \in Range(stdout \o queue) : m.kind \notin {"answer", "mark"}

(* What the runner may rely on when a barrier is ready: an idle worker is  *)
(* quiet, a fence has left nothing behind, and the three processes agree   *)
(* on how far they have come.                                              *)
ReadySound == TypeOK /\ IdleMeansQuiet /\ FenceLeavesNothing

(* A fence never completes when the writer published an error before the   *)
(* Engine granted it, although that error goes past the publication audit  *)
(* (writer.cc, the event overflow).                                        *)
ErrorBlocksFence == \A n \in 1 .. runner.completed : n \notin errored

(* None of the three processes throws over a packet of another without a  *)
(* cause: a deadline that passed; for the host also an error packet, or a  *)
(* publication that made the Engine refuse; for the runner also that, or   *)
(* the death of the Engine.  The host's inbox is never poisoned: its       *)
(* history is as long as the runner's.                                     *)
FailureHasCause ==
  /\ ~host.poisoned
  /\ engine.thrown => past # {}
  /\ host.failed => past # {} \/ errored # {} \/ engine.unattested
  /\ runner.failed => past # {} \/ ~alive \/ engine.unattested

(* A fence that was begun ends: it completes, or the runner learns that it *)
(* is refused, canceled or without an Engine.  No wake-up is lost on the   *)
(* way, although the Engine polls nothing while it waits for OBSERVED.     *)
(* (A stop cancels the work and not the fence, which is then left to its   *)
(* deadline.)                                                              *)
FenceOver == \/ runner.fence.canceled \/ runner.work.refused \/ runner.exit \/ runner.failed
             \/ host.failed
FenceEnds == HasFence(runner) ~> (~HasFence(runner) \/ FenceOver \/ stopped)
=============================================================================
