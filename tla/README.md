# A verification project for SuiteCut's native browser and runner

SuiteCut drives real browsers for testing and recording. Its centre is the
native browser process (`native/browser`): a CEF host that reads JSON commands
from stdin, routes them on the CEF UI thread, and writes binary packets
(replies, events, captured frames and audio) to stdout. The native runner
(`native/runner`) decides which tests run when and in which worker process, and
asks a browser, through a *work fence*, whether everything accepted so far has
really finished; the SDK host (`src/*.ts`) stands between the two. This project
models these parts with TLA+, checks the models with TLC on small instances,
and proves the main results with TLAPS for every value of the constants.

## 1. Inventory

| Component | State | Operations | Talks to | Hard behaviour |
|---|---|---|---|---|
| Command reader (`page/commands.cc`, `page/lifecycle.cc`) | `queued_commands_`, `stopped_`, its thread | `ReadCommands`, `StopReader` | stdin, credits, reader ledger, UI task queue | waits in three places, is stopped from the UI thread |
| Reply credits (`command_credits.h`) | `used_`, `stopped_` | `Reserve`, `Release`, `Wake`, `Stop` | reader waits; UI and writer threads release | lost wakeups, double release aborts |
| Reader ledger (`accepted_stream_work.h`, `accepted_packet_receipt.h`) | 128 rows, ticket and cut counters, poison | `Admit`, `PostingReturned`, `NeverPosted`, `PostingUnwound`, `Enter`, `Returned`, `Cut`, `Through`, `ReleaseCut` | reader thread, UI thread | the task may run before the post call returns; exceptions |
| Publication ledger (same files) | 8192 rows, same counters | `Admit`, `Dequeue`, `Wrote`, `FullWrite`, `Dropped`, `WriteFailed`, `Cut`, `Through`, `ReleaseCut` | packet writer | drops, partial writes |
| Packet writer (`protocol/writer.cc`, `packet_write.h`) | four bounded queues, byte and packet budgets, eight watermark slots | `Send`, `TryEvent`, `Reply`, `Error`, `DropPage`, watermarks, `Run`, `Stop` | every CEF thread, stdout | eviction under a budget, condition variable, stop |
| Engine routing and operations (`runtime/commands.cc`, `runtime/lifecycle.cc`, `operation_registry.h`, `shutdown_fence.h`) | operations by id and generation, deadlines, one timer, `closing_`, the fence | `Route`, `CompleteContext`, `Deadlines`, `CloseAll`, `Idle` | everything | late callbacks, id reuse, re-entrancy, a timer that stops itself, shutdown order |
| Downloads (`download_controls.cc`, `download_files.h`) | a record per download, pages waiting for theirs | `Before`, `Updated`, `Finish`, `Tick`, `BeforePageClose` | CEF, the timer, page closing | a file that outlives its download, pages that close themselves |
| Work barrier (`controllers/work/accepted_engine_work.inc`, `runtime/accepted_work.cc`) | one `native_work_`, phases | `OriginalAcceptedWorkBarrier`, `PumpAcceptedWork` | both ledgers, task and inspector ledgers, runner socket | several cuts that must all pass, expiry |
| Task, inspector ledgers and wake (`accepted_task_work.h`, `accepted_inspector_work.h`, `accepted_engine_work_wake.h`) | rows as above; eventfd and posted count | admit, enter, retire, cut; watch, post, stop | barrier | a watcher thread, at most one post |
| Publication audit (`accepted_publication_audit.h`) | reason bits | `Published`, `ScreenshotAdmitted` | barrier | an error path that bypasses it |
| Pages, controllers (`page/`, `controllers/`, `*_controls.*`) | per-feature state machines | command handlers, DevTools callbacks | Engine, CEF | callbacks after close |
| Media and streams (`media_pipeline.cc`, `stream_pipeline.cc`) | encoder and sender threads | start, push, reconnect, stop | writer, network | reconnect, timing |
| Runner's work fence (`retained_source_receiver.h`, `runner_retained_sources.h`) | one challenge, one fence | `BeginCallbackIterationFence`, `Tick`, `Packet`, `FinishCallbackIterationFence` | Engine over a socket, host over its control channel | receipts late, crossed or refused; deadline, stop, death of the browser |
| Host's work fence (`native-work-watermark.ts`, `native-source-work.ts`) | an inbox of expectations and observed watermarks | `expect`, `observe`, `acknowledge`, `refuse`, `idleReady` | runner, stdout decoder | two channels without a common order |
| Parallel run (`work_group_pool.h`, `work_group_locks.h`, `project_descendants.h`, `native_runner.cc`) | groups and projects, leases, one batch of descendants, actors | `Next`, `WorkerStarted`, `WorkerExited`, `Complete`, `Stop`, `EmergencyDrain` | worker processes | dependencies, locks, slots and the batch wait for each other; crash, stop, retry |
| Retries and serial groups (`retry_plan.h`, `serial_group.h`, `runner_retry_plan.h`) | queue, active attempt, exit fence, waves | `Next`, `Finish`, `WorkerExited`, `ExcludeQueued`, `Stop` | the suite driver | an exit fence between two attempts, failures counted once |
| Nested suite driver (`native_runner.cc` `RunNestedHooks`, `suite_worker_plan.h`, `suite_tree.h`) | the open suites of a worker, what is finalized, the report | enter a suite, run a body, leave, retire the worker | both plans, the worker | two plans that must agree; a failing hook, body, output or worker |
| Rest of the runner (`native/runner`) | fixtures, output, attachments, reports, other pools | declare, filter, collect, publish | worker processes, files | mostly data |
| Native client (`native/client`) | pending calls | send, dispatch, close | external browsers | late replies |
| TypeScript SDK (`src/*.ts`) | pending commands | send, receive, close | stdin and stdout of the browser | ordering with the watermark |

What makes the modelled part correct: a cut that passes is truthful, for the
reader and for stdout alike; the bounded counters are exact, because a drift
aborts the process, wraps an unsigned integer or closes the intake for ever;
nothing accepted is lost except frames and audio dropped on purpose; threads
that are told to stop are joined. A fence is granted only when what was written
before it is answered and decoded, and ends whatever happens. Processes that
share a lock never overlap, a project runs after what it depends on, every run
ends, and its report says what really happened to each test.

PROJECT.json lists the hazards one by one, at the line where each bites, with
the property that would notice.

## 2. Modules

| Module | Models | Uses |
|---|---|---|
| `ReaderLedger` | `AcceptedReaderWork` | |
| `CommandIntake` | client, reader thread, UI thread, credits, the writer as far as it returns credits | EXTENDS `ReaderLedger` |
| `MCCommandIntake` | instances for TLC | EXTENDS `CommandIntake` |
| `CommandIntakeProofs` | inductive invariant and theorems | EXTENDS `CommandIntake` |
| `Erase` | what is left of a vector after an erase, as a function of its indices | |
| `PublicationLedger` | `AcceptedWriterWork` as operators on a record | |
| `PacketWriter` | `Writer`: queues, budgets, thread, watermarks, `Stop` | EXTENDS `PublicationLedger`, `Erase` |
| `MCPacketWriter` | instances for TLC | EXTENDS `PacketWriter` |
| `DataLemmas` | lemmas about minima, maxima and the elements of sequences | EXTENDS `Erase` |
| `PacketWriterProofs` | inductive invariant and theorems | EXTENDS `PacketWriter`, `DataLemmas` |
| `EngineLifecycle` | operations, deadlines, pages, downloads, shutdown fence: the Engine's UI thread | |
| `MCEngineLifecycle` | instances for TLC | EXTENDS `EngineLifecycle` |
| `EngineLifecycleProofs` | inductive invariant and theorems | EXTENDS `EngineLifecycle` |
| `WorkWire` | packets of a work fence and the order in which they are taken | |
| `RunnerWork`, `HostWork`, `EngineWork` | the three processes' sides of a fence, as operators on a record each | EXTENDS `WorkWire` |
| `WorkFence` | their composition: channels, UI thread, reader, writer, watching thread, faults | EXTENDS the three, INSTANCE `WorkBarrier` |
| `WorkBarrier` | the abstract specification of a fence | |
| `MCWorkFence` | instances for TLC | EXTENDS `WorkFence` |
| `WorkFenceProofs` | inductive invariant, theorems, refinement of `WorkBarrier` | EXTENDS `WorkFence`, `DataLemmas` |
| `WorkGroupPool` | `WorkGroupPool`, `WorkGroupLocks` and the project graph, as operators | |
| `GroupRun` | `RunTestGroups`: coordinator, actors, batch of descendants, emergency drain, report | EXTENDS `WorkGroupPool` |
| `MCGroupRun` | plans for TLC | EXTENDS `GroupRun` |
| `GroupRunProofs` | what each operation makes of a pool; inductive invariant and theorems | EXTENDS `GroupRun`, `DataLemmas` |
| `RetryPlan` | `RunnerRetryPlan`, `RetryPlan`, `SerialGroup`, as operators on a plan | EXTENDS `Erase` |
| `SuitePlan` | `NativeSuiteWorkerPlan` and the routes of the suite tree, as operators | EXTENDS `Erase` |
| `NestedRun` | `RunNestedHooks` and what `RunSerial` does around it | EXTENDS `RetryPlan`, `SuitePlan` |
| `MCNestedRun` | declarations for TLC | EXTENDS `NestedRun` |
| `NestedRunProofs` | what each operation keeps of a retry plan, leaves to come and counts; inductive invariant and theorems | EXTENDS `NestedRun`, `DataLemmas` |
| `NestedSuitesProofs` | the two plans and the worker together, and the theorems that need them | EXTENDS `NestedRunProofs` |

A definition named `X_Y` is `X` with the mistake `Y` in it. It is never part of
a specification: PROJECT.json ("mutants") says which property fails when `X` is
replaced by it.

### ReaderLedger and CommandIntake

Every member function of the ledger runs under the ledger's mutex, so each is
one operator on `rows`, `next`, `cuts`, `nonce`, `poisoned`. The rows are kept
by ticket; the array of 128 slots is the bound `RowCap` on the active ones.
Ticket 0 is `std::nullopt`, which `Admit` returns once the ledger is poisoned.

The reader thread is a program counter `rpc`, split wherever another thread can
come in between:

| `rpc` | `Source::ReadCommands` |
|---|---|
| `read` | poll and read |
| `capacity` | `command_capacity_.wait`; every writer of that predicate holds the mutex and notifies, so the wait is a guard |
| `admit` | the `AcceptedPostReceipt` is constructed |
| `reserve`, `evaluated`, `asleep` | `Reserve`; `evaluated` is the window in which the predicate was false and the thread does not sleep yet (the mutex is held) |
| `post`, `accepted`, `declined` | inside `CefPostTask`: the task can be queued and can run before the call returns |
| `exit`, `done`, `crashed` | `CloseAll` posted; thread over; exception |

The UI thread runs posted tasks in order, and may nest a task inside `Route`
(`Depth`). `Route` answers at once, rejects the line, starts an operation of
the Engine or of a page, or takes a barrier cut. `CloseAll` answers the
Engine's operations. `StopReader`, `WakeReaders` and `JoinReader` are the three
steps of `Source::StopReader`. `stage`, `promised` are history variables: what
really happened to each command, and which commands each cut promised.

### PublicationLedger and PacketWriter

Producers act in one step each, under `mutex_`. The writer thread holds
`mutex_` (`locked`) while its predicate is false and it does not sleep yet, and
between the predicate and the packet it takes. `Stop` does not take `mutex_`,
so its four steps interleave with everything. `SendFrame` computes the loop of
`Send`, which pops pages until the frame fits, by the number of pops it needs.
`made`, `wire` and `gone` are history variables: packets accepted, packets on
stdout, packets dropped.

`TakeFromEmpty` stands for reading the front of an empty deque, which is
undefined; the model ends there. `TakesOnlyQueuedPackets` says that it takes a
poisoned ledger to get there.

Packets have sizes in abstract units. Headers, dropped-frame counts,
the failure of an allocation and the publication audit are left out.

### EngineLifecycle

Everything here happens on the UI thread, so an action is one task or CEF
callback, and what is hard is their order. `Begin` is the part of `Route` that
registers an operation and starts the timer; its completion is a member of
`callbacks`, which stays there after the operation was canceled, timed out or
answered by `CloseAll`, and may be delivered once the client reuses the id. A
`newPage` command reserves a page: its callback is the page's creation.

| `pages[p]` | Code |
|---|---|
| `creating`, `doomed` | in `pages_` without a browser; `doomed` has `closing` set already |
| `open` | has a browser |
| `draining` | `BeginPageClose` was called; HAR, recording and streaming are asked first |
| `closing` | in `page_closures_`, waiting for its download |
| `leaving` | `CloseBrowser(true)` was called |
| `closed` | `OnBeforeClose` ran |

| `download[p]` | Record |
|---|---|
| `running` | neither `cancel_requested` nor `settled` |
| `canceling` | `cancel_requested` |
| `settled` | CEF reported its end |
| `done` | `physical_settled` |

`descriptor[p]` is what `HasOpenDescriptor` finds in `/proc`: CEF closes the
file on another thread, before or after it reports the end. `Deadlines` is one
action: expired operations, `DownloadControls::Tick`, `Idle`, and the decision
to go on. `Works` are the remaining blockers of `CanShutdown` that use the same
timer. `answers` and `creator` are history variables.

### WorkWire, RunnerWork, HostWork, EngineWork and WorkFence

Each process is a record and each of its entry points an operator on it, since
each runs on one thread: the runner's loop, the host's event loop, the Engine's
UI thread. `WorkFence` has one action for each of them, for the reader, the
writer and the watching thread, and the channels between: `toEngine` and
`toRunner` (the Source's socket), `toHost` and `fromHost` (control channel),
`stdin` and `stdout`.

A fence goes: the runner installs and begins a challenge and tells the host;
the host sends the barrier as a command behind all it has written; the Engine,
when nothing but the barrier is in its ledgers, sends the cut to the runner and
writes a watermark to stdout; the runner forwards the cut as an expectation, the
host pairs it with the watermark it decodes and reports OBSERVED; the Engine
acknowledges and answers; runner, Engine and host resume in turn. It can be
refused (an unattested publication, an expired deadline), canceled (deadline,
end of the callback), or cut short by the death of the browser.

`RunnerTick` and `RunnerPacket` are whole calls of `RunnerRetainedSources`,
every receipt of a batch included. The watching thread is three steps (load the
count of pending pumps, poll, post), because the pump's end and a packet's
arrival fall between them. The ledgers of reader and writer, modelled in full
in `CommandIntake` and `PacketWriter`, are here what they promise: a command is
in the reader's until its route task returns, a packet in the writer's until it
is written. The borrows of one Source, one client and an Engine that is not
closing are modelled; registration and start of Sources are not. A closing
Engine no longer runs `PumpAcceptedWork`, and leaves a barrier it has accepted to
the runner's deadline; no property says so.

`WorkBarrier` states the promise with five variables and no processes: a round
is granted only when the answer to every command written before it was asked
for has been decoded, at most once, never after a denial, and rounds do not
overlap. `WorkFence` implements it (`BarrierSpec`) under the mapping `Verdict`,
which reads what the runner would answer about a nonce.

### WorkGroupPool and GroupRun

The coordinator and its actors are coroutines of one thread, so `pool` and
`locks` are values that its steps thread through. A pass fills the free slots
(`Next` of the pool: one step for each project the scan stops at, because it
can block a project and start over), resumes every actor once, and lets the
batch of descendants retire. A group is admitted at most once, so it stands for
its admission, its worker's index and its pid.

| `actor[g]` | `RunActor` |
|---|---|
| `reserved` | admitted, no worker yet (the batch may be closed) |
| `loading`, `executing` | the worker loads its declarations, runs its tests |
| `closing`, `arrived` | the worker is to exit; it has, and waits for the batch |
| `retrying` | a retry needs another worker |
| `done` | completed |

`batch` is `ProjectDescendants`: it retires only when every member has arrived,
and nobody starts a worker meanwhile. What a worker runs is one step with an
outcome. An exception starts `EmergencyDrain`, which settles every owner by its
own receipt; actors whose start failed are left to it. A group without locks
has the empty set of names. The failure limit that projects share enters as the
stop request it becomes.

### RetryPlan, SuitePlan and NestedRun

`RunNestedHooks` asks one plan which test to attempt and another which suites to
enter and leave for it; neither knows of the other. `NestedRun` is that
coroutine, one action up to each wait:

| `at` | Where |
|---|---|
| `loop` | top of the loop: stop, start of a worker, next attempt |
| `prepare`, `enter` | `PrepareOutput`; `beforeAll` of the suites to enter |
| `run`, `body`, `decide` | test body, or its omission; is the worker to be retired? |
| `close` | `afterAll` of the suites to leave |
| `retire` | the result is in both plans and in the report; the worker may go |
| `report`, `throw`, `ended` | `RunSerial` closes the worker and marks what is unrun |

`run` holds the flags of the current attempt. An ending of a hook or a body is
an outcome, whether a stop was seen meanwhile, and whether the worker was found
exited with it. A suite's `beforeAll` hooks count as one and so do its
`afterAll` hooks; `beforeEach`, `afterEach`, fixtures and soft assertions are
part of the body's outcome. Generations and pids are left out: a worker is its
index. `open` and `left` are history variables: what this worker has entered
and left.

## 3. Runs

Where a `.cfg` names a conjunction (`QueuesSound`, `RunsSound`, ...) its parts
are properties of their own, each with its comment in the module.

| Run | Shows |
|---|---|
| `intake_safety` | Cuts are truthful, passed cuts stay passed, both counters are exact and load alone never poisons the ledger; with refused posts, exceptions, re-entrant routing |
| `intake_live` | `StopReader` returns wherever the reader waits, even with a dead writer; while the writer lives, closing stdin closes the browser and a cut passes |
| `writer_queues` | Queues, order, budgets and ledger agree under replacement, eviction, `DropPage`, overflow and drain; a watermark on stdout is a truthful cut; with partial and failed writes, `Stop` and a poisoned reader ledger |
| `writer_load` | The smallest ledger the queues' bounds allow never runs out of rows; accepted replies and queued watermarks reach stdout; `Stop` returns but for the window of item 4 below |
| `engine_lifecycle` | Operations are answered once and before the browser quits, late callbacks and late pages do no harm, deadlines fire, pages close whatever their download does, and the browser quits unless a download or a refused quit task holds it back |
| `engine_shutdown_download` | *Violated.* A download whose file is still open at the last tick holds the shutdown for ever |
| `fence_safety` | The fence implements `WorkBarrier`; an idle barrier means a quiet client; a finished fence leaves no packet behind; the three processes' counters agree |
| `fence_faults` | With any one fault: an error past the audit still blocks the fence, a process throws only for a cause, the host's inbox is never poisoned, and every fence ends |
| `group_plans` | For every dependency graph of three projects: locks exclude, dependencies come first, what is settled stays, the report is true |
| `group_faults` | The same through retries, crashes, failed starts, processes that stay, stop and drain; no policy throws over another, and the drain settles every owner once all have gone; nothing starts after a stop; every run ends |
| `nested_run` | The two plans keep step, bodies run inside exactly their suites, a failure ends its worker, a live worker leaves its suites before it goes, and the report accounts for every test, retry and failure |
| `nested_unrun` | *Violated.* A test that was attempted is reported as never run |

**Bounds.** `intake_safety` has six lines for a queue of two, two credits and a
route stack of two: the reader meets a full queue and
exhausted credits, a task returns before and after its post call, and a second
task nests in the first. Four rows are the least that two queued commands, two
frames and a post in progress can need at once: one less and
`NeverPoisonedByLoad` fails. There are two more lines, and tickets for them, so
that a row which is not freed is missed before the lines end.
The liveness runs are smaller, because TLC's liveness check is the expensive
part; they keep more lines than credits. `writer_queues` has three pages,
frames of one and two units in a budget of two, so that a frame evicts none,
one or two others and its own page can be met by the loop; pages without sound
are interchangeable (symmetry; the run has no temporal property). One event
or two fit and the next overflows, by its bytes or by their count, one
reply fits and the next is sent empty, and there is one watermark slot.
`writer_load` has frames and replies but no events: a frame in the queue, a
reply and a packet in the thread's hands need three rows, and with two
`NeverPoisonedByLoad` fails. Four packets and a watermark use five tickets, so
that a row that is not freed, or a credit that is not kept, leaves a later
packet without one; with events in addition the rows that are needed and the
packets that would exhaust them are more than a liveness check allows, and
that their count is bounded is left to `writer_queues`. `MaxPackets` bounds
the packets a behaviour accepts, `MaxTicket` and `MaxNonce` stand for the end
of the 64-bit counters. `engine_lifecycle` has two ids and two operations, so
that an id is reused while the first callback is still to come and the second
operation finds its capacity of one taken; page 1 with a download, page 2 to be
created, and one background job. `engine_shutdown_download` needs only page 1
and its download.

The fence runs make two fences in a row, the bound `MaxFences` and `HistoryCap`
being two instead of 64 (they are equal in the code, and `FailureHasCause`
says that the host's inbox is therefore never full); two commands, one of them
not gated, are written before, between or after. `MaxFaults` is how many of the kinds of fault one behaviour
may have: two at once are a product, not a new case, of the handlers' branches.
`group_plans` takes every graph on three projects, every teardown it allows and
two lock assignments, with two workers for four groups; `group_faults` three
plans whose locks cross the dependencies, three workers and one retry.
`nested_run` has 20 declarations of three tests in up to three suites (flat,
one inner suite, two siblings, three levels), with no, the outer or an inner
serial suite, retries 1, 0, 1, a declared failure, hooks on all suites or one,
and a failure limit; three things per behaviour may go wrong (`MaxFaults`),
enough for a failure in each of two waves and a stop between them.

**Fairness.** Each thread is scheduled (weak fairness of the reader, of the UI
steps, of the writer thread). In `CommandIntake`
operations end because the client gave each a deadline (`timeoutMs` 0 would ask
for none), which `Engine::Deadlines` enforces; that the timer does so is checked
in `EngineLifecycle`, where an operation may have no deadline and no fairness
makes its callback come. There, posted tasks run, clocks advance, CEF creates
and closes the browsers it was asked to, closes the files of downloads that
end, and background work ends. CEF reports the end of a canceled download only
as long as the page's browser exists, which is what `DownloadControls::Tick`
provides for. Nothing is assumed of the client, of a
barrier being granted, of a fatal failure, or of `Stop` being called.
`WorkChanged` also stands for spurious wakeups of the condition variable and is
given no fairness, because neither may be relied upon.

In `WorkFence` each of the threads goes on, the delayed task of the pump comes
due, and operations end; nothing makes a fault happen, so `FenceEnds` does not
rest on the deadline. A stop that comes with OBSERVED cancels the work and not
the fence, which is then left to its deadline: `FenceEnds` excludes it. In
`GroupRun` the coordinator's thread runs, a worker says something or reaches a
deadline, one that is to close exits or is killed (`CloseWorker` does so after
a time), and so do descendants. `NestedRun` needs no fairness: its attempts are
finitely many (`RetriesIncrease`), and a run that cannot deadlock ends.

**Deadlock** is checked in every run but those of the Engine and of the fence,
whose threads may have nothing to do: an idle browser with nothing left to
bound, or one that has quit. Elsewhere a behaviour ends where the process does:
the reader is joined, the writer is joined, the report is published or refused,
or an exception or undefined behaviour ended it; these states stutter
explicitly.

## 4. Disagreements between the code and what is written about it

Two are runs:

1. `engine_shutdown_download`: "The engine still waits for an empty Source
   registry and physical work to drain. The deferred shutdown fence commits one
   quit request after callbacks unwind." (`native/browser/ARCHITECTURE.md:53`).
   While closing, `Deadlines` stops its timer without asking
   `downloads_->NeedsTick()`, which `CanShutdown` does ask. If `Finish` found
   the file of a canceled download still open, only a tick would finish it, and
   the page that waits for it, and the quit, wait for ever.
   `ShutdownWithoutDownloads` is what the code keeps.
2. `nested_unrun`: "Declared tests that never ran are separate `unrun` records"
   (`native/runner/README.md:426`). When a `beforeAll` fails on the last retry,
   `RunNestedHooks` reports every test of its suite as unrun that is not in
   `finalized`, and members of a serial group get there only when the group is
   done. Those already attempted are then in both lists, and the report is
   refused (`runner_report.h:126`). `EveryTestReported` is what the code keeps.

The others are what a property had to leave out, in the words of its comment:

3. `EofClosesWhileWriting`: "EOF requests graceful browser shutdown"
   (`native/browser/README.md:610`). `Writer::Run` returns on a write error
   without waking the reader or telling the Engine; if all credits are out the
   reader waits in `Reserve` for one that will not come.
4. `StopReturns`: `Writer::Stop` sets `stopping_` and notifies without
   `mutex_`. If the writer thread has found its predicate false and does not
   sleep yet, the notification is lost and `join` waits for ever. The same race
   is avoided, with a comment, in `command_credits.h:25`.
5. `TakesOnlyQueuedPackets`: the wait predicate of `Writer::Run` includes
   `WorkWatermarkReady()`, which is evaluated again when watermarks are
   enqueued. Poisoning a ledger in between takes no `mutex_` (the first line of
   `Stop` does it), so nothing is enqueued and `frame_order_.front()` is read
   from an empty deque.
6. `FailureHasCause`, deadlines: "Expiration is a refusal"
   (`accepted_engine_work.inc:92`). A `Begin` that the UI thread reads after its
   deadline throws out of the CEF task instead (line 64). After the cut the
   pump waits for OBSERVED without posting itself (line 112), and the runner
   keeps OBSERVED back after the deadline, so nothing runs the test of line 91
   and the barrier command is not answered; the runner's own deadline ends the
   fence.
7. `FailureHasCause`, refusals: "Exact native refusal selects physical
   fresh-host cleanup, not browser failure" (`src/native-source-work.ts:143`).
   If the Engine refuses after its watermark was written, the watermark is
   decoded after the refusal, `match` throws, and the browser is killed.
8. `AbortHasCause`: a test declared to fail that passes, or a stop, with a
   later test in the same hooked suite: the suite plan has moved on when the
   worker is to be retired, the hook is run on behalf of the next test, and
   `RunNestedAll` throws "associated attempt mismatch" (`native_runner.cc:849`).
   And an output directory that cannot be had leaves the test pending, so that
   `RetireAfterCurrentTest` throws if it is called.
9. `LeavesBeforeExit`: "Before calling `Retired`, the adapter must close
   relevant beforeAll/afterAll scopes" (`native/runner/serial_groups.md:49`). A
   run-time `test.fail()` whose test passes, and a `beforeAll` that skips the
   rest of a serial group, retire a live worker without `afterAll`.

## 5. Proofs

TLC checks instances with a handful of commands, packets, pages or groups. The
theorems below hold for every value of the constants, under the assumptions
that the modules state about them and that TLC evaluates in each run.

| Module | Theorem | Statement |
|---|---|---|
| `CommandIntakeProofs` | `TypeCorrect` | `Spec => []TypeOK` |
| | `QueueIsCounted` | `Spec => []QueueAccounting` |
| | `CreditsAreConserved` | `Spec => []CreditConservation` |
| | `CutsAreSound` | `Spec => []CutSound` |
| | `CutsStayPassed` | `Spec => PassedCutsStay` |
| | `LoadNeverPoisons` | `NeverPoisonedByLoad` always, if `QueueCap + Depth <= RowCap` |
| `PacketWriterProofs` | `WatermarksAreTruthful` | `Spec => []WatermarkSound` |
| | `ControlStaysInOrder` | `Spec => []ControlInOrder` |
| | `EmptyTakesArePoisoned` | `Spec => []TakesOnlyQueuedPackets` |
| | `LedgerIsTruthful` | `Spec => []LedgerMatchesQueues` |
| | `BudgetInvHolds` | `Spec => []BudgetInv`: the counters tell what the queues hold |
| | `TypesHold` | `Spec => []TypeOK` |
| | `QueuesStaySound` | `Spec => []QueuesSound` |
| `EngineLifecycleProofs` | `AnswersAreSound` | `Spec => []AnswersSound` |
| | `NoPageIsOrphaned` | `Spec => []NoOrphanPages` |
| `WorkFenceProofs` | `FenceInvHolds` | `Spec => []FenceInv`: what each process and each packet may know |
| | `FenceKeepsItsPromise` | `Spec => BarrierSpec`: the three processes implement `WorkBarrier` |
| | `ErrorsBlockFences` | `Spec => []ErrorBlocksFence` |
| | `IdleWorkersAreQuiet` | `Spec => []IdleMeansQuiet`, a part of `ReadySound` |
| `GroupRunProofs` | `RunsAreSound` | `Spec => []RunsSound` |
| | `ReportsAreTrue` | `Spec => []ReportIsTrue` |
| | `OnlyOutsideFails` | `Spec => FailsOnlyFromOutside`: no policy throws, and the drain settles every owner |
| | `SettledIsFinal` | `Spec => SettledStays` |
| | `StoppedAdmitsNothing` | `Spec => StopAdmitsNothing` |
| `NestedRunProofs` | `AttemptsAreSound` | `Spec => []AttemptsSound` |
| | `AllReported` | `Spec => []EveryTestReported` |
| `NestedSuitesProofs` | `BodiesInsideSuites` | `Spec => []BodyInsideSuites` |
| | `AgreeInvHolds` | `Spec => []AgreeInv`: the two plans stay in step |
| | `AbortsHaveCause` | `Spec => []AbortHasCause` |
| | `LeavesSuitesBeforeExit` | `Spec => []LeavesBeforeExit` |
| | `FailuresCountTests` | `Spec => []FailuresAreTests` |

Each module also proves that its inductive invariant holds in every behaviour
(`IInvHolds` or, of the fence, `FenceInvHolds`). None of the properties is inductive by itself. The
invariants were model-checked on the runs before they were proved.

### CommandIntake

Assumed: `LedgerAssumption` and `IntakeAssumption`, that is, the numbers of
commands, rows, tickets, cuts, credits and queue slots are natural numbers, and
there is at least one credit, one queue slot and one frame of the route stack.

`CutSound` speaks of the ledger's answer, and what makes the answer right is
spread over the reader's program counter, the row of each command and the
ticket it holds. The invariant `IInv` has four parts:

- `TypeInv`: types without the counters' bounds;
- `ReaderInv`: the program counter of the reader determines the stage of the
  line it works on, and lines after it are unread;
- `RowsInv`: on a sound ledger every command that is held, posting, queued,
  running, or inside its post call owns an active row of its own that says
  exactly that (`RowTells`); this is the part that carries the race between the
  task and the return of `CefPostTask`;
- `CutsInv`: the commands that a cut promised were admitted before it, so they
  hold tickets up to its sequence.

A cut passes when no row up to its sequence is active. By `CutsInv` a promised
command's ticket is among those, and by `RowsInv` an unfinished command's row
is active: hence a passed cut promises only finished commands. `CutsStayPassed`
follows since only `Admit` activates a row, always beyond the sequence of every
cut. The counters are separate: `CountInv` says that each is the cardinality of
the set it counts, and the lemma `FollowsCounts` reduces a step to "one element
enters and the counter grows by one, or leaves and it shrinks, or neither".

`LoadNeverPoisons` needs the converse of `RowsInv`: every active row belongs to
a command that is counted in `queued_commands_` or has a frame on the route
stack. Then rows run out only if there are more of those than rows. The
hypothesis `QueueCap + Depth <= RowCap` is the reason for the sizes in the code:
128 rows, 64 queued commands.

### PacketWriter

Assumed: `PublicationAssumption` and `WriterAssumption`. Sizes and budgets are
arbitrary. `IInv` mentions neither a size nor a byte counter, so whether and
when a packet is dropped for space does not matter to what follows from it
alone: the first four theorems.

- `PacketInv`: every accepted packet is pending, on the wire, or dropped and of
  a kind that may be dropped (`Out`); as long as the ledger is sound, each
  pending packet has an active row of its own and there are no other active
  rows (`Counted`); a watermark that is pending is already true (`Truthful`);
- `QueueInv` and `FrameInv`: the three queues hold different kinds and no packet
  twice, and `frame_order_` lists every page with a frame once;
- `MarkInv`: the cut of a waiting watermark is the number of packets accepted
  before it;
- `WireInv`: replies and events are in order through the queue, the thread's
  hands and stdout together;
- `TakeInv`: between its predicate and its take the thread has the mutex.

A watermark is enqueued when its cut passed, that is, when no row up to the cut
is active. By `Counted`, the packets before the cut are out, so it is
`Truthful`, and stays so since what is out stays out. `WatermarkSound` is
`Truthful` at the time the watermark reaches stdout. `Counted` needs that ids
are not reused and that each erase removes exactly what it says, which is what
the lemmas of `DataLemmas` (`PushBackElements`, `PopFrontElements`,
`KeptElements`) are for.

`QueuesSound` and `TypeOK` also need the counters, and those are sums. `SumSizes`
is a fold, which the library defines by a recursive function on the subsets of
what it adds up. `Sums` says what that function returns, `Agree` that it does
not depend on the set whose subsets it is defined on; by induction on a
cardinality (`Upwards`) the order of the additions does not matter (`Adds`).
From this follow the three facts that the Writer needs: the sum of a set with
one packet more, of two sets apart, and of what is left when some are taken
away (`SumApart`, `SumLess`). `BudgetInv` then stands on `IInv`:

- `FrameBudgetInv`: `frame_bytes_` is the sum of the queued frames. When `Send`
  has popped pages until the new frame fits, the others with the new one are
  within the budget; a pop subtracts the size of a frame that is a part of the
  sum, so the subtraction never wraps. The assumption that one frame is within
  the budget is used where every other page was popped;
- `EventBudgetInv` and `ReplyBudgetInv`: the events in `control_`, and the
  replies in it or in the thread's hands, are as many and as heavy as counted;
- `HeldInv`: the packet in the thread's hands is in no queue any more, and it has
  none while it waits; `ThreadInv`: the types of the rest.

### EngineLifecycle

Assumed: `EngineAssumption`. `IInv` has `RegistryInv` (generations of registered
operations are different, the counters count them, an operation that is not
registered any more was answered once), `PageInv` (a callback that creates a
page belongs to the operation that reserved it) and `StateInv` (`CloseAll`
answered every operation; the fence commits only in an Engine that closes).
The hard cases are callbacks that come late: generations are never reused, so a
callback finds either its own operation or none, even under an id that was used
again.

### WorkFence

Assumed: `RunnerWorkAssumption`, `HostWorkAssumption`, `EngineWorkAssumption`
and `WorkFenceAssumption`: numbers of fences and sizes are natural numbers, challenges are
numbered from 1, controls are commands, and no command is called `"none"`, which
stands for the absence of one. Commands, fences, the length of every channel,
the size of every batch and the number of faults are otherwise arbitrary.

No process sees another's state, so the invariant says what each may conclude
from its own record and from the packets on their way to it. Three sets of
challenges carry it: those the Engine has granted (`GrantedBy`), those that are
`Quiet` (asked for, and every command written before is decoded), and those that
are `Good` (granted, and no error published before).

- `RunnerOK`: a challenge that the runner holds as observed is quiet, one that
  it holds as acknowledged is granted, one it has completed is good; it is never
  more than one challenge ahead of Engine and host.
- `HostOK`: OBSERVED is sent of a quiet challenge only, HOST_RESUMED of a good
  one only, and a pending barrier whose error was decoded is not answered.
- `EngineOK`: Acknowledged is sent of a granted challenge only.
- `TokenInv`: the barrier command is in one place at most of stdin, the UI
  thread's queue, the Engine's hand, the writer's queue and stdout, so a
  challenge is never answered twice.
- `PlaceInv` and `MarkInv`: where every command is; a barrier in stdin has
  behind it no command that was written before it, and a watermark has the
  answers of all of those ahead of it. Hence a decoded watermark means quiet.
- `ErrorInv`: an error that the writer has published and the host not decoded is
  ahead, in its queue or in stdout, of every answer given after it; so the host
  learns of it before it learns that the barrier was answered.
- `LoneInv`: an idle worker has submitted only controls since its barrier.

A turn of the runner and a pump of the Engine take a batch of packets by a fold
(`Received`). `RunExists` gives the sequence of its intermediate states and
`Upwards` (of `DataLemmas`) is the induction on the places of a batch, by the
least place where a property fails; what one packet keeps, a batch then keeps (`ReceiptsKeep`,
`DrainKeeps`). The lemmas of the three records do not mention the channels, and
one lemma for each action puts a record's change into the pipes.

The refinement follows. A turn of the runner changes the verdict of at most one
challenge (`TurnJudges`), and grants it only if it is quiet; the host asks for
the next one only after the runner has resumed the last (`AsksNext`, from the
counters); each of the other steps is `Submit`, `Settle` or a stutter.

### GroupRun

Assumed: `WorkGroupAssumption` and `GroupRunAssumption` (finite sets of groups
and projects, none of them the number 0, one to eight workers) and nothing about the plan but
what the pool's constructor accepts: `Spec` starts from any accepted plan.
Its first half shows which facts `PoolInv` each operation of the pool
keeps, and that none revises what has settled (`Settles`). `IInv` adds
`LeaseInv` (the groups with a slot are the holders of leases, each of all its
names, and a lease outlives its owner's place in the pool), `SlotInv`,
`ActorInv` (a process, a member of the batch, a worker of the pool and a slot
are each the next one's) and `StageInv` (a stop reaches the pool only through
the coordinator, and whoever drains has stopped it). `OnlyOutsideFails` shows
that no `throw` of the pool, the locks and the batch is ever reached, nor the
one of the drain: once all processes have gone, an owner of a slot was
canceled, the pool being stopped, or has begun, its worker has gone, and its
lease still holds all its names. `RunsSound` is about processes, and `LeaseInv`
and `ActorInv` are what makes it follow from what the pool and the locks know.

### NestedRun

Assumed: `RetryPlanAssumption` (tests are numbered from 1, 0 is no suite) and
`NestedRunAssumption` (types of the declarations; every test is in a suite; and
`Tree`: a suite has one chain of ancestors, and its tests are consecutive, which
is what the constructor of `NativeSuiteTree` checks and its depth-first order
gives). Declarations, retries and the number of faults are otherwise arbitrary.

The first half of `NestedRunProofs` is about the retry plan alone. `PlanInv` says that the queue
has every ordinary test at most once and never one that is active or waits for
an exit (`QueueInv`, `AgainInv`), that the results of a group's wave are behind
its cursor and those of earlier waves have smaller retries (`GroupInv`), and
that a group has begun only when all before it is done (`StartedInv`). The
initial plan has it and each operator keeps it; `RetriesIncrease` follows, since
every attempt that may come is newer than every result of its test (`Newer`).
The one delicate case is `ExcludeQueued`: a group all of whose members are
excluded must not wait for another wave, and the caller guarantees that, because
it excludes the attempt's own test only after the last retry.

`IInv` then holds the two plans together: `AttemptInv` (the runner's attempt is
the plan's), `WorkerInv` (a worker with an unexpected result gets no further
attempt, because the plan asks for its exit: `FreshAfterFailure`), `DriveInv`
(where the attempt is in the suite plan, and that a suite which failed makes
that plan retire), `FinalInv` (what the retry plan has finalized the coroutine's
own set has too, and nothing in it is still to come in a suite plan that goes
on) and `LegacyInv` (without serial groups, a reported test that is not final is
the attempt, or waits for its retry, or is the next in the queue).
`EveryTestReported` follows from the last two: no test that was attempted is
later skipped or marked unrun. With serial groups that is false, which is the
finding of `UnrunNeverRan`.

### The two plans of NestedRun

`RunNestedHooks` asks two plans that know nothing of one another, and throws
when their answers do not fit. That they fit is proved in `NestedSuitesProofs`,
in four layers above `IInv`, each needed by the next.

- `NestInv` is about the suite plan and the worker. The suites that are entered
  are a prefix of the current route (`OnRoute`), a route's `finish` counts
  exactly the suites that no later route is in (`RouteInv`), and the worker has
  entered what the plan says and left nothing that is still to come (`Opened`).
  Here `Tree` is needed: without it a suite left after one test might be an
  ancestor of a later one. A skip by a `beforeAll` erases routes and computes
  `finish` again, which is the longest case. `BodiesInsideSuites` follows.
- `TurnInv` (in the same half of `NestedRunProofs`) gives the order of the retry plan: the queue
  is in the order of the declaration behind the retry that waits (`OrderInv`),
  and no two exit fences are open at once (`FenceInv`). With it, one lemma for
  each operator of the plan says what it leaves to come in this worker
  (`Coming`) and in any (`Unsettled`).
- `AgreeInv` puts the two together. Its part `StepInv` says for each place of
  the coroutine how the later routes of the suite plan and `Coming` of the retry
  plan compare: they are equal but for the attempt's own test and the tests that
  a `beforeAll` has just skipped. `WaveInv` and `KnownInv` say when a worker
  begins on an unfinished group and what the coroutine knows of its attempt,
  `FailInv` why it threw. `AbortsHaveCause` is what is left of the checks in the
  code: "associated attempt mismatch" needs a stop or a declared failure,
  "outstanding" an output that could not be had (section 4, item 8). From the
  same invariant follows `LeavesSuitesBeforeExit`: where the worker is to exit,
  the suite plan has been asked to retire, and it is not done before the last
  suite is left.
- `TallyInv` adds the counter. `CountInv` says that `failures` is the
  cardinality of the tests that have failed for good: an ordinary test with a
  failure at its last retry, a member of a group that is over and whose members
  are classified as failed. That needs that no ordinary test is retried more
  often than allowed (`AllowedInv`), that the last result of a test is the one
  with the greatest retry (`RetriesIncrease`), and that a group that awaits
  another wave is over only after it had a turn, so that none is counted twice.

The proof of `RetriesGiven` was given up, but not without use: looking for its
inductive invariant showed that an earlier form of it was false. A member of a
serial group may fail in one wave and be skipped by a `beforeAll` in the next;
the skip is final, so the test does not get its last wave. No declaration of the
run had enough retries to show it. The property now says so.

### Only model-checked

- Liveness and everything under fairness: out of this prover's reach.
- `NeverPoisonedByLoad` of `PacketWriter`: `BudgetInv` bounds the events, the
  replies, the frames and the sounds that may hold a row; the watermarks and
  the packet in the thread's hands would have to be counted as well, and every
  way to poison the ledger excluded.
- `FailureHasCause` of `WorkFence`, and the parts of `ReadySound` other than
  `IdleMeansQuiet`: that a finished fence has left no packet anywhere needs the
  exact set of packets that each stage of a challenge allows, where `FenceInv`
  only says what a packet may mean.
- `RetriesGiven` of `NestedRun`: it speaks of the last wave of a group after all
  its members were excluded, retired or skipped, and would need an invariant
  that remembers every wave.

## 6. Plan

1. *Done:* ledgers, intake, packet writer, first theorems.
2. *Done:* `EngineLifecycle`: operation registry, deadlines, downloads, shutdown fence.
3. *Done:* the work fence across runner, host and Engine, and its refinement of
   `WorkBarrier`.
4. *Done:* the runner's parallel schedule, and its serial schedule of nested
   suites with retries.
5. *Done:* proofs about `CommandIntake`, `PacketWriter`, `EngineLifecycle`,
   `GroupRun`, `NestedRun` (the agreement of its two plans included) and
   `WorkFence` with its refinement of `WorkBarrier`. *Left:* what the end of
   section 5 lists.
6. If time allows: stream reconnection, the native client's pending calls.

## 7. Not modelled

In the Engine: locator handlers, launch recording, popups, `saveAs` copies and
quotas of downloads, recordings and streams; the controllers of single
features; media encoding. In the runner: declarations, filters, fixtures,
output, attachments and the report's text; files with flat hooks (`RunHooks`),
which have the shape of `NestedRun` with one suite, and those without hooks;
`ProjectPool`, `FileGroupPool` with their locks and `SerialProjectPlan`, which
have the shape of `WorkGroupPool` with projects or files for groups; worker
reuse and source leases. Beyond: both SDKs but for the fence, shared DOM
scripts, build policy, site and tooling. A large part of the repository is
tables (`grep_unicode_properties.h` alone has 52 000 lines), data
transformation or I/O.

Three hazards are known and no property is about them: events go first and can
keep frames and audio waiting (`writer.cc:188`), which is the intended
priority; when the runner dies its socket stays readable and each pump posts
the next (`accepted_engine_work_wake.h:47`), but the browser is killed with the
runner's process group; and a stop that comes with OBSERVED, for which see
Fairness. PROJECT.json gives the reason for each part left out.
