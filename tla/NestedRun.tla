----------------------------- MODULE NestedRun -----------------------------
(***************************************************************************)
(* A serial run of nested suites (native_runner.cc, RunNestedHooks and     *)
(* what RunSerial does around it): the coroutine that asks the RetryPlan   *)
(* for an attempt and the SuitePlan for the operations it takes, runs them *)
(* in one worker process at a time, reports the result to both plans and   *)
(* retires the worker when one of them wants that.  The two plans know     *)
(* nothing of each other.                                                  *)
(*                                                                         *)
(* One step runs to the coroutine's next wait.  What a hook or a test body *)
(* does in the worker is one outcome; an exit of the worker process is     *)
(* noticed while the runner waits for an outcome, possibly with the        *)
(* outcome.  A suite's beforeAll hooks count as one, and so do its         *)
(* afterAll hooks.                                                         *)
(***************************************************************************)
EXTENDS RetryPlan, SuitePlan

CONSTANTS Decls,  \* declarations the suite file may have
          Faults, \* what else may happen
          MaxFaults \* and how often in one behaviour

(* NativeSuiteTree: suites are the nodes of a tree, and its tests are      *)
(* numbered depth first.                                                   *)
Tree(d) ==
  \A t, u \in Tests : \A i \in DOMAIN d.ancestors[t], k \in DOMAIN d.ancestors[u] :
    d.ancestors[t][i] = d.ancestors[u][k] =>
      /\ i = k /\ \A j \in 1 .. i : d.ancestors[t][j] = d.ancestors[u][j]
      /\ \A v \in t .. u : i \in DOMAIN d.ancestors[v] /\ d.ancestors[v][i] = d.ancestors[t][i]

ASSUME NestedRunAssumption ==
  /\ Faults \subseteq {"stop", "crash", "output", "amend", "skip", "fail"} /\ MaxFaults \in Nat
  /\ \A d \in Decls :
       /\ d.ancestors \in [Tests -> Seq(Suites)] /\ \A t \in Tests : d.ancestors[t] # <<>>
       /\ d.serial \subseteq Suites /\ d.hooked \subseteq Suites
       /\ d.retries \in [Tests -> Nat] /\ d.expected \subseteq Tests /\ d.limit \in Nat
       /\ Tree(d)

VARIABLES
  decl,      \* the declaration: metadata_
  plan,      \* plan_
  suites,    \* suite_plan_, NoSuites when it is reset
  host,      \* "none", "live", "exited": host_ as far as the runner knows
  worker,    \* worker_index_
  at,        \* where the coroutine is
  attempt,   \* active_
  operation, \* the operation of the current attempt
  run,       \* what is known of the current attempt
  finalized, \* the coroutine's own set
  stop,      \* StopRequested
  reported, unrun, skipped, \* the report: attempted tests, and the others
  failure,   \* why the coroutine threw, "none" otherwise
  open, left, \* history: suites entered and not left, and left, in this worker
  faults     \* how many of the Faults have happened

planVars == <<plan, suites>>
reportVars == <<finalized, reported, unrun, skipped>>
vars == <<decl, planVars, host, worker, at, attempt, operation, run, stop, reportVars, failure, open, left, faults>>

NoSuites == InitSuitePlan(decl, {})
InitRun == [ready |-> FALSE, before |-> FALSE, infrastructure |-> FALSE, suite |-> 0,
            ok |-> FALSE, timedOut |-> FALSE, interrupted |-> FALSE, skip |-> FALSE, cause |-> 0]

Init ==
  /\ decl \in Decls
  /\ plan = InitPlan(decl) /\ suites = NoSuites
  /\ host = "live" /\ worker = 1 \* the worker that loaded the declarations
  /\ at = "loop" /\ attempt = NoAttempt /\ operation = NoOp /\ run = InitRun
  /\ stop = FALSE /\ finalized = {} /\ reported = {} /\ unrun = {} /\ skipped = {}
  /\ failure = "none" /\ open = <<>> /\ left = {} /\ faults = 0

(* n things happen that are bounded. *)
Happen(n) == faults + n <= MaxFaults /\ faults' = faults + n

InSerialGroup(t) == IsSerial(decl, Unit(decl, t))
AttemptOutcome(r) ==
  IF r.interrupted THEN "interrupted" ELSE IF r.timedOut THEN "timedOut"
  ELSE IF ~r.ok THEN "failed" ELSE IF r.skip THEN "skipped" ELSE "passed"
SerialExpected(p, r) == Expected(p, AttemptOutcome(r), r.infrastructure)

Throw(why) ==
  /\ at' = "throw" /\ failure' = why
  /\ UNCHANGED <<decl, host, worker, attempt, operation, run, stop, reportVars, open, left>>

-----------------------------------------------------------------------------
(* The top of the loop.                                                    *)

ThrowIfStopped ==
  /\ at = "loop" /\ ~Done(plan) /\ stop
  /\ plan' = StopPlan(plan)
  /\ UNCHANGED <<suites, faults>> /\ Throw("stopped")

StartWorker == IF host = "none" THEN worker + 1 ELSE worker

(* A worker that exits while it starts, or a stop that comes meanwhile. *)
StartThrows ==
  /\ at = "loop" /\ ~Done(plan) /\ ~stop /\ host = "none" /\ "crash" \in Faults
  /\ Happen(1) /\ UNCHANGED planVars /\ Throw("start")

StartAttempt ==
  /\ at = "loop" /\ ~Done(plan) /\ ~stop
  /\ plan' = NextAttempt(plan, StartWorker)
  /\ IF plan'.active = NoAttempt THEN UNCHANGED <<suites, faults>> /\ Throw("fence")
     ELSE /\ attempt' = plan'.active
          /\ suites' = IF suites = NoSuites THEN InitSuitePlan(decl, Tests \ finalized) ELSE suites
          /\ at' = "prepare" /\ run' = InitRun /\ operation' = NoOp
          /\ host' = IF host = "none" THEN "live" ELSE host
          /\ worker' = StartWorker
          /\ open' = IF host = "none" THEN <<>> ELSE open
          /\ left' = IF host = "none" THEN {} ELSE left
          /\ UNCHANGED <<decl, stop, reportVars, failure, faults>>

(* PrepareOutput: false when the run stops, the worker exits, or the       *)
(* directory is not there in time.                                         *)
PrepareOutput ==
  /\ at = "prepare" /\ host = "live"
  /\ \E ready \in BOOLEAN, timedOut \in BOOLEAN, now \in {"live", "exited"} :
       /\ ready => ~stop /\ ~timedOut /\ now = "live"
       /\ ~ready => stop \/ now = "exited" \/ "output" \in Faults
       /\ now = "exited" => "crash" \in Faults
       /\ timedOut => ~stop /\ now = "live"
       /\ Happen(IF ready \/ (stop /\ now = "live") THEN 0 ELSE 1)
       /\ host' = now
       /\ run' = [run EXCEPT !.ready = ready, !.before = ready, !.infrastructure = ~ready,
                             !.timedOut = timedOut, !.interrupted = ~ready /\ stop]
  /\ at' = "enter"
  /\ UNCHANGED <<decl, planVars, worker, attempt, operation, stop, reportVars, failure, open, left>>

PrepareThrows ==
  /\ at = "prepare" /\ host # "live"
  /\ UNCHANGED <<planVars, faults>> /\ Throw("prepare")

-----------------------------------------------------------------------------
(* Hooks and test bodies.                                                  *)

(* How a hook or a body ends: with a result, or gone if the worker exits   *)
(* before it.  A stop seen meanwhile (ObserveHookStop) cancels it, or      *)
(* comes too late to do so.                                                *)
Endings ==
  {e \in [outcome : {"passed", "failed", "timedOut", "skipped", "gone"}, stopped : BOOLEAN,
          host : {"live", "exited"}] :
     /\ e.outcome = "failed" => "fail" \in Faults \/ e.stopped
     /\ e.outcome = "timedOut" => "fail" \in Faults
     /\ e.outcome = "skipped" => "skip" \in Faults
     /\ e.outcome = "gone" => e.host = "exited"
     /\ e.host = "exited" => "crash" \in Faults
     /\ e.stopped => stop}

(* What of it counts as a fault. *)
Cost(e) ==
  Cardinality({x \in {"outcome", "host"} :
    \/ x = "outcome" /\ e.outcome \notin {"passed", "gone"} /\ ~(e.outcome = "failed" /\ e.stopped)
    \/ x = "host" /\ e.host = "exited"})

Noted(r, e) ==
  [r EXCEPT !.timedOut = @ \/ e.outcome = "timedOut", !.interrupted = @ \/ e.stopped]

EnterSuite(ok, skip, r, h) ==
  /\ suites' = IF skip THEN SkipBeforeAll(Admitted(suites)) ELSE Complete(Admitted(suites), ok)
  /\ operation' = NextOp(suites)
  /\ host' = h
  /\ run' = IF ok THEN r
            ELSE [r EXCEPT !.before = FALSE, !.infrastructure = TRUE, !.suite = NextOp(suites).suite]
  /\ at' = IF ok THEN "enter" ELSE "run"
  /\ open' = IF ok THEN Append(open, NextOp(suites).suite) ELSE open
  /\ UNCHANGED <<decl, plan, worker, attempt, stop, reportVars, failure, left>>

BeforeAll ==
  /\ at = "enter"
  /\ NextOp(suites).kind = "BeforeAll" /\ NextOp(suites).test = attempt.test
  /\ LET suite == NextOp(suites).suite
     IN \/ /\ ~run.ready \/ (suite \in decl.hooked /\ host = "exited")
           /\ EnterSuite(FALSE, FALSE, run, host) /\ UNCHANGED faults
        \/ /\ run.ready /\ suite \notin decl.hooked
           /\ EnterSuite(TRUE, FALSE, run, host) /\ UNCHANGED faults
        \/ /\ run.ready /\ suite \in decl.hooked /\ host = "live"
           /\ \E e \in Endings :
                /\ Happen(Cost(e))
                /\ IF e.outcome # "skipped" THEN EnterSuite(e.outcome = "passed", FALSE, Noted(run, e), e.host)
                   ELSE IF MaySkipBeforeAll(Admitted(suites))
                   THEN EnterSuite(TRUE, TRUE, [Noted(run, e) EXCEPT !.skip = TRUE, !.cause = suite], e.host)
                   ELSE UNCHANGED planVars /\ Throw("disagree")

(* The operation is the test that the retry plan has selected. *)
Arrive ==
  /\ at = "enter" /\ ~(NextOp(suites).kind = "BeforeAll" /\ NextOp(suites).test = attempt.test)
  /\ IF NextOp(suites).kind \in {"Test", "SkippedTest"} /\ NextOp(suites).test = attempt.test
     THEN /\ suites' = Admitted(suites) /\ operation' = NextOp(suites)
          /\ at' = "run"
          /\ UNCHANGED <<decl, plan, host, worker, attempt, run, stop, reportVars, failure, open, left, faults>>
     ELSE UNCHANGED <<planVars, faults>> /\ Throw("disagree")

BodyRuns == run.before /\ operation.kind = "Test" /\ ~stop /\ host = "live"

StartBody ==
  /\ at = "run" /\ BodyRuns
  /\ at' = "body"
  /\ UNCHANGED <<decl, planVars, host, worker, attempt, operation, run, stop, reportVars, failure, open, left, faults>>

(* test.fail(), if it is called at all, is called before the result. *)
RunBody ==
  /\ at = "body"
  /\ \E e \in Endings, amended \in BOOLEAN :
       /\ amended => "amend" \in Faults
       /\ Happen(Cost(e) + IF amended THEN 1 ELSE 0)
       /\ LET p == IF amended THEN ExpectFailure(plan) ELSE plan
              r == [Noted(run, e) EXCEPT
                      !.ok = e.outcome \in {"passed", "skipped"}, !.skip = e.outcome = "skipped",
                      !.infrastructure = @ \/ e.outcome = "gone"]
              ok == IF InSerialGroup(attempt.test) THEN SerialExpected(p, r) ELSE r.ok
          IN plan' = p /\ run' = r /\ suites' = Complete(suites, ok)
       /\ host' = e.host
  /\ at' = "decide"
  /\ UNCHANGED <<decl, worker, attempt, operation, stop, reportVars, failure, open, left>>

(* No body to run: the beforeAll skipped it or failed, or the run stopped  *)
(* or the worker exited meanwhile.  Without an output directory a pending  *)
(* test is left pending.                                                   *)
NoBody ==
  /\ at = "run" /\ ~BodyRuns
  /\ LET clean == operation.kind = "SkippedTest" /\ ~stop /\ host = "live"
     IN /\ suites' = IF run.before THEN Complete(suites, clean) ELSE suites
        /\ run' = [run EXCEPT !.ok = run.before /\ clean]
  /\ at' = "decide"
  /\ UNCHANGED <<decl, plan, host, worker, attempt, operation, stop, reportVars, failure, open, left, faults>>

WantsRetirement_NotLast ==
  \/ stop
  \/ ~InSerialGroup(attempt.test) /\ attempt.test \in decl.expected
  \/ InSerialGroup(attempt.test) /\ ~SerialExpected(plan, run)
WantsRetirement ==
  \/ stop
  \/ ~InSerialGroup(attempt.test) /\ attempt.test \in decl.expected
  \/ InSerialGroup(attempt.test) /\ (LastInSerialGroup(plan, attempt.test) \/ ~SerialExpected(plan, run))

Decide ==
  /\ at = "decide" /\ (WantsRetirement => MayRetireAfterCurrentTest(suites))
  /\ suites' = IF WantsRetirement THEN RetireAfterCurrentTest(suites) ELSE suites
  /\ at' = "close"
  /\ UNCHANGED <<decl, plan, host, worker, attempt, operation, run, stop, reportVars, failure, open, left, faults>>

DecideThrows ==
  /\ at = "decide" /\ WantsRetirement /\ ~MayRetireAfterCurrentTest(suites)
  /\ UNCHANGED <<planVars, faults>> /\ Throw("outstanding")

-----------------------------------------------------------------------------
(* Leaving suites.                                                         *)

Closes == at = "close" /\ run.ready /\ HasClosures(suites)

LeaveSuite(ok, r, h) ==
  /\ suites' = Complete(Admitted(suites), ok)
  /\ run' = [r EXCEPT !.ok = @ /\ ok, !.infrastructure = @ \/ ~ok]
  /\ host' = h
  /\ open' = IF open # <<>> /\ Last(open) = NextOp(suites).suite THEN Front(open) ELSE open
  /\ left' = left \cup {NextOp(suites).suite}
  /\ UNCHANGED <<decl, plan, worker, at, attempt, operation, stop, reportVars, failure>>

(* A hook is run on behalf of the attempt, and only of it. *)
Associated == NextOp(suites).test = attempt.test

AfterAll ==
  /\ Closes /\ NextOp(suites).kind = "AfterAll"
  /\ LET suite == NextOp(suites).suite
     IN \/ suite \in decl.hooked /\ host = "exited" /\ LeaveSuite(FALSE, run, host) /\ UNCHANGED faults
        \/ suite \notin decl.hooked /\ LeaveSuite(TRUE, run, host) /\ UNCHANGED faults
        \/ /\ suite \in decl.hooked /\ host = "live" /\ Associated
           /\ \E e \in Endings :
                e.outcome # "skipped" /\ Happen(Cost(e)) /\ LeaveSuite(e.outcome = "passed", Noted(run, e), e.host)

AfterAllThrows ==
  /\ Closes /\ NextOp(suites).suite \in decl.hooked /\ host = "live" /\ ~Associated
  /\ UNCHANGED <<planVars, faults>> /\ Throw("mismatch")

-----------------------------------------------------------------------------
(* The result.                                                             *)

SuiteTests(suite) == {t \in Tests : suite \in Range(decl.ancestors[t])}

FinishAttempt ==
  /\ at = "close" /\ ~Closes
  /\ LET r == [run EXCEPT !.interrupted = @ \/ (stop /\ ~run.timedOut)]
         outcome == AttemptOutcome(r)
         p == Finish(plan, worker, outcome, r.infrastructure \/ (r.skip /\ outcome # "skipped"))
         expected == Last(p.results).expected
         exhausted == attempt.retry >= MaxRetries(decl, attempt.test)
         final == IF ~InSerialGroup(attempt.test) /\ (expected \/ exhausted \/ r.interrupted)
                  THEN finalized \cup {attempt.test} ELSE finalized
         clean == r.cause # 0 /\ outcome = "skipped" /\ expected
         omitted == IF clean THEN operation.skipped ELSE {}
         failed == IF r.cause # 0 /\ ~clean /\ r.suite = 0 /\ ~r.ok THEN r.cause ELSE r.suite
         blocked == IF failed # 0 /\ exhausted THEN SuiteTests(failed) ELSE {}
     IN /\ run' = r
        /\ plan' = ExcludeQueued(p, omitted \cup blocked)
        /\ reported' = reported \cup {attempt.test}
        /\ skipped' = skipped \cup omitted
        /\ unrun' = unrun \cup (blocked \ (final \cup omitted))
        /\ finalized' = final \cup omitted \cup blocked
  /\ at' = "retire"
  /\ UNCHANGED <<decl, suites, host, worker, attempt, operation, stop, failure, open, left, faults>>

Retires ==
  \/ ~InSerialGroup(attempt.test) /\ (~run.ok \/ attempt.test \in decl.expected)
  \/ suites.retire \/ NeedsWorkerRetirement(plan) \/ Done(plan)

(* CloseWorker, if the worker is to go; then the next turn of the loop. *)
Retire ==
  /\ at = "retire"
  /\ LET p == ActualWorkerExited(plan, worker)
     IN plan' = IF ~Retires THEN plan ELSE IF NeedsWorkerRetirement(p) THEN WorkerExited(p) ELSE p
  /\ finalized' = finalized \cup {t \in Tests : Finalized(plan', t)}
  /\ suites' = IF Retires THEN NoSuites ELSE suites
  /\ host' = IF Retires THEN "none" ELSE host
  /\ attempt' = NoAttempt
  /\ at' = IF stop THEN "report" ELSE "loop"
  /\ UNCHANGED <<decl, worker, operation, run, stop, reported, unrun, skipped, failure, open, left, faults>>

-----------------------------------------------------------------------------
(* The end: RunSerial closes the worker and marks what never ran.          *)

LoopEnds ==
  /\ at = "loop" /\ Done(plan)
  /\ at' = "report"
  /\ UNCHANGED <<decl, planVars, host, worker, attempt, operation, run, stop, reportVars, failure, open, left, faults>>

Unaccounted_Skipped(now) == Tests \ (now \cup unrun)
Unaccounted(now) == Tests \ (now \cup unrun \cup skipped)

MarkUnrun ==
  /\ at \in {"report", "throw"}
  /\ LET now == IF attempt = NoAttempt THEN reported ELSE reported \cup {attempt.test}
     IN reported' = now /\ unrun' = unrun \cup Unaccounted(now)
  /\ plan' = IF host = "none" THEN plan ELSE ActualWorkerExited(plan, worker)
  /\ host' = "none" /\ at' = "ended"
  /\ UNCHANGED <<decl, suites, worker, attempt, operation, run, stop, finalized, skipped, failure, open, left, faults>>

RequestStop ==
  /\ "stop" \in Faults /\ ~stop /\ at # "ended"
  /\ stop' = TRUE /\ Happen(1)
  /\ UNCHANGED <<decl, planVars, host, worker, at, attempt, operation, run, reportVars, failure, open, left>>

Runner ==
  \/ ThrowIfStopped \/ StartThrows \/ StartAttempt \/ PrepareOutput \/ PrepareThrows \/ BeforeAll \/ Arrive
  \/ StartBody \/ RunBody \/ NoBody \/ Decide \/ DecideThrows \/ AfterAll \/ AfterAllThrows
  \/ FinishAttempt \/ Retire \/ LoopEnds \/ MarkUnrun

Next == Runner \/ RequestStop \/ (at = "ended" /\ UNCHANGED vars)

Spec == Init /\ [][Next]_vars

-----------------------------------------------------------------------------
(* Properties.                                                             *)

(* The shape of the state.  No more workers are started than attempts are  *)
(* made, and the retry plan's attempt is the one that the runner works on. *)
TypeOK ==
  /\ at \in {"loop", "prepare", "enter", "run", "body", "decide", "close", "retire", "report", "throw", "ended"}
  /\ host \in {"none", "live", "exited"} /\ worker \in 1 .. Len(plan.results) + 1
  /\ attempt \in [test : Tests \cup {0}, retry : Nat]
  /\ finalized \subseteq Tests /\ reported \subseteq Tests /\ unrun \subseteq Tests /\ skipped \subseteq Tests
  /\ suites.index \in 1 .. Len(suites.routes) + 1
  /\ plan.active = attempt \/ at \in {"retire", "throw", "ended", "report"}

(* The two plans, which know nothing of each other, keep step: whatever    *)
(* was retried, replayed, skipped or excluded before, the suite plan of a  *)
(* fresh worker comes to the very test the retry plan has selected, and a  *)
(* closed worker opens the fence of the next attempt.                      *)
PlansAgree == failure \notin {"fence", "disagree"}

(* "retries require a fresh, physically confirmed worker": an unexpected   *)
(* result is the last that its worker has.                                 *)
FreshAfterFailure ==
  \A i, j \in DOMAIN plan.results :
    i < j /\ plan.results[i].worker = plan.results[j].worker => plan.results[i].expected

(* No attempt is made twice, and those of a test come in the order of      *)
(* their retries: the report is refused otherwise.  So the attempts are    *)
(* finitely many, and a run that never deadlocks ends.                     *)
RetriesIncrease ==
  \A i, j \in DOMAIN plan.results :
    i < j /\ plan.results[i].test = plan.results[j].test => plan.results[i].retry < plan.results[j].retry

(* The attempts of the report are those of the retry plan: each in a fresh *)
(* worker after a failure, in the order of the retries, and the runner     *)
(* works on the one that the plan has selected.                            *)
AttemptsSound == TypeOK /\ FreshAfterFailure /\ RetriesIncrease

(* A body runs inside exactly its suites: each was entered in this worker, *)
(* outermost first, none was left since, and none is entered twice.        *)
BodyInsideSuites ==
  at = "body" => open = decl.ancestors[attempt.test] /\ Range(open) \cap left = {}

(* The run aborts for a cause: a stop, a worker that exited, an output     *)
(* directory that could not be had, or a declared failure that passed      *)
(* (RunNestedHooks then closes the suites on behalf of the next test); and *)
(* never because the two plans lost step.                                  *)
AbortHasCause ==
  /\ PlansAgree
  /\ failure = "mismatch" => stop \/ attempt.test \in decl.expected
  /\ failure = "outstanding" => ~run.ready
  /\ failure = "prepare" /\ at = "throw" => host = "exited"

LastResult(t) == SelectLastInSeq(plan.results, LAMBDA r : r.test = t)

(* But for a stop, a live worker is retired only after it left every suite *)
(* whose hooks it ran.  There are two exceptions: a test.fail() at run     *)
(* time whose test passed, and a beforeAll in a serial group that skipped  *)
(* the last of its members: there no one asks the suite plan to retire.    *)
LeavesBeforeExit ==
  at = "retire" /\ Retires /\ host = "live" /\ run.ready /\ ~stop =>
    \/ Range(open) \cap decl.hooked = {}
    \/ AttemptOutcome(run) = "passed" /\ ~plan.results[LastResult(attempt.test)].expected
    \/ run.cause # 0 /\ InSerialGroup(attempt.test)

(* Every declared test is in the report, and but for serial groups once:   *)
(* attempted, skipped by a beforeAll, or unrun.                            *)
EveryTestReported ==
  at = "ended" =>
    /\ reported \cup skipped \cup unrun = Tests /\ skipped \cap unrun = {}
    /\ Legacy(decl) => (skipped \cup unrun) \cap reported = {}

(* A run that comes to its own end has given every attempted test its      *)
(* retries: its last result is expected, or it had its last retry, or its  *)
(* serial group had its last wave, or a beforeAll of a later wave skipped  *)
(* it.                                                                     *)
RetriesGiven ==
  at = "ended" /\ failure = "none" /\ ~stop /\ ~FailureLimitReached(plan) =>
    \A t \in reported :
      \/ plan.results[LastResult(t)].expected \/ t \in skipped
      \/ \E r \in Range(plan.results) :
           /\ r.retry = MaxRetries(decl, t)
           /\ IF InSerialGroup(t) THEN Unit(decl, r.test) = Unit(decl, t) ELSE r.test = t

(* The failures that --max-failures counts are tests, not attempts: those  *)
(* that ended unexpectedly after their last retry, or after their group's. *)
FinallyFailed(t) ==
  LET r == plan.results[LastResult(t)]
  IN IF InSerialGroup(t) THEN Over(plan.group[Unit(decl, t)]) /\ ClassifiedFailed(plan, t)
     ELSE ~r.expected /\ r.outcome # "interrupted" /\ r.retry = decl.retries[t]
FailuresAreTests ==
  at = "loop" => plan.failures = Cardinality({t \in reported : FinallyFailed(t)})

(* "Declared tests that never ran are separate `unrun` records": what is   *)
(* reported as attempted is not also reported as never admitted.           *)
UnrunNeverRan == unrun \cap reported = {}
=============================================================================
