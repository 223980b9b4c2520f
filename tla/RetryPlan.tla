----------------------------- MODULE RetryPlan -----------------------------
(***************************************************************************)
(* Which test a worker attempts next (runner_retry_plan.h): ordinary tests *)
(* are queued and retried one by one (retry_plan.h); the tests of an       *)
(* outermost serial suite are retried together, from the first, in waves   *)
(* (serial_group.h).  Every function of the three classes runs on the      *)
(* runner's only thread, so each is an operator on a plan.                 *)
(*                                                                         *)
(* Tests are numbered in declaration order.  A unit is a serial group or a *)
(* stretch of ordinary tests between two groups, and is named by its first *)
(* test.  Generations and pids are left out: a worker is its index.        *)
(***************************************************************************)
EXTENDS Erase, Integers, Sequences, SequencesExt, FiniteSetsExt

CONSTANTS Tests, \* 1 .. their number
          Suites

ASSUME RetryPlanAssumption ==
  /\ Tests = 1 .. Cardinality(Tests) /\ IsFiniteSet(Tests)
  /\ 0 \notin Suites

Attempt(t, n) == [test |-> t, retry |-> n]
NoAttempt == Attempt(0, 0)

(* SerialGroups: the outermost serial suite of a test, 0 if it has none. *)
GroupSuite(d, t) ==
  LET a == d.ancestors[t]
      serial == {i \in DOMAIN a : a[i] \in d.serial}
  IN IF serial = {} THEN 0 ELSE a[Min(serial)]

Unit(d, t) ==
  LET suite == GroupSuite(d, t)
  IN Min({i \in 1 .. t : \A j \in i .. t : GroupSuite(d, j) = suite})
Units(d) == {Unit(d, t) : t \in Tests}
Members(d, u) == {t \in Tests : Unit(d, t) = u}
IsSerial(d, u) == GroupSuite(d, u) # 0
Legacy(d) == \A t \in Tests : GroupSuite(d, t) = 0

(* The retries of an attempt: those of its whole group if it is in one. *)
MaxRetries(d, t) ==
  LET u == Unit(d, t)
  IN IF IsSerial(d, u) THEN Max({d.retries[m] : m \in Members(d, u)}) ELSE d.retries[t]

InitGroup(u) ==
  [state |-> "awaiting", cursor |-> u, retry |-> 0, failed |-> FALSE, stop |-> FALSE,
   excluded |-> {}, worker |-> 0, last |-> 0]

InitPlan(d) ==
  [decl     |-> d,
   queue    |-> Kept([t \in Tests |-> Attempt(t, 0)], {t \in Tests : GroupSuite(d, t) = 0}),
   active   |-> NoAttempt,
   again    |-> NoAttempt,  \* retry_
   retiring |-> 0,          \* the unit whose retiring_worker_ has not exited
   amended  |-> FALSE,      \* runtime_expected_failure_
   group    |-> [u \in {u \in Units(d) : IsSerial(d, u)} |-> InitGroup(u)],
   failures |-> 0, stop |-> FALSE, finalized |-> {},
   results  |-> <<>>]

Over(g) == g.state \in {"passed", "failed", "stopped"}
UnitDone(p, u) ==
  IF IsSerial(p.decl, u) THEN Over(p.group[u])
  ELSE /\ p.retiring # u /\ (p.active # NoAttempt => Unit(p.decl, p.active.test) # u)
       /\ \A i \in DOMAIN p.queue : Unit(p.decl, p.queue[i].test) # u
Remaining(p) == {u \in Units(p.decl) : ~UnitDone(p, u)}
Current(p) == Min(Remaining(p))

FailureLimitReached(p) == p.decl.limit # 0 /\ p.failures >= p.decl.limit \* --max-failures
Stopped(p) == ~Legacy(p.decl) /\ (p.stop \/ FailureLimitReached(p))

NeedsWorkerRetirement(p) ==
  \/ p.retiring # 0
  \/ Remaining(p) # {} /\ IsSerial(p.decl, Current(p)) /\ p.group[Current(p)].state = "retiring"

Done(p) ==
  /\ p.active = NoAttempt /\ ~NeedsWorkerRetirement(p)
  /\ Stopped(p) \/ Remaining(p) = {}

-----------------------------------------------------------------------------
(* SerialGroup.                                                            *)

LastMember(d, u) == Max(Members(d, u))
SkipExcluded(d, u, g) ==
  [g EXCEPT !.cursor = Min({t \in @ .. LastMember(d, u) : t \notin g.excluded} \cup {LastMember(d, u) + 1})]

(* A wave begins in a worker that no earlier wave of the group had. *)
MayBeginWave(g, w) == g.state = "awaiting" /\ ~g.stop /\ w > g.last
BeginWave(d, u, g, w) ==
  [SkipExcluded(d, u, [g EXCEPT !.cursor = u]) EXCEPT
     !.state = "ready", !.worker = w, !.last = w, !.failed = FALSE]

FinishMember(d, u, g, outcome, expected) ==
  LET h == SkipExcluded(d, u, [g EXCEPT !.failed = @ \/ ~expected, !.stop = @ \/ outcome = "interrupted"])
  IN [h EXCEPT !.state = IF h.failed \/ h.stop \/ h.cursor > LastMember(d, u) THEN "retiring" ELSE "ready"]

Retired_OneWaveLess(d, u, g) ==
  LET again == ~g.stop /\ g.failed /\ g.retry + 1 < MaxRetries(d, u)
  IN [g EXCEPT !.state = IF g.stop THEN "stopped" ELSE IF ~g.failed THEN "passed"
                         ELSE IF again THEN "awaiting" ELSE "failed",
               !.retry = IF again THEN @ + 1 ELSE @,
               !.worker = 0]
Retired(d, u, g) ==
  LET again == ~g.stop /\ g.failed /\ g.retry < MaxRetries(d, u)
  IN [g EXCEPT !.state = IF g.stop THEN "stopped" ELSE IF ~g.failed THEN "passed"
                         ELSE IF again THEN "awaiting" ELSE "failed",
               !.retry = IF again THEN @ + 1 ELSE @,
               !.worker = 0]

StopGroup(g) ==
  [g EXCEPT !.stop = TRUE,
            !.state = CASE @ = "awaiting" -> "stopped" [] @ = "ready" -> "retiring" [] OTHER -> @]

ExcludeMembers(d, u, g, ids) ==
  LET h == SkipExcluded(d, u, [g EXCEPT !.excluded = @ \cup (ids \cap Members(d, u))])
  IN [h EXCEPT !.state =
        IF @ = "ready" /\ h.cursor > LastMember(d, u) THEN "retiring"
        ELSE IF @ = "awaiting" /\ h.excluded = Members(d, u) THEN "passed" ELSE @]

LastInSerialGroup(p, t) ==
  LET u == Unit(p.decl, t)
      selected == Members(p.decl, u) \ p.group[u].excluded
  IN selected # {} /\ t = Max(selected)

(* Classification::Failed: results, none expected and none interrupted. *)
ClassifiedFailed(p, t) ==
  LET own == {r \in Range(p.results) : r.test = t}
  IN own # {} /\ \A r \in own : ~r.expected /\ r.outcome # "interrupted"

-----------------------------------------------------------------------------
(* RunnerRetryPlan.                                                        *)

(* The plan with its next attempt active, or as it is if there is none. *)
NextAttempt(p, w) ==
  IF p.active # NoAttempt \/ NeedsWorkerRetirement(p) \/ Stopped(p) \/ Remaining(p) = {} THEN p
  ELSE LET u == Current(p)
       IN IF ~IsSerial(p.decl, u)
          THEN [p EXCEPT !.active = Head(p.queue), !.queue = Tail(@), !.amended = FALSE]
          ELSE LET g == IF MayBeginWave(p.group[u], w) THEN BeginWave(p.decl, u, p.group[u], w) ELSE p.group[u]
               IN IF g.state # "ready" \/ g.worker # w THEN p
                  ELSE [p EXCEPT !.active = Attempt(g.cursor, g.retry), !.amended = FALSE,
                                 !.group[u] = [g EXCEPT !.cursor = @ + 1, !.state = "active"]]

ExpectFailure(p) == [p EXCEPT !.amended = TRUE]

Expected(p, outcome, infrastructure) ==
  /\ ~infrastructure
  /\ \/ outcome = "skipped"
     \/ outcome = IF p.active.test \in p.decl.expected \/ p.amended THEN "failed" ELSE "passed"

Account_EveryWave(p, u) ==
  [p EXCEPT !.failures = @ + Cardinality({t \in Members(p.decl, u) : ClassifiedFailed(p, t)})]
Account(p, u) ==
  IF ~Over(p.group[u]) THEN p
  ELSE [p EXCEPT !.failures = @ + Cardinality({t \in Members(p.decl, u) : ClassifiedFailed(p, t)})]

(* An unexpected result fences its unit until the worker has exited. *)
RetiringAfter_RetryOnly(p, u, expected, retried) == IF retried THEN u ELSE p.retiring
RetiringAfter(p, u, expected, retried) == IF expected THEN p.retiring ELSE u

Finish(p, w, outcome, infrastructure) ==
  LET a == p.active
      u == Unit(p.decl, a.test)
      expected == Expected(p, outcome, infrastructure)
      q == [p EXCEPT !.active = NoAttempt, !.amended = FALSE,
                     !.results = Append(@, [test |-> a.test, retry |-> a.retry, worker |-> w,
                                            outcome |-> outcome, expected |-> expected])]
      retried == ~expected /\ a.retry < p.decl.retries[a.test] /\ outcome # "interrupted"
      failure == ~expected /\ ~retried /\ outcome # "interrupted"
      r == [q EXCEPT !.retiring = RetiringAfter(p, u, expected, retried),
                     !.again = IF retried THEN Attempt(a.test, a.retry + 1) ELSE @,
                     !.failures = IF failure THEN @ + 1 ELSE @,
                     !.finalized = IF retried \/ Legacy(p.decl) THEN @ ELSE @ \cup {a.test}]
  IN IF IsSerial(p.decl, u) THEN [q EXCEPT !.group[u] = FinishMember(p.decl, u, @, outcome, expected)]
     ELSE IF Legacy(p.decl) /\ failure /\ FailureLimitReached(r) THEN [r EXCEPT !.queue = <<>>]
     ELSE r

(* The worker has exited: the retry goes to the front of the queue, or the *)
(* group to its next wave.                                                 *)
WorkerExited_RetryLast(p) ==
  IF p.retiring # 0
  THEN [p EXCEPT !.retiring = 0, !.again = NoAttempt,
                 !.queue = IF p.again = NoAttempt THEN @ ELSE Append(@, p.again)]
  ELSE IF ~NeedsWorkerRetirement(p) THEN p
  ELSE Account([p EXCEPT !.group[Current(p)] = Retired(p.decl, Current(p), @)], Current(p))
WorkerExited(p) ==
  IF p.retiring # 0
  THEN [p EXCEPT !.retiring = 0, !.again = NoAttempt,
                 !.queue = IF p.again = NoAttempt THEN @ ELSE <<p.again>> \o @]
  ELSE IF ~NeedsWorkerRetirement(p) THEN p
  ELSE Account([p EXCEPT !.group[Current(p)] = Retired(p.decl, Current(p), @)], Current(p))

(* Called at every exit.  An attempt without a result is interrupted, and  *)
(* so is a wave with members to come.                                      *)
ActualWorkerExited(p, w) ==
  LET q == IF p.active = NoAttempt THEN p
           ELSE [Finish(p, w, "interrupted", TRUE) EXCEPT !.stop = TRUE]
      u == Current(q)
      r == IF q.group[u].state # "ready" THEN q
           ELSE [q EXCEPT !.stop = TRUE, !.group[u] = StopGroup(@)]
  IN IF Legacy(p.decl) THEN p
     ELSE IF Remaining(q) = {} \/ ~IsSerial(q.decl, u) \/ q.group[u].worker # w THEN q
     ELSE WorkerExited(r)

ExcludeQueued(p, ids) ==
  [p EXCEPT !.queue = Kept(@, {i \in DOMAIN @ : @[i].test \notin ids}),
            !.again = IF @.test \in ids THEN NoAttempt ELSE @,
            !.group = [u \in DOMAIN p.group |-> ExcludeMembers(p.decl, u, p.group[u], ids)],
            !.finalized = IF Legacy(p.decl) THEN @ ELSE @ \cup ids]

Finalized(p, t) ==
  /\ ~Legacy(p.decl)
  /\ IF IsSerial(p.decl, Unit(p.decl, t)) THEN Over(p.group[Unit(p.decl, t)]) ELSE t \in p.finalized

StopPlan(p) ==
  IF Legacy(p.decl) THEN p
  ELSE [p EXCEPT !.stop = TRUE, !.group = [u \in DOMAIN p.group |-> StopGroup(p.group[u])]]
=============================================================================
