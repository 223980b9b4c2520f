----------------------------- MODULE SuitePlan -----------------------------
(***************************************************************************)
(* In which order one worker enters suites, runs their selected tests and  *)
(* leaves them (suite_worker_plan.h over the routes of suite_tree.h), as   *)
(* operators on a plan.  The worker's exit ends the plan.  beforeEach and  *)
(* afterEach hooks belong to the test's own step and are left out.         *)
(***************************************************************************)
EXTENDS Erase, Naturals, Sequences, SequencesExt, FiniteSetsExt

Op(kind, suite, test) == [kind |-> kind, suite |-> suite, test |-> test, skipped |-> {}]
NoOp == Op("none", 0, 0)
Throws == Op("throws", 0, 0) \* the call throws

(* NativeSuiteTree::Plan: a test finishes the suites that no later one is in. *)
Route_OffByOne(d, selected, t) ==
  [test |-> t, ancestors |-> d.ancestors[t],
   finish |-> Cardinality({i \in DOMAIN d.ancestors[t] :
                             \A later \in selected :
                               later > t + 1 => d.ancestors[t][i] \notin Range(d.ancestors[later])})]
Route(d, selected, t) ==
  [test |-> t, ancestors |-> d.ancestors[t],
   finish |-> Cardinality({i \in DOMAIN d.ancestors[t] :
                             \A later \in selected :
                               later > t => d.ancestors[t][i] \notin Range(d.ancestors[later])})]
Routes(d, selected) ==
  LET order == Kept([t \in DOMAIN d.ancestors |-> t], selected)
  IN [i \in DOMAIN order |-> Route(d, selected, order[i])]

InitSuitePlan(d, selected) ==
  [routes |-> Routes(d, selected), index |-> 1, active |-> <<>>, pending |-> NoOp,
   skip |-> 0, skipped |-> {}, closing |-> FALSE, retire |-> FALSE, exits |-> 0]

(* The operation that Next admits. *)
NextOp(s) ==
  IF s.pending # NoOp \/ (s.closing /\ s.active = <<>>) THEN Throws
  ELSE IF s.closing THEN Op("AfterAll", Last(s.active), s.routes[s.index].test)
  ELSE IF s.retire \/ s.index > Len(s.routes) THEN NoOp
  ELSE LET route == s.routes[s.index]
       IN IF ~IsPrefix(s.active, route.ancestors) THEN Throws
          ELSE IF s.skip # 0 THEN [Op("SkippedTest", Last(s.active), route.test) EXCEPT !.skipped = s.skipped]
          ELSE IF Len(s.active) < Len(route.ancestors)
               THEN Op("BeforeAll", route.ancestors[Len(s.active) + 1], route.test)
          ELSE Op("Test", Last(route.ancestors), route.test)

(* A suite counts as entered before its beforeAll runs: cleanup still runs *)
(* when it fails.                                                          *)
Admitted(s) ==
  [s EXCEPT !.pending = NextOp(s),
            !.active = IF NextOp(s).kind = "BeforeAll" THEN Append(@, NextOp(s).suite) ELSE @]

Closing(s, exits) == [s EXCEPT !.exits = exits, !.closing = exits # 0,
                               !.index = IF exits = 0 /\ ~s.retire THEN @ + 1 ELSE @]

Complete(s, ok) ==
  LET t == [s EXCEPT !.pending = NoOp, !.retire = @ \/ ~ok]
      u == [t EXCEPT !.active = Front(@)]
  IN CASE s.pending.kind = "BeforeAll" ->
            IF ok THEN t ELSE [t EXCEPT !.closing = TRUE, !.exits = Len(t.active)]
       [] s.pending.kind \in {"Test", "SkippedTest"} ->
            Closing([t EXCEPT !.skip = 0, !.skipped = {}],
                    IF t.retire THEN Len(t.active) ELSE t.routes[t.index].finish)
       [] s.pending.kind = "AfterAll" ->
            Closing(u, IF u.retire THEN Len(u.active) ELSE u.exits - 1)

(* The beforeAll of a suite skips it: its later routes go, and the current *)
(* test becomes a skipped one that leaves what the next route does not     *)
(* share.                                                                  *)
MaySkipBeforeAll(s) ==
  /\ s.pending.kind = "BeforeAll" /\ Last(s.active) = s.pending.suite
  /\ ~s.retire /\ ~s.closing /\ s.skip = 0
SkipBeforeAll(s) ==
  LET suite == s.pending.suite
      later == SubSeq(s.routes, s.index + 1, Len(s.routes))
      kept == Kept(later, {i \in DOMAIN later : suite \notin Range(later[i].ancestors)})
      shared == IF kept = <<>> THEN 0
                ELSE Max({n \in 0 .. Len(s.active) : IsPrefix(SubSeq(s.active, 1, n), Head(kept).ancestors)})
      current == [test |-> s.pending.test, ancestors |-> s.active, finish |-> Len(s.active) - shared]
  IN [Complete(s, TRUE) EXCEPT
        !.routes = SubSeq(s.routes, 1, s.index - 1) \o <<current>> \o kept,
        !.skip = suite, !.skipped = {r.test : r \in Range(later) \ Range(kept)}]

MayRetireAfterCurrentTest(s) == s.pending = NoOp \* it throws otherwise
RetireAfterCurrentTest(s) ==
  [s EXCEPT !.retire = TRUE, !.exits = Len(s.active), !.closing = s.active # <<>>]

HasClosures(s) == s.closing
=============================================================================
