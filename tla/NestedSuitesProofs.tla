--------------------------- MODULE NestedSuitesProofs ---------------------------
EXTENDS NestedRunProofs

-----------------------------------------------------------------------------
(* The suite plan beside the worker and the retry plan. NestInv says       *)
(* where the suite plan stands and what the worker has entered and left,   *)
(* so a body runs inside the suites declared around its test               *)
(* (BodiesInsideSuites). AgreeInv puts the suite plan in step with the     *)
(* retry plan, so the driver gives up only for a cause (AbortsHaveCause)   *)
(* and leaves the suites it entered before the worker exits                *)
(* (LeavesSuitesBeforeExit). TallyInv adds what has been counted and       *)
(* reported (FailuresCountTests).                                          *)

(* A sequence is a prefix of another; a value is in a sequence.            *)
Within(a, b) == Len(a) <= Len(b) /\ \A i \in 1 .. Len(a) : a[i] = b[i]
Has(a, x) == \E i \in 1 .. Len(a) : a[i] = x

(* The test of a route leaves the suites that no later test is in.         *)
RouteInv(d, s, j) ==
  LET r == s.routes[j]
  IN /\ r.finish \in 0 .. Len(r.ancestors)
     /\ \A i \in 1 .. Len(r.ancestors) :
          i <= Len(r.ancestors) - r.finish <=>
            \E k \in j + 1 .. Len(s.routes) : Has(d.ancestors[s.routes[k].test], r.ancestors[i])

(* The entered suites are the outer ones of the current route, which is    *)
(* cut short only once its test is over or skipped.                        *)
OnRoute(d, s, r) ==
  /\ Within(r.ancestors, d.ancestors[r.test]) /\ Within(s.active, r.ancestors)
  /\ ~s.closing /\ ~s.retire /\ s.skip = 0 => r.ancestors = d.ancestors[r.test]
  /\ s.pending # NoOp \/ s.skip # 0 => s.active = r.ancestors
  /\ s.pending # NoOp => s.pending.test = r.test

(* The routes are in the order of the declaration, and the ones to come    *)
(* are whole.                                                              *)
RoutesInv(d, s) ==
  /\ \A i, j \in 1 .. Len(s.routes) : i < j => s.routes[i].test < s.routes[j].test
  /\ \A j \in s.index + 1 .. Len(s.routes) : s.routes[j].ancestors = d.ancestors[s.routes[j].test]
  /\ \A j \in s.index .. Len(s.routes) : RouteInv(d, s, j)

(* Where in its route the suite plan stands: a pending operation, a skip   *)
(* and a closing exclude one another as they do in the code.               *)
OnPath(d, s) ==
  /\ s.index <= Len(s.routes) => OnRoute(d, s, s.routes[s.index])
  /\ s.index > Len(s.routes) => s.active = <<>> /\ s.skip = 0 /\ s.pending = NoOp
  /\ s.skip # 0 \/ s.pending # NoOp => ~s.closing /\ ~s.retire
  /\ s.pending # NoOp => s.pending.kind = IF s.skip = 0 THEN "Test" ELSE "SkippedTest"
  /\ s.closing /\ ~s.retire =>
       /\ s.exits \in 1 .. Len(s.active)
       /\ Len(s.active) - s.exits = Len(s.routes[s.index].ancestors) - s.routes[s.index].finish
  /\ s.retire => (s.closing <=> s.active # <<>>)

(* The whole of the suite plan.                                            *)
PathInv(d, s) == RoutesInv(d, s) /\ OnPath(d, s)

(* What this worker has entered and left, beside what the suite plan says. *)
Opened(d, s, entered, gone) ==
  /\ entered = s.active \/ (s.retire /\ s.active # <<>> /\ entered = Front(s.active))
  /\ s.routes = <<>> => gone = {}
  /\ s.retire \/
       \A x \in gone :
         /\ ~Has(s.active, x)
         /\ \A j \in s.index .. Len(s.routes) :
              (s.closing /\ j = s.index) \/ ~Has(d.ancestors[s.routes[j].test], x)

(* There is a worker that the suite plan belongs to.                       *)
WithWorker == at \in Working \cup {"retire"} \/ (at = "loop" /\ host # "none")
(* The driver, its worker and the suite plan together.                     *)
NestInv ==
  /\ PathInv(decl, suites)
  /\ at = "loop" /\ host = "none" => suites = NoSuites
  /\ WithWorker => Opened(decl, suites, open, left)
  /\ at \in {"run", "body"} /\ run.before => operation.test = attempt.test
  /\ at \in {"run", "decide"} => suites.pending # NoOp \/ suites.skip = 0
  /\ at = "retire" => host # "none"

(* The tests whose routes the suite plan still has, and a suite plan       *)
(* between two tests.                                                      *)
Rest(s) == {s.routes[j].test : j \in s.index .. Len(s.routes)}
Idle(s) == ~s.closing /\ ~s.retire /\ s.pending = NoOp /\ s.skip = 0

-----------------------------------------------------------------------------
(* The tree.                                                               *)

(* The path to a test.                                                     *)
LEMMA PathFacts ==
  ASSUME NEW d \in Decls, NEW t \in Tests
  PROVE  d.ancestors[t] \in Seq(Suites) /\ Len(d.ancestors[t]) \in Nat /\ d.ancestors[t] # <<>>
         /\ DOMAIN d.ancestors[t] = 1 .. Len(d.ancestors[t])
<1>1. d.ancestors[t] \in Seq(Suites) /\ d.ancestors[t] # <<>>
  BY NestedRunAssumption
<1> QED  BY <1>1

(* Two tests that share a suite share the path to it, and all tests between *)
(* them are in it.                                                         *)
LEMMA SharedPath ==
  ASSUME NEW d \in Decls, NEW t \in Tests, NEW u \in Tests, NEW i \in 1 .. Len(d.ancestors[t]),
         Has(d.ancestors[u], d.ancestors[t][i])
  PROVE  /\ i \in 1 .. Len(d.ancestors[u]) /\ \A j \in 1 .. i : d.ancestors[u][j] = d.ancestors[t][j]
         /\ \A v \in t .. u : Has(d.ancestors[v], d.ancestors[t][i])
<1>1. PICK k \in 1 .. Len(d.ancestors[u]) : d.ancestors[u][k] = d.ancestors[t][i]
  BY DEF Has
<1>2. Tree(d)
  BY NestedRunAssumption
<1>3. i \in DOMAIN d.ancestors[t] /\ k \in DOMAIN d.ancestors[u]
  BY <1>1, PathFacts
<1>4. /\ i = k /\ \A j \in 1 .. i : d.ancestors[t][j] = d.ancestors[u][j]
      /\ \A v \in t .. u : i \in DOMAIN d.ancestors[v] /\ d.ancestors[v][i] = d.ancestors[t][i]
  BY <1>1, <1>2, <1>3 DEF Tree
<1>5. ASSUME NEW v \in t .. u PROVE Has(d.ancestors[v], d.ancestors[t][i])
  <2>1. v \in Tests
    <3>1. u \in Nat /\ t \in Nat /\ t >= 1 /\ \A s \in 1 .. u : s \in Tests
      BY TestNumbers
    <3>2. v \in 1 .. u
      BY <3>1
    <3> QED  BY <3>1, <3>2
  <2>2. i \in 1 .. Len(d.ancestors[v])
    BY <1>4, <2>1, PathFacts
  <2> QED  BY <1>4, <2>2 DEF Has
<1> QED  BY <1>1, <1>4, <1>5

(* A set of places that holds every place after one of its own is a tail.  *)
LEMMA TailCount ==
  ASSUME NEW n \in Nat, NEW F \in SUBSET (1 .. n), \A i \in F : \A j \in 1 .. n : i <= j => j \in F
  PROVE  Cardinality(F) \in 0 .. n /\ \A i \in 1 .. n : i \in F <=> i > n - Cardinality(F)
<1>1. CASE F = {}
  <2>1. Cardinality(F) = 0
    BY <1>1, FS_EmptySet
  <2> QED  BY <1>1, <2>1
<1>2. CASE F # {}
  <2>1. PICK m \in F : \A i \in F : m <= i
    <3>1. \A i \in F : i \in Nat
      OBVIOUS
    <3> QED  BY <1>2, <3>1, MinIsMember
  <2>2. m \in 1 .. n /\ m \in Nat
    OBVIOUS
  <2>3. \A j : j \in F <=> j \in m .. n
    <3>1. ASSUME NEW j \in F PROVE j \in m .. n
      <4>1. j \in 1 .. n /\ m <= j
        BY <2>1
      <4> QED  BY <2>2, <4>1
    <3>2. ASSUME NEW j \in m .. n PROVE j \in F
      <4>1. j \in 1 .. n /\ m <= j
        BY <2>2
      <4> QED  BY <4>1
    <3> QED  BY <3>1, <3>2
  <2>4. F = m .. n
    BY <2>3
  <2>5. Cardinality(F) = n - m + 1
    BY <2>2, <2>4, FS_Interval
  <2> QED  BY <2>2, <2>3, <2>5
<1> QED  BY <1>1, <1>2

(* The suites of a path.                                                   *)
LEMMA RangeHas ==
  ASSUME NEW d \in Decls, NEW t \in Tests, NEW x
  PROVE  x \in Range(d.ancestors[t]) <=> Has(d.ancestors[t], x)
BY PathFacts DEF Range, Has

-----------------------------------------------------------------------------
(* The suite plan.                                                         *)

(* A route finishes the suites that no later route is in.                  *)
LEMMA RouteFinish ==
  ASSUME NEW d \in Decls, NEW selected \in SUBSET Tests, NEW t \in Tests
  PROVE  LET r == Route(d, selected, t)
         IN /\ r.test = t /\ r.ancestors = d.ancestors[t] /\ r.finish \in 0 .. Len(d.ancestors[t])
            /\ \A i \in 1 .. Len(d.ancestors[t]) :
                 i <= Len(d.ancestors[t]) - r.finish <=>
                   \E u \in selected : u > t /\ Has(d.ancestors[u], d.ancestors[t][i])
<1> DEFINE path == d.ancestors[t]
           F == {i \in DOMAIN path : \A later \in selected : later > t => path[i] \notin Range(d.ancestors[later])}
           r == Route(d, selected, t)
<1>1. path \in Seq(Suites) /\ Len(path) \in Nat /\ DOMAIN path = 1 .. Len(path)
  BY PathFacts
<1>2. r = [test |-> t, ancestors |-> path, finish |-> Cardinality(F)]
  BY DEF Route
<1>3. ASSUME NEW i \in 1 .. Len(path)
      PROVE  i \notin F <=> \E u \in selected : u > t /\ Has(d.ancestors[u], path[i])
  <2>1. \A u \in selected : path[i] \in Range(d.ancestors[u]) <=> Has(d.ancestors[u], path[i])
    BY RangeHas
  <2> HIDE DEF path
  <2> QED  BY <1>1, <2>1
<1>4. ASSUME NEW i \in F, NEW j \in 1 .. Len(path), i <= j PROVE j \in F
  <2>1. SUFFICES ASSUME j \notin F PROVE FALSE
    OBVIOUS
  <2>2. PICK u \in selected : u > t /\ Has(d.ancestors[u], path[j])
    BY <1>3, <2>1
  <2>3. i \in 1 .. j /\ i \in 1 .. Len(path)
    BY <1>1, <1>4
  <2>4. j \in 1 .. Len(d.ancestors[u]) /\ \A k \in 1 .. j : d.ancestors[u][k] = d.ancestors[t][k]
    BY <2>2, SharedPath
  <2>5. i \in 1 .. Len(d.ancestors[u]) /\ d.ancestors[u][i] = path[i]
    BY <2>3, <2>4, PathFacts
  <2>6. Has(d.ancestors[u], path[i])
    BY <2>5 DEF Has
  <2> QED  BY <1>3, <2>2, <2>3, <2>6
<1>5. F \in SUBSET (1 .. Len(path))
  BY <1>1
<1> HIDE DEF F, path
<1>6. Cardinality(F) \in 0 .. Len(path) /\ \A i \in 1 .. Len(path) : i \in F <=> i > Len(path) - Cardinality(F)
  BY <1>1, <1>4, <1>5, TailCount
<1>7. r.test = t /\ r.ancestors = path /\ r.finish = Cardinality(F)
  BY <1>2
<1> HIDE DEF r
<1>8. ASSUME NEW i \in 1 .. Len(path)
      PROVE  i <= Len(path) - r.finish <=> \E u \in selected : u > t /\ Has(d.ancestors[u], path[i])
  <2>1. i <= Len(path) - r.finish <=> i \notin F
    BY <1>1, <1>6, <1>7
  <2> QED  BY <1>3, <2>1
<1> QED  BY <1>6, <1>7, <1>8 DEF r, path

(* A fresh suite plan.                                                     *)
LEMMA FreshPath ==
  ASSUME NEW d \in Decls, NEW selected \in SUBSET Tests, NEW s, s = InitSuitePlan(d, selected)
  PROVE  PathInv(d, s) /\ Rest(s) = selected /\ s.active = <<>> /\ Idle(s) /\ s.index = 1
         /\ (s.routes = <<>> <=> selected = {})
<1> DEFINE routes == Routes(d, selected)
<1>1. RoutesOf(d, selected, routes)
  BY FreshRoutes
<1>2. s = [routes |-> routes, index |-> 1, active |-> <<>>, pending |-> NoOp, skip |-> 0, skipped |-> {},
           closing |-> FALSE, retire |-> FALSE, exits |-> 0]
  BY DEF InitSuitePlan
<1> HIDE DEF routes
<1>3. /\ routes \in Seq(RouteType) /\ Len(routes) \in Nat
      /\ \A k \in 1 .. Len(routes) :
           routes[k].test \in selected /\ routes[k].test \in Nat /\ routes[k] = Route(d, selected, routes[k].test)
      /\ \A k, l \in 1 .. Len(routes) : k < l => routes[k].test < routes[l].test
      /\ \A t \in selected : \E k \in 1 .. Len(routes) : routes[k].test = t
  BY <1>1, TestNumbers DEF RoutesOf
<1>4. /\ s.routes = routes /\ s.index = 1 /\ s.pending = NoOp /\ s.skip = 0 /\ s.skipped = {}
      /\ s.closing = FALSE /\ s.retire = FALSE /\ s.active = <<>>
  BY <1>2
<1>5. ASSUME NEW j \in 1 .. Len(routes)
      PROVE  RouteInv(d, s, j) /\ routes[j].ancestors = d.ancestors[routes[j].test]
  <2> DEFINE t == routes[j].test
             path == d.ancestors[t]
  <2>1. t \in Tests /\ t \in Nat /\ routes[j] = Route(d, selected, t)
    BY <1>3
  <2> HIDE DEF t
  <2>2. /\ routes[j].ancestors = path /\ routes[j].finish \in 0 .. Len(path)
        /\ \A i \in 1 .. Len(path) :
             i <= Len(path) - routes[j].finish <=> \E u \in selected : u > t /\ Has(d.ancestors[u], path[i])
    BY <2>1, RouteFinish
  <2>3. ASSUME NEW x
        PROVE  (\E u \in selected : u > t /\ Has(d.ancestors[u], x)) <=>
               \E k \in j + 1 .. Len(routes) : Has(d.ancestors[routes[k].test], x)
    <3>1. ASSUME NEW u \in selected, u > t, Has(d.ancestors[u], x)
          PROVE  \E k \in j + 1 .. Len(routes) : Has(d.ancestors[routes[k].test], x)
      <4>1. PICK k \in 1 .. Len(routes) : routes[k].test = u
        BY <1>3
      <4>2. k \in Nat /\ j \in Nat /\ k # j /\ ~(k < j)
        BY <1>3, <2>1, <3>1, <4>1 DEF t
      <4>3. k \in j + 1 .. Len(routes)
        BY <4>2
      <4> QED  BY <3>1, <4>1, <4>3
    <3>2. ASSUME NEW k \in j + 1 .. Len(routes), Has(d.ancestors[routes[k].test], x)
          PROVE  \E u \in selected : u > t /\ Has(d.ancestors[u], x)
      <4>1. k \in 1 .. Len(routes) /\ j < k
        BY <1>3
      <4>2. routes[k].test \in selected /\ routes[k].test > t
        BY <1>3, <4>1 DEF t
      <4> QED  BY <3>2, <4>2
    <3> QED  BY <3>1, <3>2
  <2> HIDE DEF path
  <2>4. RouteInv(d, s, j)
    BY <1>4, <2>2, <2>3 DEF RouteInv
  <2> QED  BY <2>2, <2>4 DEF path, t
<1>6. \A j \in 2 .. Len(routes) : j \in 1 .. Len(routes)
  BY <1>3
<1>7. 1 <= Len(routes) => OnRoute(d, s, routes[1])
  <2>1. SUFFICES ASSUME 1 <= Len(routes) PROVE OnRoute(d, s, routes[1])
    OBVIOUS
  <2>2. 1 \in 1 .. Len(routes)
    BY <1>3, <2>1
  <2>3. routes[1].ancestors = d.ancestors[routes[1].test] /\ routes[1].test \in Tests
    BY <1>3, <1>5, <2>2
  <2>4. Len(routes[1].ancestors) \in Nat
    BY <2>3, PathFacts
  <2> QED  BY <1>4, <2>3, <2>4 DEF OnRoute, Within
<1>8. PathInv(d, s)
  BY <1>3, <1>4, <1>5, <1>6, <1>7 DEF PathInv, RoutesInv, OnPath
<1>9. Rest(s) = selected
  BY <1>3, <1>4 DEF Rest
<1>10. routes = <<>> <=> selected = {}
  BY <1>3
<1> QED  BY <1>4, <1>8, <1>9, <1>10 DEF Idle
(* Within is the prefix relation of the suite plan.                        *)
LEMMA WithinPrefix ==
  ASSUME NEW a \in Seq(Suites), NEW b \in Seq(Suites)
  PROVE  IsPrefix(a, b) <=> Within(a, b)
<1>1. CASE Len(a) <= Len(b)
  <2>1. SubSeq(a, 1, Len(a)) = [i \in 1 .. Len(a) |-> a[i]] /\ SubSeq(b, 1, Len(a)) = [i \in 1 .. Len(a) |-> b[i]]
    BY <1>1
  <2>2. SubSeq(a, 1, Len(a)) = SubSeq(b, 1, Len(a)) <=> \A i \in 1 .. Len(a) : a[i] = b[i]
    BY <2>1
  <2> QED  BY <1>1, <2>2 DEF IsPrefix, Within
<1> QED  BY <1>1 DEF IsPrefix, Within

(* What the suite plan admits next: on a route the next suite of its path, *)
(* and in the end its test; while it closes, the innermost suite's exit.   *)
Leads(s, o) ==
  LET r == s.routes[s.index]
  IN /\ ~s.closing /\ ~s.retire /\ s.index <= Len(s.routes) =>
          /\ o.test = r.test
          /\ o.kind = IF s.skip # 0 THEN "SkippedTest" ELSE IF Len(s.active) < Len(r.ancestors) THEN "BeforeAll" ELSE "Test"
          /\ o.kind = "BeforeAll" => o.suite = r.ancestors[Len(s.active) + 1] /\ o.suite \in Suites
          /\ o.skipped = s.skipped
     /\ s.closing => /\ s.active # <<>> /\ s.index <= Len(s.routes)
                     /\ o.kind = "AfterAll" /\ o.suite = Last(s.active) /\ o.test = r.test
     /\ ~s.closing /\ (s.retire \/ s.index > Len(s.routes)) => o.kind = "none"

(* Next never throws.                                                      *)
LEMMA NextOpLeads ==
  ASSUME NEW d \in Decls, NEW s, SuiteInv(s), PathInv(d, s), s.pending = NoOp, NEW o, o = NextOp(s)
  PROVE  Leads(s, o)
<1> DEFINE r == s.routes[s.index]
<1>0. /\ s.index \in Nat /\ s.index >= 1 /\ Len(s.routes) \in Nat /\ s.active \in Seq(Suites) /\ Len(s.active) \in Nat
      /\ s.skip = 0 => s.skipped = {}
  BY SuiteFields DEF SuiteInv
<1>1. CASE s.closing
  <2>1. s.active # <<>>
    <3>1. CASE s.retire
      BY <1>1, <3>1 DEF PathInv, RoutesInv, OnPath
    <3>2. CASE ~s.retire
      <4>1. s.exits \in 1 .. Len(s.active)
        BY <1>1, <3>2 DEF PathInv, RoutesInv, OnPath
      <4> QED  BY <1>0, <4>1
    <3> QED  BY <3>1, <3>2
  <2>2. s.index <= Len(s.routes)
    BY <1>0, <2>1 DEF PathInv, RoutesInv, OnPath
  <2>3. o = Op("AfterAll", Last(s.active), r.test)
    BY <1>1, <2>1 DEF NextOp
  <2>4. o.kind = "AfterAll" /\ o.suite = Last(s.active) /\ o.test = r.test
    BY <2>3 DEF Op
  <2> QED  BY <1>1, <2>1, <2>2, <2>4 DEF Leads
<1>2. CASE ~s.closing /\ (s.retire \/ s.index > Len(s.routes))
  <2>1. o.kind = "none"
    BY <1>2 DEF NextOp, NoOp, Op
  <2>2. s.index > Len(s.routes) => ~(s.index <= Len(s.routes))
    BY <1>0
  <2> QED  BY <1>2, <2>1, <2>2 DEF Leads
<1>3. CASE ~s.closing /\ ~s.retire /\ ~(s.index > Len(s.routes))
  <2>0. s.index \in 1 .. Len(s.routes) /\ s.index <= Len(s.routes)
    BY <1>0, <1>3
  <2>1. OnRoute(d, s, r)
    BY <2>0 DEF PathInv, RoutesInv, OnPath
  <2>2. r.ancestors \in Seq(Suites)
    BY <2>0, SuiteFields, SMTT(40), ZenonT(60)
  <2>3. IsPrefix(s.active, r.ancestors) /\ Len(s.active) <= Len(r.ancestors)
    BY <1>0, <2>1, <2>2, WithinPrefix DEF OnRoute, Within
  <2> HIDE DEF r
  <2>4. o = IF s.skip # 0 THEN [Op("SkippedTest", Last(s.active), r.test) EXCEPT !.skipped = s.skipped]
            ELSE IF Len(s.active) < Len(r.ancestors) THEN Op("BeforeAll", r.ancestors[Len(s.active) + 1], r.test)
            ELSE Op("Test", Last(r.ancestors), r.test)
    BY <1>3, <2>3 DEF NextOp, r
  <2>5. CASE s.skip # 0
    <3>1. o.kind = "SkippedTest" /\ o.test = r.test /\ o.skipped = s.skipped
      BY <2>4, <2>5 DEF Op
    <3> QED  BY <1>3, <2>5, <3>1 DEF Leads, r
  <2>6. CASE s.skip = 0 /\ Len(s.active) < Len(r.ancestors)
    <3>1. o.kind = "BeforeAll" /\ o.test = r.test /\ o.skipped = {} /\ o.suite = r.ancestors[Len(s.active) + 1]
      BY <2>4, <2>6 DEF Op
    <3>2. Len(s.active) + 1 \in 1 .. Len(r.ancestors)
      BY <1>0, <2>2, <2>6
    <3>3. o.suite \in Suites
      BY <2>2, <3>1, <3>2
    <3> QED  BY <1>0, <1>3, <2>6, <3>1, <3>3 DEF Leads, r
  <2>7. CASE s.skip = 0 /\ ~(Len(s.active) < Len(r.ancestors))
    <3>1. o.kind = "Test" /\ o.test = r.test /\ o.skipped = {}
      BY <2>4, <2>7 DEF Op
    <3> QED  BY <1>0, <1>3, <2>7, <3>1 DEF Leads, r
  <2> QED  BY <2>5, <2>6, <2>7
<1> QED  BY <1>1, <1>2, <1>3

(* When a route has left what it finishes, the rest is on the next route.  *)
LEMMA SharedNext ==
  ASSUME NEW d \in Decls, NEW s, SuiteInv(s), PathInv(d, s), s.index <= Len(s.routes),
         NEW a \in Seq(Suites), Within(a, s.routes[s.index].ancestors),
         Len(a) = Len(s.routes[s.index].ancestors) - s.routes[s.index].finish
  PROVE  IF s.index + 1 <= Len(s.routes) THEN Within(a, s.routes[s.index + 1].ancestors) ELSE a = <<>>
<1> DEFINE j == s.index
           r == s.routes[j]
           t == r.test
           n == Len(a)
<1>1. /\ s.index \in Nat /\ s.index >= 1 /\ Len(s.routes) \in Nat /\ j \in 1 .. Len(s.routes) /\ n \in Nat
      /\ r.ancestors \in Seq(Suites) /\ Len(r.ancestors) \in Nat /\ t \in Tests /\ r.finish \in Int
      /\ \A k \in 1 .. Len(s.routes) : s.routes[k].test \in Tests
  BY SuiteFields, SMTT(40), ZenonT(60)
<1>2. Within(r.ancestors, d.ancestors[t])
  BY DEF PathInv, OnPath, OnRoute
<1>3. RouteInv(d, s, j)
  <2>1. j \in j .. Len(s.routes)
    BY <1>1
  <2> QED  BY <2>1 DEF PathInv, RoutesInv
<1>4. ASSUME j + 1 <= Len(s.routes)
      PROVE  /\ s.routes[j + 1].ancestors = d.ancestors[s.routes[j + 1].test] /\ s.routes[j + 1].test \in Tests
             /\ j + 1 \in 1 .. Len(s.routes)
  <2>1. j + 1 \in j + 1 .. Len(s.routes) /\ j + 1 \in 1 .. Len(s.routes)
    BY <1>1, <1>4
  <2> QED  BY <1>1, <2>1 DEF PathInv, RoutesInv
<1>5. CASE n = 0
  <2>1. a = <<>>
    BY <1>5
  <2>2. j + 1 <= Len(s.routes) => Len(s.routes[j + 1].ancestors) \in Nat
    BY <1>4, PathFacts, SMTT(40), ZenonT(60)
  <2> QED  BY <1>5, <2>1, <2>2 DEF Within
<1>6. CASE n # 0
  <2>1. n \in 1 .. Len(r.ancestors) /\ n <= Len(r.ancestors) - r.finish /\ n >= 1
    BY <1>1, <1>6 DEF Within
  <2>2. PICK k \in j + 1 .. Len(s.routes) : Has(d.ancestors[s.routes[k].test], r.ancestors[n])
    BY <1>3, <2>1 DEF RouteInv
  <2>3. k \in Nat /\ k \in 1 .. Len(s.routes) /\ j + 1 <= k /\ k <= Len(s.routes) /\ j + 1 <= Len(s.routes)
    BY <1>1
  <2> DEFINE u == s.routes[k].test
             v == s.routes[j + 1].test
  <2>4. u \in Tests /\ v \in Tests /\ u \in Nat /\ v \in Nat /\ t \in Nat
    BY <1>1, <1>4, <2>3, TestNumbers
  <2>5. v \in t .. u
    <3>1. t < v
      BY <1>1, <1>4, <2>3 DEF PathInv, RoutesInv
    <3>2. CASE k = j + 1
      BY <2>4, <3>1, <3>2, SMTT(40), ZenonT(60)
    <3>3. CASE k # j + 1
      <4>1. j + 1 < k
        BY <1>1, <2>3, <3>3
      <4>2. v < u
        BY <1>4, <2>3, <4>1 DEF PathInv, RoutesInv
      <4> QED  BY <2>4, <3>1, <4>2, SMTT(40), ZenonT(60)
    <3> QED  BY <3>2, <3>3
  <2>6. r.ancestors[n] = d.ancestors[t][n] /\ n \in 1 .. Len(d.ancestors[t])
    <3>1. Len(d.ancestors[t]) \in Nat
      BY <1>1, PathFacts
    <3>2. Len(r.ancestors) <= Len(d.ancestors[t]) /\ \A i \in 1 .. Len(r.ancestors) : r.ancestors[i] = d.ancestors[t][i]
      BY <1>2 DEF Within
    <3> HIDE DEF r, t, n
    <3> QED  BY <1>1, <2>1, <3>1, <3>2
  <2> HIDE DEF u, v, t, n
  <2>7. Has(d.ancestors[v], d.ancestors[t][n])
    <3>1. Has(d.ancestors[u], d.ancestors[t][n])
      BY <2>2, <2>6 DEF u
    <3> QED  BY <1>1, <2>4, <2>5, <2>6, <3>1, SharedPath
  <2>8. n \in 1 .. Len(d.ancestors[v]) /\ \A i \in 1 .. n : d.ancestors[v][i] = d.ancestors[t][i]
    BY <1>1, <2>4, <2>6, <2>7, SharedPath
  <2>9. ASSUME NEW i \in 1 .. n PROVE a[i] = d.ancestors[v][i]
    <3>1. i \in 1 .. Len(a) /\ i \in 1 .. Len(r.ancestors)
      BY <1>1, <2>1, SMTT(40), ZenonT(60) DEF n
    <3> QED  BY <1>2, <2>8, <3>1 DEF Within
  <2>10. n <= Len(d.ancestors[v])
    <3>1. Len(d.ancestors[v]) \in Nat
      BY <2>4, PathFacts
    <3> QED  BY <2>8, <3>1
  <2> QED  BY <1>4, <2>3, <2>9, <2>10 DEF Within, n, v
<1> QED  BY <1>5, <1>6

(* An operation on the current route, or a move to the next one.           *)
LEMMA SamePath ==
  ASSUME NEW d \in Decls, NEW s, SuiteInv(s), PathInv(d, s), NEW c, c.routes = s.routes,
         c.index = s.index \/ c.index = s.index + 1, OnPath(d, c)
  PROVE  PathInv(d, c)
<1>1. s.index \in Nat /\ Len(s.routes) \in Nat
  BY SuiteFields
<1>2. /\ c.index + 1 .. Len(s.routes) \subseteq s.index + 1 .. Len(s.routes)
      /\ c.index .. Len(s.routes) \subseteq s.index .. Len(s.routes)
  BY <1>1
<1>3. \A j \in s.index .. Len(s.routes) : RouteInv(d, c, j)
  BY DEF PathInv, RoutesInv, RouteInv
<1>4. RoutesInv(d, c)
  BY <1>2, <1>3 DEF PathInv, RoutesInv
<1> QED  BY <1>4 DEF PathInv

(* What is admitted, field by field.                                       *)
LEMMA AdmittedFields ==
  ASSUME NEW s, SuiteInv(s), NEW o, o = NextOp(s), NEW a, a = Admitted(s)
  PROVE  /\ Admits(s, a) /\ a.pending = o /\ a.exits = s.exits /\ a \in SuitePlanWith(a.pending)
         /\ a.active = IF o.kind = "BeforeAll" THEN Append(s.active, o.suite) ELSE s.active
<1>1. Admits(s, a)
  BY AdmittedKeeps
<1>2. s \in SuitePlanWith(s.pending)
  BY SuiteFields
<1>3. a.exits = s.exits /\ a.active = IF o.kind = "BeforeAll" THEN Append(s.active, o.suite) ELSE s.active
  BY <1>2 DEF Admitted, SuitePlanWith
<1> QED  BY <1>1, <1>3 DEF Admits, Goes, SuiteInv

(* Where a suite plan is that has nothing pending and is not closing.      *)
LEMMA OnCurrent ==
  ASSUME NEW d \in Decls, NEW s, SuiteInv(s), PathInv(d, s), s.index <= Len(s.routes), NEW r, r = s.routes[s.index]
  PROVE  /\ s.index \in 1 .. Len(s.routes) /\ s.index \in Nat /\ Len(s.routes) \in Nat
         /\ s.active \in Seq(Suites) /\ Len(s.active) \in Nat /\ s.exits \in Int
         /\ s.closing \in BOOLEAN /\ s.retire \in BOOLEAN
         /\ r.test \in Tests /\ r.ancestors \in Seq(Suites) /\ Len(r.ancestors) \in Nat
         /\ r.finish \in 0 .. Len(r.ancestors) /\ r.finish \in Nat /\ RouteInv(d, s, s.index)
         /\ OnRoute(d, s, r)
<1>1. /\ s.index \in 1 .. Len(s.routes) /\ s.index \in Nat /\ Len(s.routes) \in Nat
      /\ s.active \in Seq(Suites) /\ Len(s.active) \in Nat /\ s.exits \in Int
      /\ s.closing \in BOOLEAN /\ s.retire \in BOOLEAN
  BY SuiteFields
<1>2. r.test \in Tests /\ r.ancestors \in Seq(Suites)
  BY <1>1, SuiteFields
<1>3. s.index \in s.index .. Len(s.routes)
  BY <1>1
<1>4. RouteInv(d, s, s.index)
  BY <1>3 DEF PathInv, RoutesInv
<1>5. Len(r.ancestors) \in Nat
  BY <1>2, SMTT(40), ZenonT(60)
<1>6. r.finish \in 0 .. Len(r.ancestors)
  BY <1>4 DEF RouteInv
<1>7. r.finish \in Nat
  BY <1>5, <1>6
<1> QED  BY <1>1, <1>2, <1>4, <1>5, <1>6, <1>7 DEF PathInv, OnPath

(* The suite plan admits a test: it is inside the suites of its route.     *)
LEMMA PathArrive ==
  ASSUME NEW d \in Decls, NEW s, SuiteInv(s), PathInv(d, s), s.pending = NoOp, NEW o, o = NextOp(s),
         o.kind \in {"Test", "SkippedTest"}, NEW c, c = Admitted(s)
  PROVE  PathInv(d, c) /\ c.active = s.active
<1> DEFINE r == s.routes[s.index]
<1>1. /\ Admits(s, c) /\ c.pending = o /\ c.active = s.active /\ c.exits = s.exits
  BY AdmittedFields
<1>2. /\ c.routes = s.routes /\ c.index = s.index /\ c.skip = s.skip /\ c.retire = s.retire /\ c.closing = s.closing
  BY <1>1 DEF Admits
<1>3. Leads(s, o)
  BY NextOpLeads
<1>4. Offered(s, o)
  BY NextOpFacts
<1>5. s.index \in 1 .. Len(s.routes) /\ s.index <= Len(s.routes) /\ ~s.retire /\ ~s.closing
  <2>1. s.index \in 1 .. Len(s.routes) /\ ~s.retire
    BY <1>4 DEF Offered
  <2>2. ~s.closing
    BY <1>3 DEF Leads
  <2> QED  BY <2>1, <2>2, SuiteFields
<1>6. /\ Len(s.active) \in Nat /\ Len(r.ancestors) \in Nat /\ OnRoute(d, s, r)
      /\ r.ancestors \in Seq(Suites) /\ s.active \in Seq(Suites)
  BY <1>5, OnCurrent
<1>7. o.test = r.test /\ o.kind = (IF s.skip # 0 THEN "SkippedTest" ELSE IF Len(s.active) < Len(r.ancestors) THEN "BeforeAll" ELSE "Test")
  BY <1>3, <1>5 DEF Leads
<1>8. s.active = r.ancestors
  <2>1. CASE s.skip # 0
    BY <1>6, <2>1 DEF OnRoute
  <2>2. CASE s.skip = 0
    <3>1. ~(Len(s.active) < Len(r.ancestors))
      BY <1>7, <2>2, SMTT(40), ZenonT(60)
    <3>2. Len(s.active) <= Len(r.ancestors) /\ \A i \in 1 .. Len(s.active) : s.active[i] = r.ancestors[i]
      BY <1>6, SMTT(40), ZenonT(60) DEF OnRoute, Within
    <3> HIDE DEF r
    <3> QED  BY <1>6, <3>1, <3>2
  <2> QED  BY <2>1, <2>2
<1>9. OnRoute(d, c, r)
  BY <1>1, <1>2, <1>6, <1>7, <1>8 DEF OnRoute
<1>10. NoOp.kind = "none" /\ c.pending # NoOp
  BY <1>1 DEF NoOp, Op
<1>11. OnPath(d, c)
  <2>1. ~(s.index > Len(s.routes))
    BY <1>5, SuiteFields
  <2>2. o.kind = IF s.skip = 0 THEN "Test" ELSE "SkippedTest"
    BY <1>7
  <2>3. c.index <= Len(c.routes) => OnRoute(d, c, c.routes[c.index])
    BY <1>2, <1>9
  <2>4. c.pending = o /\ ~(c.index > Len(c.routes)) /\ ~c.closing /\ ~c.retire /\ c.skip = s.skip
    BY <1>1, <1>2, <1>5, <2>1
  <2> QED  BY <2>2, <2>3, <2>4 DEF OnPath
<1>12. PathInv(d, c)
  BY <1>2, <1>11, SamePath
<1> QED  BY <1>1, <1>12

(* What comes of a beforeAll that does not skip.                           *)
Enters(d, s, c, suite, ok) ==
  /\ c.active = Append(s.active, suite) /\ c.pending = NoOp /\ c.skip = 0
  /\ c.routes = s.routes /\ c.index = s.index /\ (c.retire <=> ~ok) /\ (c.closing <=> ~ok)
  /\ s.index <= Len(s.routes) /\ ~s.closing /\ ~s.retire /\ s.skip = 0
  /\ Has(d.ancestors[s.routes[s.index].test], suite) /\ suite \in Suites

(* A suite is entered, or its beforeAll fails.                             *)
LEMMA PathEnter ==
  ASSUME NEW d \in Decls, NEW s, SuiteInv(s), PathInv(d, s), s.pending = NoOp, NEW o, o = NextOp(s),
         o.kind = "BeforeAll", NEW ok \in BOOLEAN, NEW c, c = Complete(Admitted(s), ok)
  PROVE  PathInv(d, c) /\ Enters(d, s, c, o.suite, ok)
<1> DEFINE r == s.routes[s.index]
           a == Admitted(s)
<1>1. /\ Admits(s, a) /\ a.pending = o /\ a.active = Append(s.active, o.suite) /\ a.exits = s.exits
      /\ a \in SuitePlanWith(a.pending)
  <2>1. a = Admitted(s)
    OBVIOUS
  <2> HIDE DEF a, r
  <2>2. /\ Admits(s, a) /\ a.pending = o /\ a.exits = s.exits /\ a \in SuitePlanWith(a.pending)
        /\ a.active = IF o.kind = "BeforeAll" THEN Append(s.active, o.suite) ELSE s.active
    BY ONLY SuiteInv(s), o = NextOp(s), <2>1, AdmittedFields
  <2> QED  BY <2>2
<1>1a. c = Complete(a, ok)
  OBVIOUS
<1> HIDE DEF a
<1>2. /\ a.routes = s.routes /\ a.index = s.index /\ a.skip = s.skip /\ a.retire = s.retire /\ a.closing = s.closing
  BY <1>1 DEF Admits
<1>3. Leads(s, o)
  BY NextOpLeads
<1>4. Offered(s, o)
  BY NextOpFacts
<1>5. /\ s.index \in 1 .. Len(s.routes) /\ s.index <= Len(s.routes) /\ ~s.retire /\ ~s.closing /\ s.skip = 0
      /\ o.suite \in Suites
  <2>1. s.index \in 1 .. Len(s.routes) /\ ~s.retire /\ s.skip = 0 /\ o.suite \in Suites
    BY <1>4 DEF Offered
  <2>2. ~s.closing
    BY <1>3 DEF Leads
  <2> QED  BY <2>1, <2>2, SuiteFields
<1>6. /\ Len(s.active) \in Nat /\ Len(r.ancestors) \in Nat /\ OnRoute(d, s, r) /\ r.test \in Tests
      /\ r.ancestors \in Seq(Suites) /\ s.active \in Seq(Suites)
  BY <1>5, OnCurrent
<1>7. Len(s.active) < Len(r.ancestors) /\ o.suite = r.ancestors[Len(s.active) + 1]
  BY <1>3, <1>5 DEF Leads
<1>8. Completed(a, c, ok)
  BY <1>1, <1>1a, CompleteFields
<1>9. /\ c.routes = s.routes /\ c.pending = NoOp /\ (c.retire <=> ~ok) /\ c.index = s.index
      /\ c.active = Append(s.active, o.suite) /\ c.skip = 0 /\ (c.closing <=> ~ok)
  BY <1>1, <1>2, <1>5, <1>8 DEF Completed
<1> HIDE DEF r
<1>10. Within(c.active, r.ancestors) /\ c.active # <<>>
  <2>1. Len(s.active) <= Len(r.ancestors) /\ \A i \in 1 .. Len(s.active) : s.active[i] = r.ancestors[i]
    BY <1>6 DEF OnRoute, Within
  <2>2. /\ Len(c.active) = Len(s.active) + 1
        /\ \A i \in 1 .. Len(s.active) + 1 : c.active[i] = IF i <= Len(s.active) THEN s.active[i] ELSE o.suite
    BY <1>5, <1>6, <1>9
  <2>3. ASSUME NEW i \in 1 .. Len(s.active) + 1 PROVE c.active[i] = r.ancestors[i]
    <3>1. CASE i <= Len(s.active)
      <4>1. i \in 1 .. Len(s.active)
        BY <1>6, <3>1
      <4> QED  BY <2>1, <2>2, <3>1, <4>1
    <3>2. CASE ~(i <= Len(s.active))
      <4>1. i = Len(s.active) + 1
        BY <1>6, <3>2
      <4> QED  BY <1>7, <2>2, <3>2, <4>1
    <3> QED  BY <3>1, <3>2
  <2>4. Within(c.active, r.ancestors)
    BY <1>6, <1>7, <2>2, <2>3 DEF Within
  <2>5. c.active # <<>>
    BY <1>6, <2>2
  <2> QED  BY <2>4, <2>5
<1>11. r.ancestors = d.ancestors[r.test] /\ Within(r.ancestors, d.ancestors[r.test])
  BY <1>5, <1>6 DEF OnRoute
<1>12. OnRoute(d, c, r)
  BY <1>9, <1>10, <1>11 DEF OnRoute
<1>13. Has(d.ancestors[r.test], o.suite)
  <2>1. Len(s.active) + 1 \in 1 .. Len(r.ancestors)
    BY <1>6, <1>7
  <2> QED  BY <1>7, <1>11, <2>1 DEF Has
<1>14. OnPath(d, c)
  <2>1. ~(s.index > Len(s.routes))
    BY <1>5, SuiteFields
  <2> QED  BY <1>9, <1>10, <1>12, <2>1 DEF OnPath, r
<1>15. PathInv(d, c)
  BY <1>9, <1>14, SamePath
<1> QED  BY <1>5, <1>9, <1>13, <1>15 DEF r, Enters

(* A test ends: its route leaves the suites that it finishes.              *)
LEMMA PathDone ==
  ASSUME NEW d \in Decls, NEW s, SuiteInv(s), PathInv(d, s), s.pending # NoOp, NEW ok \in BOOLEAN,
         NEW c, c = Complete(s, ok)
  PROVE  /\ PathInv(d, c) /\ c.active = s.active /\ c.pending = NoOp /\ c.skip = 0 /\ c.routes = s.routes
         /\ (c.retire <=> ~ok) /\ s.index <= Len(s.routes) /\ ~s.closing
         /\ c.index = IF c.closing \/ c.retire THEN s.index ELSE s.index + 1
<1> DEFINE r == s.routes[s.index]
<1>1. s.pending.kind \in {"Test", "SkippedTest"} /\ ~s.closing /\ ~s.retire /\ ~(s.index > Len(s.routes))
  BY DEF PathInv, OnPath
<1>2. s.index <= Len(s.routes)
  BY <1>1, SuiteFields
<1>3. Completed(s, c, ok)
  BY <1>1, CompleteFields, SuiteFields
<1>4. /\ s.index \in Nat /\ Len(s.routes) \in Nat /\ s.active \in Seq(Suites) /\ Len(s.active) \in Nat
      /\ Len(r.ancestors) \in Nat /\ r.finish \in 0 .. Len(r.ancestors) /\ r.finish \in Nat /\ OnRoute(d, s, r)
  BY <1>2, OnCurrent
<1>5. /\ c.routes = s.routes /\ c.pending = NoOp /\ (c.retire <=> ~ok) /\ c.active = s.active /\ c.skip = 0
      /\ c.exits = (IF c.retire THEN Len(s.active) ELSE r.finish) /\ (c.closing <=> c.exits # 0)
      /\ c.index = IF c.exits = 0 /\ ~c.retire THEN s.index + 1 ELSE s.index
  BY <1>1, <1>3 DEF Completed
<1>6. s.active = r.ancestors /\ Within(s.active, r.ancestors) /\ Within(r.ancestors, d.ancestors[r.test])
  BY <1>4 DEF OnRoute
<1> HIDE DEF r
<1>7. CASE c.retire
  <2>1. c.closing <=> s.active # <<>>
    BY <1>4, <1>5, <1>7
  <2>2. OnRoute(d, c, r)
    BY <1>5, <1>6, <1>7 DEF OnRoute
  <2>3. c.index = s.index
    BY <1>5, <1>7
  <2>4. OnPath(d, c)
    BY <1>1, <1>5, <1>7, <2>1, <2>2, <2>3 DEF OnPath, r
  <2>5. PathInv(d, c)
    BY <1>5, <2>3, <2>4, SamePath
  <2> QED  BY <1>1, <1>2, <1>5, <1>7, <2>3, <2>5
<1>8. CASE ~c.retire /\ r.finish # 0
  <2>1. c.closing /\ c.index = s.index /\ c.exits = r.finish
    BY <1>5, <1>8
  <2>2. OnRoute(d, c, r)
    BY <1>5, <1>6, <2>1 DEF OnRoute
  <2>3. c.exits \in 1 .. Len(c.active) /\ Len(c.active) - c.exits = Len(r.ancestors) - r.finish
    BY <1>4, <1>5, <1>6, <1>8, <2>1
  <2>4. OnPath(d, c)
    BY <1>1, <1>5, <1>8, <2>1, <2>2, <2>3 DEF OnPath, r
  <2>5. PathInv(d, c)
    BY <1>5, <2>1, <2>4, SamePath
  <2> QED  BY <1>1, <1>2, <1>5, <2>1, <2>5
<1>9. CASE ~c.retire /\ r.finish = 0
  <2>1. ~c.closing /\ c.index = s.index + 1
    BY <1>5, <1>9, SMTT(40), ZenonT(60)
  <2>2. IF s.index + 1 <= Len(s.routes) THEN Within(s.active, s.routes[s.index + 1].ancestors) ELSE s.active = <<>>
    <3>1. Len(s.active) = Len(r.ancestors) - r.finish
      BY <1>4, <1>6, <1>9
    <3> QED  BY <1>2, <1>4, <1>6, <3>1, SharedNext, SMTT(40), ZenonT(60) DEF r
  <2>3. c.index <= Len(s.routes) => OnRoute(d, c, s.routes[c.index])
    <3>1. SUFFICES ASSUME c.index <= Len(s.routes) PROVE OnRoute(d, c, s.routes[c.index])
      OBVIOUS
    <3>2. c.index \in s.index + 1 .. Len(s.routes) /\ c.index \in 1 .. Len(s.routes)
      BY <1>4, <2>1, <3>1
    <3>3. s.routes[c.index].ancestors = d.ancestors[s.routes[c.index].test] /\ s.routes[c.index].test \in Tests
      BY <3>2, SuiteFields DEF PathInv, RoutesInv
    <3>4. Within(s.routes[c.index].ancestors, d.ancestors[s.routes[c.index].test])
      BY <3>3, PathFacts DEF Within
    <3> QED  BY <1>5, <2>1, <2>2, <3>1, <3>3, <3>4 DEF OnRoute
  <2>4. c.index > Len(s.routes) => c.active = <<>>
    BY <1>4, <1>5, <2>1, <2>2
  <2>5. OnPath(d, c)
    BY <1>5, <1>9, <2>1, <2>3, <2>4 DEF OnPath
  <2>6. PathInv(d, c)
    BY <1>5, <2>1, <2>5, SamePath
  <2> QED  BY <1>1, <1>2, <1>5, <1>9, <2>1, <2>6
<1> QED  BY <1>7, <1>8, <1>9

(* All suites but the innermost.                                           *)
LEMMA FrontFacts ==
  ASSUME NEW a \in Seq(Suites), a # <<>>
  PROVE  /\ Front(a) \in Seq(Suites) /\ Len(Front(a)) = Len(a) - 1 /\ Len(a) \in Nat /\ Len(a) >= 1
         /\ \A i \in 1 .. Len(a) - 1 : Front(a)[i] = a[i]
         /\ Last(a) = a[Len(a)] /\ Last(a) \in Suites
<1>1. Len(a) \in Nat /\ Len(a) >= 1
  OBVIOUS
<1>2. Last(a) = a[Len(a)] /\ a[Len(a)] \in Suites
  BY <1>1 DEF Last
<1>3. Front(a) = [i \in 1 .. Len(a) - 1 |-> a[i]]
  BY <1>1 DEF Front
<1>4. Front(a) \in Seq(Suites) /\ Len(Front(a)) = Len(a) - 1 /\ \A i \in 1 .. Len(a) - 1 : Front(a)[i] = a[i]
  BY <1>1, <1>3
<1> QED  BY <1>1, <1>2, <1>4

(* Sequences that agree place by place are equal.                          *)
LEMMA SameSuites ==
  ASSUME NEW a \in Seq(Suites), NEW b \in Seq(Suites), Len(a) = Len(b), \A i \in 1 .. Len(b) : a[i] = b[i]
  PROVE  a = b
OBVIOUS

(* A suite is left; the last one that a route finishes leads to the next.  *)
LEMMA PathLeave ==
  ASSUME NEW d \in Decls, NEW s, SuiteInv(s), PathInv(d, s), s.pending = NoOp, s.closing, NEW ok \in BOOLEAN,
         NEW c, c = Complete(Admitted(s), ok)
  PROVE  /\ PathInv(d, c) /\ s.active # <<>> /\ c.active = Front(s.active) /\ c.pending = NoOp /\ c.skip = s.skip
         /\ c.routes = s.routes /\ (c.retire <=> s.retire \/ ~ok) /\ s.index <= Len(s.routes)
         /\ NextOp(s).suite = Last(s.active) /\ NextOp(s).test = s.routes[s.index].test
         /\ c.index = IF c.closing \/ c.retire THEN s.index ELSE s.index + 1
<1> DEFINE r == s.routes[s.index]
           o == NextOp(s)
           a == Admitted(s)
<1>1. Leads(s, o)
  <2>1. o = NextOp(s)
    OBVIOUS
  <2> HIDE DEF o
  <2> QED  BY <2>1, NextOpLeads
<1>2. s.active # <<>> /\ s.index <= Len(s.routes) /\ o.kind = "AfterAll" /\ o.suite = Last(s.active) /\ o.test = r.test
  BY <1>1 DEF Leads
<1>3. /\ Admits(s, a) /\ a.pending = o /\ a.active = s.active /\ a.exits = s.exits /\ a \in SuitePlanWith(a.pending)
  <2>1. a = Admitted(s) /\ o = NextOp(s)
    OBVIOUS
  <2> HIDE DEF a, o, r
  <2>2. /\ Admits(s, a) /\ a.pending = o /\ a.exits = s.exits /\ a \in SuitePlanWith(a.pending)
        /\ a.active = IF o.kind = "BeforeAll" THEN Append(s.active, o.suite) ELSE s.active
    BY ONLY SuiteInv(s), <2>1, AdmittedFields
  <2> QED  BY <1>2, <2>2
<1>4. c = Complete(a, ok)
  OBVIOUS
<1> HIDE DEF a, o
<1>5. a.routes = s.routes /\ a.index = s.index /\ a.skip = s.skip /\ a.retire = s.retire /\ a.closing = s.closing
  BY <1>3 DEF Admits
<1>6. Completed(a, c, ok)
  BY <1>2, <1>3, <1>4, CompleteFields
<1>7. /\ s.index \in Nat /\ Len(s.routes) \in Nat /\ s.active \in Seq(Suites) /\ s.exits \in Int
      /\ r.ancestors \in Seq(Suites) /\ Len(r.ancestors) \in Nat /\ r.finish \in Nat /\ OnRoute(d, s, r)
      /\ s.retire \in BOOLEAN
  BY <1>2, OnCurrent
<1>8. /\ Front(s.active) \in Seq(Suites) /\ Len(Front(s.active)) = Len(s.active) - 1 /\ Len(s.active) \in Nat
      /\ Len(s.active) >= 1 /\ \A i \in 1 .. Len(s.active) - 1 : Front(s.active)[i] = s.active[i]
  BY <1>2, <1>7, FrontFacts
<1>9. /\ c.routes = s.routes /\ c.pending = NoOp /\ (c.retire <=> s.retire \/ ~ok) /\ c.active = Front(s.active)
      /\ c.skip = s.skip /\ c.exits = (IF c.retire THEN Len(Front(s.active)) ELSE s.exits - 1)
      /\ (c.closing <=> c.exits # 0) /\ c.index = IF c.exits = 0 /\ ~c.retire THEN s.index + 1 ELSE s.index
  BY <1>2, <1>3, <1>5, <1>6 DEF Completed
<1>10. /\ Within(c.active, r.ancestors) /\ Within(r.ancestors, d.ancestors[r.test])
       /\ Len(c.active) = Len(s.active) - 1 /\ c.active \in Seq(Suites)
  <2>1. Len(s.active) <= Len(r.ancestors) /\ \A i \in 1 .. Len(s.active) : s.active[i] = r.ancestors[i]
    BY <1>7 DEF OnRoute, Within
  <2>2. Len(c.active) = Len(s.active) - 1 /\ c.active \in Seq(Suites)
    BY <1>8, <1>9
  <2>3. ASSUME NEW i \in 1 .. Len(c.active) PROVE c.active[i] = r.ancestors[i]
    <3>1. i \in 1 .. Len(s.active) /\ i \in 1 .. Len(s.active) - 1
      BY <1>8, <2>2
    <3> QED  BY <1>8, <1>9, <2>1, <3>1
  <2>4. Len(c.active) <= Len(r.ancestors)
    BY <1>7, <1>8, <2>1, <2>2, SMTT(40), ZenonT(60)
  <2> QED  BY <1>7, <2>2, <2>3, <2>4, SMTT(40), ZenonT(60) DEF OnRoute, Within
<1>11. s.skip = 0 /\ ~(s.index > Len(s.routes))
  BY <1>2, <1>7 DEF PathInv, OnPath
<1> HIDE DEF r
<1>12. CASE c.retire
  <2>1. c.closing <=> c.active # <<>>
    <3>1. c.closing <=> Len(c.active) # 0
      BY <1>9, <1>12
    <3>2. c.active \in Seq(Suites)
      BY <1>10
    <3>3. Len(c.active) # 0 <=> c.active # <<>>
      BY <3>2
    <3> QED  BY <3>1, <3>3
  <2>2. OnRoute(d, c, r)
    BY <1>9, <1>10, <1>11, <1>12 DEF OnRoute
  <2>3. c.index = s.index
    BY <1>9, <1>12
  <2>4. OnPath(d, c)
    BY <1>9, <1>11, <1>12, <2>1, <2>2, <2>3 DEF OnPath, r
  <2>5. PathInv(d, c)
    BY <1>9, <2>3, <2>4, SamePath
  <2> QED  BY <1>2, <1>9, <1>12, <2>3, <2>5 DEF r, o
<1>13. ASSUME ~c.retire
       PROVE  s.exits \in 1 .. Len(s.active) /\ Len(s.active) - s.exits = Len(r.ancestors) - r.finish /\ c.exits = s.exits - 1
  BY <1>9, <1>13 DEF PathInv, OnPath, r
<1>14. CASE ~c.retire /\ s.exits # 1
  <2>1. c.exits # 0 /\ c.exits \in 1 .. Len(c.active) /\ Len(c.active) - c.exits = Len(r.ancestors) - r.finish
    BY SMTT(40), <1>7, <1>8, <1>10, <1>13, <1>14
  <2>2. c.closing /\ c.index = s.index
    BY <1>9, <2>1
  <2>3. OnRoute(d, c, r)
    BY <1>9, <1>10, <1>11, <2>2 DEF OnRoute
  <2>4. OnPath(d, c)
    BY <1>9, <1>11, <1>14, <2>1, <2>2, <2>3 DEF OnPath, r
  <2>5. PathInv(d, c)
    BY <1>9, <2>2, <2>4, SamePath
  <2> QED  BY <1>2, <1>9, <2>2, <2>5 DEF r, o
<1>15. CASE ~c.retire /\ s.exits = 1
  <2>1. c.exits = 0 /\ ~c.closing /\ c.index = s.index + 1 /\ Len(c.active) = Len(r.ancestors) - r.finish
    BY <1>7, <1>8, <1>9, <1>10, <1>13, <1>15
  <2>2. IF s.index + 1 <= Len(s.routes) THEN Within(c.active, s.routes[s.index + 1].ancestors) ELSE c.active = <<>>
    BY <1>2, <1>10, <2>1, SharedNext, SMTT(40), ZenonT(60) DEF r
  <2>3. c.index <= Len(s.routes) => OnRoute(d, c, s.routes[c.index])
    <3>1. SUFFICES ASSUME c.index <= Len(s.routes) PROVE OnRoute(d, c, s.routes[c.index])
      OBVIOUS
    <3>2. c.index \in s.index + 1 .. Len(s.routes) /\ c.index \in 1 .. Len(s.routes)
      BY <1>7, <2>1, <3>1
    <3>3. s.routes[c.index].ancestors = d.ancestors[s.routes[c.index].test] /\ s.routes[c.index].test \in Tests
      BY <3>2, SuiteFields DEF PathInv, RoutesInv
    <3>4. Within(s.routes[c.index].ancestors, d.ancestors[s.routes[c.index].test])
      BY <3>3, PathFacts DEF Within
    <3> QED  BY <1>9, <1>11, <2>1, <2>2, <3>1, <3>3, <3>4 DEF OnRoute
  <2>4. c.index > Len(s.routes) => c.active = <<>>
    BY <1>7, <2>1, <2>2
  <2>5. OnPath(d, c)
    BY <1>9, <1>11, <1>15, <2>1, <2>3, <2>4 DEF OnPath
  <2>6. PathInv(d, c)
    BY <1>9, <2>1, <2>5, SamePath
  <2> QED  BY <1>2, <1>9, <1>15, <2>1, <2>6 DEF r, o
<1> QED  BY <1>12, <1>14, <1>15

(* The runner asks the suite plan to retire.                               *)
LEMMA PathRetire ==
  ASSUME NEW d \in Decls, NEW s, SuiteInv(s), PathInv(d, s), s.pending = NoOp, s.skip = 0,
         NEW c, c = RetireAfterCurrentTest(s)
  PROVE  /\ PathInv(d, c) /\ c.active = s.active /\ c.retire /\ c.pending = NoOp /\ c.skip = 0
         /\ c.routes = s.routes /\ c.index = s.index /\ (c.closing <=> s.active # <<>>)
<1>1. s \in SuitePlanWith(s.pending)
  BY SuiteFields
<1>2. /\ c.routes = s.routes /\ c.index = s.index /\ c.pending = NoOp /\ c.skip = 0 /\ c.retire = TRUE
      /\ c.active = s.active /\ c.closing = (s.active # <<>>)
  BY <1>1 DEF RetireAfterCurrentTest, SuitePlanWith
<1>3. s.index <= Len(s.routes) => OnRoute(d, c, s.routes[s.index])
  BY <1>2 DEF PathInv, OnPath, OnRoute
<1>4. OnPath(d, c)
  BY <1>2, <1>3 DEF PathInv, OnPath
<1>5. PathInv(d, c)
  BY <1>2, <1>4, SamePath
<1> QED  BY <1>2, <1>5

(* The suite that a beforeAll skips, and the routes before and after.      *)
SkipPath(d, s, c, t, A) ==
  /\ s.index \in Nat /\ s.index >= 1 /\ s.index <= Len(s.routes) /\ Len(s.routes) \in Nat
  /\ A \in Seq(Suites) /\ Len(A) \in Nat /\ Len(A) >= 1 /\ s.active = A /\ t \in Tests /\ t \in Nat
  /\ A[Len(A)] = s.pending.suite /\ s.pending.test = t /\ s.routes[s.index].test = t
  /\ \A i \in 1 .. Len(A) : i \in 1 .. Len(d.ancestors[t]) /\ d.ancestors[t][i] = A[i]
  /\ \A j \in s.index + 1 .. Len(s.routes) :
       /\ j \in 1 .. Len(s.routes) /\ j \in Nat /\ s.routes[j].ancestors = d.ancestors[s.routes[j].test]
       /\ s.routes[j].test \in Tests /\ s.routes[j].test \in Nat /\ t < s.routes[j].test
       /\ \A k \in s.index + 1 .. Len(s.routes) : j < k => s.routes[j].test < s.routes[k].test

(* The routes of the skipped suite come first of the later ones.           *)
LEMMA SkippedFirst ==
  ASSUME NEW d \in Decls, NEW s, NEW c, NEW t, NEW A, SkipPath(d, s, c, t, A),
         NEW j \in s.index + 1 .. Len(s.routes), NEW k \in s.index + 1 .. Len(s.routes),
         s.pending.suite \in Range(s.routes[j].ancestors), s.pending.suite \notin Range(s.routes[k].ancestors)
  PROVE  j < k
<1>1. SUFFICES ASSUME ~(j < k) PROVE FALSE
  OBVIOUS
<1>2. j \in Nat /\ k \in Nat /\ j # k
  BY DEF SkipPath
<1>3. k < j
  BY <1>1, <1>2
<1> DEFINE u == s.routes[j].test
           v == s.routes[k].test
           n == Len(A)
<1>4. /\ u \in Tests /\ v \in Tests /\ u \in Nat /\ v \in Nat /\ t \in Nat /\ t \in Tests /\ t < v /\ v < u
      /\ n \in 1 .. Len(d.ancestors[t]) /\ d.ancestors[t][n] = s.pending.suite
      /\ s.routes[j].ancestors = d.ancestors[u] /\ s.routes[k].ancestors = d.ancestors[v]
  <2>1. n \in 1 .. Len(A)
    BY DEF SkipPath
  <2> QED  BY <1>3, <2>1 DEF SkipPath
<1> HIDE DEF u, v, n
<1>5. Has(d.ancestors[u], d.ancestors[t][n])
  BY <1>4, RangeHas
<1>6. v \in t .. u
  BY <1>4
<1>7. Has(d.ancestors[v], d.ancestors[t][n])
  BY <1>4, <1>5, <1>6, SharedPath
<1> QED  BY <1>4, <1>7, RangeHas

(* The kept routes finish what they finished before.                       *)
LEMMA KeptRoutes ==
  ASSUME NEW d \in Decls, NEW s, NEW c, NEW t, NEW A, SkipPath(d, s, c, t, A), NEW from, SkipShape(s, c, from),
         \A j \in s.index .. Len(s.routes) : RouteInv(d, s, j), Len(c.routes) \in Nat,
         NEW k \in s.index + 1 .. Len(c.routes)
  PROVE  RouteInv(d, c, k)
<1> DEFINE here == s.index + 1 .. Len(c.routes)
           there == s.index + 1 .. Len(s.routes)
           r == c.routes[k]
           f == from[k]
<1>1. s.index \in Nat /\ s.index >= 1 /\ s.index <= Len(s.routes) /\ Len(s.routes) \in Nat
  BY DEF SkipPath
<1>2. /\ from \in [here -> there] /\ \A i \in here : c.routes[i] = s.routes[from[i]]
      /\ \A i, l \in here : i < l => from[i] < from[l]
      /\ \A j \in there : s.pending.suite \notin Range(s.routes[j].ancestors) <=> \E i \in here : from[i] = j
  BY DEF SkipShape
<1>3. f \in there /\ r = s.routes[f] /\ f \in Nat /\ f \in s.index .. Len(s.routes) /\ k \in Nat
  <2>1. f \in there /\ r = s.routes[f]
    BY <1>2
  <2> QED  BY <1>1, <2>1
<1>4. RouteInv(d, s, f)
  BY <1>3
<1> HIDE DEF f
<1>5. /\ r.finish \in 0 .. Len(r.ancestors)
      /\ \A i \in 1 .. Len(r.ancestors) :
           i <= Len(r.ancestors) - r.finish <=>
             \E m \in f + 1 .. Len(s.routes) : Has(d.ancestors[s.routes[m].test], r.ancestors[i])
  BY <1>3, <1>4 DEF RouteInv
<1>6. ASSUME NEW x
      PROVE  (\E m \in f + 1 .. Len(s.routes) : Has(d.ancestors[s.routes[m].test], x)) <=>
             \E l \in k + 1 .. Len(c.routes) : Has(d.ancestors[c.routes[l].test], x)
  <2>1. ASSUME NEW m \in f + 1 .. Len(s.routes), Has(d.ancestors[s.routes[m].test], x)
        PROVE  \E l \in k + 1 .. Len(c.routes) : Has(d.ancestors[c.routes[l].test], x)
    <3>1. m \in there /\ m \in Nat /\ f < m
      BY <1>1, <1>3
    <3>2. s.pending.suite \notin Range(s.routes[m].ancestors)
      <4>1. SUFFICES ASSUME s.pending.suite \in Range(s.routes[m].ancestors) PROVE FALSE
        OBVIOUS
      <4>2. s.pending.suite \notin Range(s.routes[f].ancestors)
        BY <1>2, <1>3 DEF f
      <4>3. m < f
        BY <1>3, <3>1, <4>1, <4>2, SkippedFirst
      <4> QED  BY <1>3, <3>1, <4>3
    <3>3. PICK l \in here : from[l] = m
      BY <1>2, <3>1, <3>2
    <3>4. l \in Nat
      BY <1>1
    <3>5. l # k /\ ~(l < k)
      <4>1. l # k
        BY <1>3, <3>1, <3>3 DEF f
      <4>2. ASSUME l < k PROVE FALSE
        <5>1. from[l] < from[k]
          BY <1>2, <4>2
        <5> QED  BY <1>3, <3>1, <3>3, <5>1 DEF f
      <4> QED  BY <4>1, <4>2
    <3>6. l \in k + 1 .. Len(c.routes)
      BY <1>1, <1>3, <3>4, <3>5
    <3> QED  BY <1>2, <2>1, <3>3, <3>6
  <2>2. ASSUME NEW l \in k + 1 .. Len(c.routes), Has(d.ancestors[c.routes[l].test], x)
        PROVE  \E m \in f + 1 .. Len(s.routes) : Has(d.ancestors[s.routes[m].test], x)
    <3>1. l \in here /\ k < l
      BY <1>1, <1>3
    <3>2. from[l] \in there /\ f < from[l] /\ c.routes[l] = s.routes[from[l]]
      BY <1>2, <3>1 DEF f
    <3>3. from[l] \in f + 1 .. Len(s.routes)
      <4>1. from[l] \in Nat /\ from[l] <= Len(s.routes)
        BY <1>1, <3>2
      <4> QED  BY <1>1, <1>3, <3>2, <4>1
    <3> QED  BY <2>2, <3>2, <3>3
  <2> QED  BY <2>1, <2>2
<1> HIDE DEF r
<1> QED  BY <1>5, <1>6 DEF RouteInv, r

(* The current test leaves what the first kept route does not share.       *)
LEMMA CurrentShares ==
  ASSUME NEW d \in Decls, NEW s, NEW c, NEW t, NEW A, SkipPath(d, s, c, t, A), NEW from, SkipShape(s, c, from),
         Len(c.routes) \in Nat
  PROVE  RouteInv(d, c, s.index)
<1> DEFINE r == c.routes[s.index]
           here == s.index + 1 .. Len(c.routes)
           there == s.index + 1 .. Len(s.routes)
           first == c.routes[s.index + 1]
           common == {n \in 0 .. Len(A) : IsPrefix(SubSeq(A, 1, n), first.ancestors)}
           shared == IF Len(c.routes) = s.index THEN 0 ELSE Max(common)
<1>1. /\ s.index \in Nat /\ Len(A) \in Nat /\ A \in Seq(Suites) /\ t \in Tests /\ t \in Nat
      /\ \A i \in 1 .. Len(A) : i \in 1 .. Len(d.ancestors[t]) /\ d.ancestors[t][i] = A[i]
  BY DEF SkipPath
<1>2. /\ r.ancestors = A /\ r.finish = Len(A) - shared /\ Len(c.routes) >= s.index
      /\ from \in [here -> there] /\ \A i \in here : c.routes[i] = s.routes[from[i]]
      /\ \A i, l \in here : i < l => from[i] < from[l]
  BY DEF SkipShape, SkipPath
<1>3. \A k \in here : /\ c.routes[k].test \in Tests /\ c.routes[k].test \in Nat /\ t < c.routes[k].test
                      /\ c.routes[k].ancestors = d.ancestors[c.routes[k].test] /\ k \in Nat
                      /\ \A l \in here : k < l => c.routes[k].test < c.routes[l].test
  <2>1. ASSUME NEW k \in here
        PROVE  /\ c.routes[k].test \in Tests /\ c.routes[k].test \in Nat /\ t < c.routes[k].test
               /\ c.routes[k].ancestors = d.ancestors[c.routes[k].test] /\ k \in Nat
    <3>1. from[k] \in there /\ c.routes[k] = s.routes[from[k]]
      BY <1>2
    <3> QED  BY SMTT(40), <1>1, <3>1 DEF SkipPath
  <2>2. ASSUME NEW k \in here, NEW l \in here, k < l PROVE c.routes[k].test < c.routes[l].test
    <3>1. from[k] \in there /\ c.routes[k] = s.routes[from[k]] /\ from[l] \in there /\ c.routes[l] = s.routes[from[l]]
          /\ from[k] < from[l]
      BY <1>2, <2>2
    <3> QED  BY <3>1 DEF SkipPath
  <2> QED  BY <2>1, <2>2
<1>4. CASE Len(c.routes) = s.index
  <2>1. shared = 0 /\ r.finish = Len(A)
    BY <1>1, <1>2, <1>4
  <2>2. here = {}
    BY <1>1, <1>4
  <2> HIDE DEF r, shared
  <2>3. ASSUME NEW i \in 1 .. Len(A) PROVE ~(i <= Len(A) - Len(A)) /\ ~\E k \in here : Has(d.ancestors[c.routes[k].test], A[i])
    BY <1>1, <2>2
  <2> QED  BY <1>1, <1>2, <2>1, <2>3, SMTT(40), ZenonT(60) DEF RouteInv, r
<1>5. CASE Len(c.routes) # s.index
  <2> DEFINE v == first.test
  <2>1. s.index + 1 \in here
    BY <1>1, <1>2, <1>5
  <2>2. v \in Tests /\ v \in Nat /\ t < v /\ first.ancestors = d.ancestors[v]
    BY <1>3, <2>1
  <2>3. d.ancestors[v] \in Seq(Suites) /\ Len(d.ancestors[v]) \in Nat
    BY <2>2, PathFacts
  <2> HIDE DEF first, v
  <2>4. ASSUME NEW n \in 0 .. Len(A)
        PROVE  n \in common <=> n <= Len(d.ancestors[v]) /\ \A i \in 1 .. n : A[i] = d.ancestors[v][i]
    <3> DEFINE b == SubSeq(A, 1, n)
    <3>1. b = [i \in 1 .. n |-> A[i]]
      BY <1>1
    <3>2. b \in Seq(Suites) /\ Len(b) = n /\ \A i \in 1 .. n : b[i] = A[i]
      BY <1>1, <3>1
    <3> HIDE DEF b
    <3>3. IsPrefix(b, d.ancestors[v]) <=> Within(b, d.ancestors[v])
      BY <2>3, <3>2, WithinPrefix
    <3>4. Within(b, d.ancestors[v]) <=> n <= Len(d.ancestors[v]) /\ \A i \in 1 .. n : A[i] = d.ancestors[v][i]
      BY <3>2 DEF Within
    <3> QED  BY <2>2, <3>3, <3>4 DEF b
  <2>5. common # {} /\ IsFiniteSet(common) /\ \A n \in common : n \in Nat /\ n \in 0 .. Len(A)
    <3>1. 0 \in common
      <4>1. 0 \in 0 .. Len(A) /\ 0 <= Len(d.ancestors[v]) /\ \A i \in 1 .. 0 : A[i] = d.ancestors[v][i]
        BY <1>1, <2>3
      <4> HIDE DEF common
      <4> QED  BY <2>4, <4>1
    <3>2. IsFiniteSet(0 .. Len(A)) /\ common \subseteq 0 .. Len(A)
      BY <1>1, FS_Interval
    <3>3. IsFiniteSet(common)
      BY <3>2, FS_Subset
    <3> HIDE DEF common
    <3> QED  BY <1>1, <3>1, <3>2, <3>3
  <2>6. shared = Max(common)
    BY <1>5
  <2> HIDE DEF common
  <2>7. Max(common) \in common /\ \A n \in common : n <= Max(common)
    BY <2>5, MaxIsMember
  <2> HIDE DEF shared
  <2>8. shared \in 0 .. Len(A) /\ shared \in Nat /\ r.finish \in 0 .. Len(A) /\ Len(A) - r.finish = shared
    <3>1. shared \in 0 .. Len(A) /\ shared \in Nat
      BY <2>5, <2>6, <2>7
    <3>2. r.finish = Len(A) - shared
      BY <1>2
    <3> HIDE DEF r
    <3> QED  BY <1>1, <3>1, <3>2
  <2>9. ASSUME NEW i \in 1 .. Len(A), i <= shared PROVE \E k \in here : Has(d.ancestors[c.routes[k].test], A[i])
    <3>1. shared <= Len(d.ancestors[v]) /\ \A j \in 1 .. shared : A[j] = d.ancestors[v][j]
      BY <2>4, <2>6, <2>7, <2>8
    <3>2. i \in 1 .. shared /\ i \in 1 .. Len(d.ancestors[v])
      BY <1>1, <2>3, <2>8, <2>9, <3>1
    <3>3. Has(d.ancestors[v], A[i])
      BY <3>1, <3>2 DEF Has
    <3> QED  BY <2>1, <3>3 DEF v, first
  <2>10. ASSUME NEW i \in 1 .. Len(A), NEW k \in here, Has(d.ancestors[c.routes[k].test], A[i]) PROVE i <= shared
    <3> DEFINE u == c.routes[k].test
    <3>1. /\ i \in 1 .. Len(d.ancestors[t]) /\ d.ancestors[t][i] = A[i] /\ u \in Tests /\ u \in Nat /\ i \in Nat /\ i <= Len(A)
      BY <1>1, <1>3
    <3>2. v \in t .. u
      <4>1. CASE k = s.index + 1
        BY <1>1, <2>2, <3>1, <4>1 DEF v, first
      <4>2. CASE k # s.index + 1
        <5>1. s.index + 1 < k
          BY <1>1, <1>3, <4>2
        <5>2. v < u
          BY <1>3, <2>1, <5>1 DEF v, first
        <5> QED  BY <1>1, <2>2, <3>1, <5>2, SMTT(40), ZenonT(60)
      <4> QED  BY <4>1, <4>2
    <3> HIDE DEF u
    <3>3. Has(d.ancestors[u], d.ancestors[t][i])
      BY <2>10, <3>1 DEF u
    <3>4. Has(d.ancestors[v], d.ancestors[t][i])
      BY <1>1, <3>1, <3>2, <3>3, SharedPath
    <3>5. i \in 1 .. Len(d.ancestors[v]) /\ \A j \in 1 .. i : d.ancestors[v][j] = d.ancestors[t][j]
      BY <1>1, <2>2, <3>1, <3>4, SharedPath
    <3>6. ASSUME NEW j \in 1 .. i PROVE A[j] = d.ancestors[v][j]
      <4>1. j \in 1 .. Len(A)
        BY <1>1, <3>1
      <4> QED  BY <1>1, <3>5, <4>1
    <3>7. i \in 0 .. Len(A) /\ i <= Len(d.ancestors[v])
      BY <1>1, <2>3, <3>1, <3>5
    <3>8. i \in common
      BY <2>4, <3>6, <3>7
    <3> QED  BY <2>6, <2>7, <3>8
  <2>11. r.ancestors = A
    BY <1>2
  <2> HIDE DEF r
  <2> QED  BY <2>8, <2>9, <2>10, <2>11 DEF RouteInv, r
<1> QED  BY <1>4, <1>5

(* What comes of a skipped beforeAll.                                      *)
SkipsTo(d, s, c, suite) ==
  /\ c.active = Append(s.active, suite) /\ c.index = s.index /\ c.skip = suite /\ c.pending = NoOp
  /\ ~c.closing /\ ~c.retire /\ s.index <= Len(s.routes) /\ c.index <= Len(c.routes)
  /\ ~s.closing /\ ~s.retire /\ s.skip = 0 /\ suite \in Suites
  /\ Has(d.ancestors[s.routes[s.index].test], suite)
  /\ c.routes[c.index].test = s.routes[s.index].test /\ c.routes[c.index].finish # 0
  /\ \A k \in c.index .. Len(c.routes) : \E j \in s.index .. Len(s.routes) : c.routes[k].test = s.routes[j].test
  /\ Later(c) \cup c.skipped = Later(s)

(* SkipBeforeAll leads past the skipped suite.                             *)
LEMMA PathSkip ==
  ASSUME NEW d \in Decls, NEW s, SuiteInv(s), PathInv(d, s), s.pending = NoOp, NEW o, o = NextOp(s),
         o.kind = "BeforeAll", NEW c, c = SkipBeforeAll(Admitted(s))
  PROVE  PathInv(d, c) /\ SkipsTo(d, s, c, o.suite)
<1> DEFINE r == s.routes[s.index]
           a == Admitted(s)
           b == Complete(a, TRUE)
           t == r.test
           A == a.active
<1>1. /\ Admits(s, a) /\ a.pending = o /\ a.active = Append(s.active, o.suite)
  <2>1. a = Admitted(s)
    OBVIOUS
  <2> HIDE DEF a, r, b, t, A
  <2>2. /\ Admits(s, a) /\ a.pending = o /\ a.exits = s.exits /\ a \in SuitePlanWith(a.pending)
        /\ a.active = IF o.kind = "BeforeAll" THEN Append(s.active, o.suite) ELSE s.active
    BY ONLY SuiteInv(s), o = NextOp(s), <2>1, AdmittedFields
  <2> QED  BY <2>2
<1>2. /\ PathInv(d, b) /\ b.active = Append(s.active, o.suite) /\ b.routes = s.routes /\ b.index = s.index
      /\ ~b.retire /\ ~b.closing /\ b.skip = 0
      /\ s.index <= Len(s.routes) /\ ~s.closing /\ ~s.retire /\ s.skip = 0
      /\ Has(d.ancestors[s.routes[s.index].test], o.suite) /\ o.suite \in Suites
  <2>1. b = Complete(Admitted(s), TRUE) /\ TRUE \in BOOLEAN
    OBVIOUS
  <2> HIDE DEF a, b, r, t, A
  <2>2. PathInv(d, b) /\ Enters(d, s, b, o.suite, TRUE)
    BY <2>1, PathEnter
  <2> QED  BY <2>2 DEF Enters
<1>3. c = SkipBeforeAll(a)
  OBVIOUS
<1> HIDE DEF a, b
<1>4. /\ a.routes = s.routes /\ a.index = s.index /\ a.skip = s.skip /\ a.retire = s.retire /\ a.closing = s.closing
      /\ SuiteInv(a)
  BY <1>1 DEF Admits, Goes
<1>5. /\ s.index \in 1 .. Len(s.routes) /\ s.index \in Nat /\ s.index >= 1 /\ Len(s.routes) \in Nat
      /\ s.active \in Seq(Suites) /\ Len(s.active) \in Nat
      /\ r.test \in Tests /\ OnRoute(d, s, r)
  <2>1. s.index >= 1
    BY SuiteFields
  <2> QED  BY <1>2, <2>1, OnCurrent
<1>6. o.test = t
  <2>1. Leads(s, o)
    BY NextOpLeads
  <2> QED  BY <1>2, <2>1 DEF Leads
<1>7. PICK from : SkipShape(a, c, from)
  BY <1>1, <1>2, <1>3, <1>4, <1>5, <1>6, SkipRoutes
<1>8. PICK place : Placed(a, c, place)
  BY <1>1, <1>4, <1>5, <1>6, <1>7, SkipPlaces, SMTT(40), ZenonT(60)
<1>9. OnRoute(d, b, r) /\ r.ancestors = d.ancestors[t]
  BY <1>2, <1>5 DEF PathInv, OnPath, OnRoute
<1>10. A \in Seq(Suites) /\ Len(A) = Len(s.active) + 1 /\ A[Len(A)] = o.suite
  BY <1>1, <1>2, <1>5
<1>11. ASSUME NEW i \in 1 .. Len(A) PROVE i \in 1 .. Len(d.ancestors[t]) /\ d.ancestors[t][i] = A[i]
  <2>1. Len(A) <= Len(d.ancestors[t]) /\ \A j \in 1 .. Len(A) : A[j] = d.ancestors[t][j]
    BY <1>1, <1>2, <1>9 DEF OnRoute, Within
  <2>2. Len(d.ancestors[t]) \in Nat /\ Len(A) \in Nat
    BY <1>5, <1>10, PathFacts, SMTT(40), ZenonT(60)
  <2> HIDE DEF A, t
  <2> QED  BY <2>1, <2>2, SMTT(40), ZenonT(60)
<1> HIDE DEF A, t, r
<1>12. ASSUME NEW j \in s.index + 1 .. Len(s.routes)
       PROVE  /\ j \in 1 .. Len(s.routes) /\ j \in Nat /\ s.routes[j].ancestors = d.ancestors[s.routes[j].test]
              /\ s.routes[j].test \in Tests /\ s.routes[j].test \in Nat /\ t < s.routes[j].test
              /\ \A k \in s.index + 1 .. Len(s.routes) : j < k => s.routes[j].test < s.routes[k].test
  <2>1. j \in 1 .. Len(s.routes) /\ j \in Nat /\ s.index < j
    BY <1>5
  <2>2. s.routes[j].test \in Tests /\ s.routes[j].test \in Nat
    BY <2>1, SuiteFields, TestNumbers
  <2>3. \A k \in s.index + 1 .. Len(s.routes) : k \in 1 .. Len(s.routes)
    BY <1>5
  <2>4. t < s.routes[j].test /\ \A k \in s.index + 1 .. Len(s.routes) : j < k => s.routes[j].test < s.routes[k].test
    BY <1>5, <2>1, <2>3 DEF PathInv, RoutesInv, t, r
  <2>5. s.routes[j].ancestors = d.ancestors[s.routes[j].test]
    BY SMTT(40), ZenonT(60) DEF PathInv, RoutesInv
  <2> QED  BY <2>1, <2>2, <2>4, <2>5
<1>13. SkipPath(d, a, c, t, A)
  <2>1. Len(A) \in Nat /\ Len(A) >= 1 /\ t \in Tests /\ t \in Nat
    BY <1>5, <1>10, TestNumbers, SMTT(40), ZenonT(60) DEF t
  <2> QED  BY <1>1, <1>2, <1>4, <1>5, <1>6, <1>10, <1>11, <1>12, <2>1, SMTT(40), ZenonT(60) DEF SkipPath, A, t, r
<1>14. /\ c \in SuitePlanWith(NoOp) /\ c.index = s.index /\ c.skip = o.suite /\ c.active = A
       /\ ~c.closing /\ ~c.retire /\ Len(c.routes) >= s.index
       /\ c.routes[s.index].test = t /\ c.routes[s.index].ancestors = A
  BY <1>1, <1>2, <1>4, <1>6, <1>7 DEF SkipShape, A
<1>15. c.pending = NoOp /\ Len(c.routes) \in Nat
  <2>1. c.routes \in Seq(RouteType) /\ c.pending = NoOp
    BY <1>14 DEF SuitePlanWith
  <2> QED  BY <2>1
<1>16. \A j \in s.index .. Len(s.routes) : RouteInv(d, a, j)
  BY <1>4 DEF PathInv, RoutesInv, RouteInv
<1>17. ASSUME NEW k \in s.index + 1 .. Len(c.routes)
       PROVE  RouteInv(d, c, k) /\ c.routes[k].ancestors = d.ancestors[c.routes[k].test]
  <2>1. RouteInv(d, c, k)
    BY <1>4, <1>7, <1>13, <1>15, <1>16, KeptRoutes
  <2>2. from[k] \in s.index + 1 .. Len(s.routes) /\ c.routes[k] = s.routes[from[k]]
    BY <1>4, <1>7 DEF SkipShape
  <2> QED  BY <1>12, <2>1, <2>2
<1>18. RouteInv(d, c, s.index)
  BY <1>4, <1>7, <1>13, <1>15, CurrentShares
<1>19. \A k \in s.index .. Len(c.routes) : RouteInv(d, c, k)
  <2>1. \A k \in s.index .. Len(c.routes) : k = s.index \/ k \in s.index + 1 .. Len(c.routes)
    BY <1>5, <1>15
  <2> QED  BY <1>17, <1>18, <2>1
<1>20. ASSUME NEW k \in 1 .. Len(c.routes), NEW l \in 1 .. Len(c.routes), k < l
       PROVE  c.routes[k].test < c.routes[l].test
  <2>1. /\ place[k] \in 1 .. Len(s.routes) /\ c.routes[k].test = s.routes[place[k]].test
        /\ place[l] \in 1 .. Len(s.routes) /\ c.routes[l].test = s.routes[place[l]].test /\ place[k] < place[l]
    BY <1>4, <1>8, <1>20 DEF Placed
  <2> QED  BY <2>1 DEF PathInv, RoutesInv
<1>21. RoutesInv(d, c)
  BY <1>14, <1>17, <1>19, <1>20 DEF RoutesInv
<1>22. OnRoute(d, c, c.routes[c.index])
  <2>1. Within(A, A)
    <3>1. Len(A) \in Nat
      BY <1>10
    <3> QED  BY <3>1 DEF Within
  <2>2. Within(A, d.ancestors[t])
    BY <1>1, <1>2, <1>9 DEF OnRoute, A
  <2>3. o.suite # 0
    BY <1>2, RetryPlanAssumption
  <2> QED  BY <1>14, <1>15, <2>1, <2>2, <2>3 DEF OnRoute
<1>23. c.index <= Len(c.routes) /\ ~(c.index > Len(c.routes))
  BY <1>5, <1>14, <1>15
<1>24. OnPath(d, c)
  BY <1>14, <1>15, <1>22, <1>23 DEF OnPath
<1>25. PathInv(d, c)
  BY <1>21, <1>24 DEF PathInv
<1>26. ASSUME NEW k \in c.index .. Len(c.routes) PROVE \E j \in s.index .. Len(s.routes) : c.routes[k].test = s.routes[j].test
  <2>1. k \in 1 .. Len(c.routes) /\ k >= s.index
    BY <1>5, <1>14, <1>15
  <2>2. /\ place[k] \in 1 .. Len(s.routes) /\ place[k] \in Nat /\ c.routes[k].test = s.routes[place[k]].test /\ k \in Nat
        /\ (k <= s.index => place[k] = k) /\ (k > s.index => place[k] > s.index)
    BY <1>4, <1>8, <2>1 DEF Placed
  <2>3. place[k] \in s.index .. Len(s.routes)
    BY <1>5, <2>1, <2>2
  <2> QED  BY <2>2, <2>3
<1>27. Later(c) \cup c.skipped = Later(s)
  <2> DEFINE here == s.index + 1 .. Len(c.routes)
             there == s.index + 1 .. Len(s.routes)
             G == {i \in there : o.suite \in Range(s.routes[i].ancestors)}
  <2>1. /\ \A k \in here : from[k] \in there /\ c.routes[k] = s.routes[from[k]]
        /\ \A j \in there : o.suite \notin Range(s.routes[j].ancestors) <=> \E k \in here : from[k] = j
        /\ c.skipped = {s.routes[j].test : j \in G}
    BY <1>1, <1>4, <1>7 DEF SkipShape
  <2>2. Later(c) = {c.routes[k].test : k \in here} /\ Later(s) = {s.routes[j].test : j \in there}
    BY <1>14 DEF Later
  <2>3. \A j \in there : j \in G <=> o.suite \in Range(s.routes[j].ancestors)
    OBVIOUS
  <2>4. G \subseteq there
    OBVIOUS
  <2> HIDE DEF here, there, G
  <2>5. ASSUME NEW j \in there PROVE s.routes[j].test \in Later(c) \cup c.skipped
    <3>1. CASE j \in G
      BY <2>1, <3>1
    <3>2. CASE j \notin G
      <4>1. PICK k \in here : from[k] = j
        BY <2>1, <2>3, <3>2
      <4> QED  BY <2>1, <2>2, <4>1
    <3> QED  BY <3>1, <3>2
  <2>6. Later(s) \subseteq Later(c) \cup c.skipped
    BY <2>2, <2>5
  <2>7. Later(c) \subseteq Later(s) /\ c.skipped \subseteq Later(s)
    BY <2>1, <2>2, <2>4
  <2> QED  BY <2>6, <2>7, SMTT(40), ZenonT(60)
<1>28. c.routes[s.index].finish # 0
  <2>1. SUFFICES ASSUME c.routes[s.index].finish = 0 PROVE FALSE
    OBVIOUS
  <2>2. Len(A) \in Nat /\ Len(A) \in 1 .. Len(A) /\ Len(A) <= Len(A) - 0
    BY <1>5, <1>10
  <2>3. PICK k \in s.index + 1 .. Len(c.routes) : Has(d.ancestors[c.routes[k].test], A[Len(A)])
    BY <1>14, <1>18, <2>1, <2>2 DEF RouteInv
  <2>4. from[k] \in s.index + 1 .. Len(s.routes) /\ c.routes[k] = s.routes[from[k]]
        /\ o.suite \notin Range(s.routes[from[k]].ancestors)
    <3>1. /\ from[k] \in s.index + 1 .. Len(s.routes) /\ c.routes[k] = s.routes[from[k]]
          /\ \A j \in s.index + 1 .. Len(s.routes) :
               o.suite \notin Range(s.routes[j].ancestors) <=> \E l \in s.index + 1 .. Len(c.routes) : from[l] = j
      BY <1>1, <1>4, <1>7 DEF SkipShape
    <3> QED  BY <3>1, SMTT(40), ZenonT(60)
  <2>5. c.routes[k].test \in Tests /\ o.suite \notin Range(d.ancestors[c.routes[k].test])
    BY <1>12, <2>4
  <2> QED  BY <1>10, <2>3, <2>5, RangeHas
<1>29. SkipsTo(d, s, c, o.suite)
  BY <1>1, <1>2, <1>14, <1>15, <1>23, <1>26, <1>27, <1>28 DEF SkipsTo, A, t, r
<1> QED  BY <1>25, <1>29

-----------------------------------------------------------------------------
(* What the worker has entered and left.                                   *)

(* A suite is entered, or its beforeAll fails.                             *)
LEMMA OpenEnter ==
  ASSUME NEW d \in Decls, NEW s, SuiteInv(s), NEW c, NEW suite, NEW ok \in BOOLEAN, Enters(d, s, c, suite, ok),
         NEW entered, NEW gone, Opened(d, s, entered, gone)
  PROVE  Opened(d, c, IF ok THEN Append(entered, suite) ELSE entered, gone)
<1>1. /\ c.active = Append(s.active, suite) /\ c.routes = s.routes /\ c.index = s.index /\ (c.retire <=> ~ok)
      /\ (c.closing <=> ~ok) /\ ~s.closing /\ ~s.retire /\ s.index <= Len(s.routes)
      /\ Has(d.ancestors[s.routes[s.index].test], suite) /\ suite \in Suites
  BY DEF Enters
<1>2. /\ entered = s.active /\ (s.routes = <<>> => gone = {})
      /\ \A x \in gone : /\ ~Has(s.active, x)
                         /\ \A j \in s.index .. Len(s.routes) : ~Has(d.ancestors[s.routes[j].test], x)
  BY <1>1 DEF Opened
<1>3. s.active \in Seq(Suites) /\ Len(s.active) \in Nat /\ s.index \in Nat /\ Len(s.routes) \in Nat
  BY SuiteFields
<1>4. /\ Len(c.active) = Len(s.active) + 1 /\ c.active # <<>>
      /\ \A i \in 1 .. Len(c.active) : c.active[i] = IF i <= Len(s.active) THEN s.active[i] ELSE suite
  BY <1>1, <1>3, SMTT(40), ZenonT(60)
<1>5. CASE ok
  <2>1. ASSUME NEW x \in gone PROVE ~Has(c.active, x)
    <3>1. x # suite
      <4>1. s.index \in s.index .. Len(s.routes)
        BY <1>1, <1>3
      <4> QED  BY <1>1, <1>2, <4>1
    <3>2. SUFFICES ASSUME NEW i \in 1 .. Len(c.active), c.active[i] = x PROVE FALSE
      BY DEF Has
    <3>3. i <= Len(s.active) /\ s.active[i] = x
      BY <1>4, <3>1, <3>2
    <3>4. i \in 1 .. Len(s.active)
      BY <1>3, <1>4, <3>3, SMTT(40), ZenonT(60)
    <3> QED  BY <1>2, <3>3, <3>4 DEF Has
  <2> QED  BY <1>1, <1>2, <1>5, <2>1 DEF Opened
<1>6. CASE ~ok
  <2>1. Front(c.active) = s.active
    <3>1. c.active \in Seq(Suites) /\ c.active # <<>>
      BY <1>1, <1>3, <1>4
    <3>2. /\ Front(c.active) \in Seq(Suites) /\ Len(Front(c.active)) = Len(c.active) - 1
          /\ \A i \in 1 .. Len(c.active) - 1 : Front(c.active)[i] = c.active[i]
      BY <3>1, FrontFacts
    <3>3. Len(Front(c.active)) = Len(s.active)
      BY <1>3, <1>4, <3>2
    <3>4. ASSUME NEW i \in 1 .. Len(s.active) PROVE Front(c.active)[i] = s.active[i]
      <4>1. i \in 1 .. Len(c.active) - 1 /\ i \in 1 .. Len(c.active) /\ i <= Len(s.active)
        BY <1>3, <1>4, SMTT(40), ZenonT(60)
      <4> QED  BY <1>4, <3>2, <4>1
    <3> QED  BY <1>3, <3>2, <3>3, <3>4, SameSuites
  <2> QED  BY <1>1, <1>2, <1>4, <1>6, <2>1 DEF Opened
<1> QED  BY <1>5, <1>6

(* A beforeAll skips its suite.                                            *)
LEMMA OpenSkip ==
  ASSUME NEW d \in Decls, NEW s, SuiteInv(s), NEW c, NEW suite, SkipsTo(d, s, c, suite), SuiteInv(c),
         NEW entered, NEW gone, Opened(d, s, entered, gone)
  PROVE  Opened(d, c, Append(entered, suite), gone)
<1>1. /\ c.active = Append(s.active, suite) /\ c.index = s.index /\ ~c.retire /\ c.index <= Len(c.routes)
      /\ ~c.closing /\ ~s.closing /\ ~s.retire /\ s.index <= Len(s.routes)
      /\ Has(d.ancestors[s.routes[s.index].test], suite) /\ suite \in Suites
      /\ \A k \in c.index .. Len(c.routes) : \E j \in s.index .. Len(s.routes) : c.routes[k].test = s.routes[j].test
  BY DEF SkipsTo
<1>2. /\ entered = s.active
      /\ \A x \in gone : /\ ~Has(s.active, x)
                         /\ \A j \in s.index .. Len(s.routes) : ~Has(d.ancestors[s.routes[j].test], x)
  BY <1>1 DEF Opened
<1>3. s.active \in Seq(Suites) /\ Len(s.active) \in Nat /\ s.index \in Nat /\ Len(s.routes) \in Nat
  BY SuiteFields
<1>4. /\ Len(c.active) = Len(s.active) + 1
      /\ \A i \in 1 .. Len(c.active) : c.active[i] = IF i <= Len(s.active) THEN s.active[i] ELSE suite
  BY <1>1, <1>3
<1>5. ASSUME NEW x \in gone PROVE ~Has(c.active, x)
  <2>1. x # suite
    <3>1. s.index \in s.index .. Len(s.routes)
      BY <1>1, <1>3
    <3> QED  BY <1>1, <1>2, <3>1
  <2>2. SUFFICES ASSUME NEW i \in 1 .. Len(c.active), c.active[i] = x PROVE FALSE
    BY DEF Has
  <2>3. i <= Len(s.active) /\ s.active[i] = x
    BY <1>4, <2>1, <2>2
  <2>4. i \in 1 .. Len(s.active)
    BY <1>3, <1>4, <2>3
  <2> QED  BY <1>2, <2>3, <2>4 DEF Has
<1>6. ASSUME NEW x \in gone, NEW k \in c.index .. Len(c.routes) PROVE ~Has(d.ancestors[c.routes[k].test], x)
  BY <1>1, <1>2
<1>7. c.routes # <<>>
  <2>1. c.index \in Nat /\ c.index >= 1 /\ Len(c.routes) \in Nat
    BY SuiteFields
  <2>2. Len(c.routes) # 0
    BY <1>1, <2>1
  <2> QED  BY <2>2
<1> QED  BY <1>1, <1>2, <1>5, <1>6, <1>7 DEF Opened

(* A test ends; or the plan is to retire.                                  *)
LEMMA OpenGoes ==
  ASSUME NEW d \in Decls, NEW s, SuiteInv(s), NEW c, c.active = s.active, c.routes = s.routes,
         s.retire => c.retire,
         c.retire \/ (~s.closing /\ (c.index = s.index \/ c.index = s.index + 1)),
         NEW entered, NEW gone, Opened(d, s, entered, gone)
  PROVE  Opened(d, c, entered, gone)
<1>1. CASE c.retire
  BY <1>1 DEF Opened
<1>2. CASE ~c.retire
  <2>1. ~s.retire /\ ~s.closing
    BY <1>2
  <2>2. s.index \in Nat /\ Len(s.routes) \in Nat
    BY SuiteFields
  <2>3. \A j \in c.index .. Len(c.routes) : j \in s.index .. Len(s.routes)
    BY <1>2, <2>2
  <2> QED  BY <1>2, <2>1, <2>3 DEF Opened
<1> QED  BY <1>1, <1>2

(* A suite is left.                                                        *)
LEMMA OpenLeave ==
  ASSUME NEW d \in Decls, NEW s, SuiteInv(s), PathInv(d, s), s.closing, s.active # <<>>, s.index <= Len(s.routes),
         NEW c, c.active = Front(s.active), c.routes = s.routes, s.retire => c.retire,
         c.index = IF c.closing \/ c.retire THEN s.index ELSE s.index + 1,
         NEW entered, NEW gone, Opened(d, s, entered, gone), NEW suite, suite = Last(s.active)
  PROVE  Opened(d, c, IF entered # <<>> /\ Last(entered) = suite THEN Front(entered) ELSE entered, gone \cup {suite})
<1> DEFINE r == s.routes[s.index]
           n == Len(s.active)
           t == r.test
<1>1. /\ s.index \in Nat /\ Len(s.routes) \in Nat /\ s.active \in Seq(Suites) /\ n \in Nat /\ t \in Tests
      /\ r.ancestors \in Seq(Suites) /\ Len(r.ancestors) \in Nat /\ r.finish \in Nat /\ OnRoute(d, s, r)
      /\ RouteInv(d, s, s.index) /\ s.exits \in Int /\ s.index \in 1 .. Len(s.routes)
  BY OnCurrent
<1>2. /\ c.active \in Seq(Suites) /\ Len(c.active) = n - 1 /\ n >= 1
      /\ \A i \in 1 .. n - 1 : c.active[i] = s.active[i]
      /\ suite = s.active[n]
  BY <1>1, FrontFacts, SMTT(40), ZenonT(60)
<1>3. /\ n <= Len(r.ancestors) /\ n <= Len(d.ancestors[t]) /\ \A i \in 1 .. n : s.active[i] = r.ancestors[i]
      /\ \A i \in 1 .. n : s.active[i] = d.ancestors[t][i] /\ i \in 1 .. Len(d.ancestors[t])
  <2>1. /\ n <= Len(r.ancestors) /\ Len(r.ancestors) <= Len(d.ancestors[t])
        /\ \A i \in 1 .. n : s.active[i] = r.ancestors[i]
        /\ \A i \in 1 .. Len(r.ancestors) : r.ancestors[i] = d.ancestors[t][i]
    BY <1>1 DEF OnRoute, Within
  <2>2. Len(d.ancestors[t]) \in Nat
    BY <1>1, PathFacts
  <2> HIDE DEF n, t, r
  <2>3. \A i \in 1 .. n : i \in 1 .. Len(r.ancestors) /\ i \in 1 .. Len(d.ancestors[t])
    BY <1>1, <2>1, <2>2, SMTT(40), ZenonT(60)
  <2> QED  BY <1>1, <2>1, <2>2, <2>3, SMTT(40), ZenonT(60)
<1>4. ASSUME NEW i \in 1 .. n, NEW k \in 1 .. n, s.active[i] = s.active[k] PROVE i = k
  <2>1. Tree(d)
    BY NestedRunAssumption
  <2>2. i \in DOMAIN d.ancestors[t] /\ k \in DOMAIN d.ancestors[t] /\ d.ancestors[t][i] = d.ancestors[t][k]
    BY <1>1, <1>3, <1>4, PathFacts
  <2> HIDE DEF t
  <2> QED  BY <1>1, <2>1, <2>2, SMTT(40), ZenonT(60) DEF Tree, t
<1>5. (IF entered # <<>> /\ Last(entered) = suite THEN Front(entered) ELSE entered) = c.active
  <2>1. CASE entered = s.active
    BY <2>1
  <2>2. CASE entered = c.active
    <3>1. CASE c.active = <<>>
      BY <2>2, <3>1
    <3>2. CASE c.active # <<>>
      <4>1. Len(c.active) >= 1
        BY <1>2, <3>2
      <4>2. n - 1 \in 1 .. n - 1 /\ n - 1 \in 1 .. n /\ n \in 1 .. n /\ n - 1 # n
        BY <1>1, <1>2, <4>1
      <4>3. Last(c.active) = s.active[n - 1]
        <5>1. c.active \in Seq(Suites) /\ Len(c.active) = n - 1
          BY <1>2
        <5> HIDE DEF n
        <5>2. Last(c.active) = c.active[n - 1]
          BY <3>2, <5>1, FrontFacts
        <5> QED  BY <1>2, <4>2, <5>2
      <4>4. Last(c.active) # suite
        BY <1>2, <1>4, <4>2, <4>3
      <4> QED  BY <2>2, <4>4
    <3> QED  BY <3>1, <3>2
  <2> QED  BY <2>1, <2>2 DEF Opened
<1>6. s.routes # <<>>
  BY <1>1
<1>7. CASE c.retire
  BY <1>5, <1>6, <1>7 DEF Opened
<1>8. CASE ~c.retire
  <2>1. ~s.retire
    BY <1>8
  <2>2. s.exits \in 1 .. n /\ n - s.exits = Len(r.ancestors) - r.finish
    BY <2>1, SMTT(40), ZenonT(60) DEF PathInv, OnPath
  <2>3. ~(n <= Len(r.ancestors) - r.finish) /\ n \in 1 .. Len(r.ancestors) /\ n \in 1 .. n
    BY SMTT(40), <1>1, <1>2, <1>3, <2>2
  <2>4. \A k \in s.index + 1 .. Len(s.routes) : ~Has(d.ancestors[s.routes[k].test], suite)
    <3>1. r.ancestors[n] = suite
      BY <1>2, <1>3, <2>3
    <3> QED  BY <1>1, <2>3, <3>1, SMTT(40), ZenonT(60) DEF RouteInv
  <2>5. \A x \in gone : /\ ~Has(s.active, x)
                        /\ \A j \in s.index + 1 .. Len(s.routes) : ~Has(d.ancestors[s.routes[j].test], x)
    <3>1. \A j \in s.index + 1 .. Len(s.routes) : j \in s.index .. Len(s.routes) /\ j # s.index
      BY <1>1
    <3> QED  BY <2>1, <3>1 DEF Opened
  <2>6. ASSUME NEW x \in gone \cup {suite} PROVE ~Has(c.active, x)
    <3>1. SUFFICES ASSUME NEW i \in 1 .. Len(c.active), c.active[i] = x PROVE FALSE
      BY DEF Has
    <3>2. i \in 1 .. n - 1 /\ i \in 1 .. n /\ i # n
      BY <1>1, <1>2
    <3>3. s.active[i] = x
      BY <1>2, <3>1, <3>2
    <3>4. CASE x \in gone
      BY <2>5, <3>2, <3>3, <3>4 DEF Has
    <3>5. CASE x = suite
      BY <1>2, <1>4, <2>3, <3>2, <3>3, <3>5
    <3> QED  BY <3>4, <3>5
  <2>7. ASSUME NEW x \in gone \cup {suite}, NEW j \in c.index .. Len(c.routes)
        PROVE  (c.closing /\ j = c.index) \/ ~Has(d.ancestors[c.routes[j].test], x)
    <3>1. SUFFICES ASSUME ~(c.closing /\ j = c.index) PROVE ~Has(d.ancestors[s.routes[j].test], x)
      OBVIOUS
    <3>2. j \in s.index + 1 .. Len(s.routes)
      <4>0. j \in c.index .. Len(s.routes)
        OBVIOUS
      <4>1. CASE c.closing
        <5>1. c.index = s.index /\ j # s.index
          BY <3>1, <4>1
        <5> QED  BY <1>1, <4>0, <5>1
      <4>2. CASE ~c.closing
        <5>1. c.index = s.index + 1
          BY <1>8, <4>2
        <5> QED  BY <4>0, <5>1
      <4> QED  BY <4>1, <4>2
    <3> QED  BY <2>4, <2>5, <3>2
  <2> QED  BY <1>5, <1>6, <2>6, <2>7 DEF Opened
<1> QED  BY <1>7, <1>8

-----------------------------------------------------------------------------
(* The runner keeps them in step.                                          *)

(* A step that leaves the suites alone.                                    *)
LEMMA NestStays ==
  ASSUME NestInv, UNCHANGED <<decl, suites>>,
         WithWorker' => WithWorker /\ open' = open /\ left' = left,
         at' = "loop" /\ host' = "none" => at = "loop" /\ host = "none",
         at' \in {"run", "body"} /\ run'.before => operation'.test = attempt'.test,
         at' \in {"run", "decide"} => suites.pending # NoOp \/ suites.skip = 0,
         at' = "retire" => host' # "none"
  PROVE  NestInv'
<1>1. PathInv(decl, suites)' /\ NoSuites' = NoSuites
  BY DEF NestInv, NoSuites
<1>2. WithWorker' => Opened(decl, suites, open, left)'
  BY DEF NestInv
<1> QED  BY <1>1, <1>2 DEF NestInv

(* The coroutine throws.                                                   *)
LEMMA NestThrows ==
  ASSUME NestInv, NEW why, Throw(why), UNCHANGED suites
  PROVE  NestInv'
<1>1. at' = "throw" /\ UNCHANGED <<decl, suites>>
  BY DEF Throw
<1>2. ~WithWorker' /\ at' \notin {"loop", "run", "body", "decide"}
  BY <1>1 DEF WithWorker, Working
<1> QED  BY <1>1, <1>2, NestStays

(* A beforeAll.                                                            *)
LEMMA NestEnter ==
  ASSUME IInv, NestInv, at = "enter", NextOp(suites).kind = "BeforeAll",
         NEW ok \in BOOLEAN, NEW skip \in BOOLEAN, NEW r, NEW h, EnterSuite(ok, skip, r, h), skip => ok,
         SuiteInv(suites'), ~ok => ~run'.before
  PROVE  NestInv'
<1> DEFINE o == NextOp(suites)
<1>1. SuiteInv(suites) /\ decl \in Decls
  BY DEF IInv, TypeInv
<1>2. suites.pending = NoOp /\ o.kind = "BeforeAll" /\ o = NextOp(suites)
  <2>1. Offered(suites, o)
    <3>1. o = NextOp(suites)
      OBVIOUS
    <3> HIDE DEF o
    <3> QED  BY <1>1, <3>1, NextOpFacts
  <2> QED  BY <2>1 DEF Offered
<1>3. /\ suites' = (IF skip THEN SkipBeforeAll(Admitted(suites)) ELSE Complete(Admitted(suites), ok))
      /\ at' = (IF ok THEN "enter" ELSE "run") /\ open' = (IF ok THEN Append(open, o.suite) ELSE open)
      /\ left' = left /\ decl' = decl
  BY DEF EnterSuite
<1>4. PathInv(decl, suites) /\ Opened(decl, suites, open, left)
  BY DEF NestInv, WithWorker, Working
<1> HIDE DEF o
<1>5. PathInv(decl, suites') /\ Opened(decl, suites', open', left') /\ (~ok => suites'.skip = 0)
  <2>1. CASE skip
    <3>1. PathInv(decl, suites') /\ SkipsTo(decl, suites, suites', o.suite)
      <4>1. suites' = SkipBeforeAll(Admitted(suites))
        BY <1>3, <2>1
      <4> QED  BY ONLY <1>1, <1>2, <1>4, <4>1, PathSkip
    <3>2. Opened(decl, suites', Append(open, o.suite), left)
      BY <1>1, <1>4, <3>1, OpenSkip
    <3> QED  BY <1>3, <2>1, <3>1, <3>2
  <2>2. CASE ~skip
    <3>1. PathInv(decl, suites') /\ Enters(decl, suites, suites', o.suite, ok)
      <4>1. suites' = Complete(Admitted(suites), ok) /\ ok \in BOOLEAN
        BY <1>3, <2>2
      <4> QED  BY ONLY <1>1, <1>2, <1>4, <4>1, PathEnter
    <3>2. Opened(decl, suites', IF ok THEN Append(open, o.suite) ELSE open, left)
      BY <1>1, <1>4, <3>1, OpenEnter
    <3>3. suites'.skip = 0
      BY <3>1 DEF Enters
    <3> QED  BY <1>3, <3>1, <3>2, <3>3
  <2> QED  BY <2>1, <2>2
<1>6. at' = "run" => ~ok /\ ~run'.before
  BY <1>3
<1>7. at' \notin {"loop", "body", "decide"}
  BY <1>3
<1> QED  BY <1>3, <1>5, <1>6, <1>7 DEF NestInv

(* BeforeAll.                                                              *)
LEMMA NestBeforeAll ==
  ASSUME IInv, NestInv, BeforeAll
  PROVE  NestInv'
<1>0. IInv'
  BY BeforeAllKeeps
<1>1. at = "enter" /\ NextOp(suites).kind = "BeforeAll" /\ SuiteInv(suites')
  BY <1>0 DEF BeforeAll, IInv
<1>2. ASSUME NEW r, NEW h, EnterSuite(FALSE, FALSE, r, h), r \in RunType PROVE NestInv'
  <2>1. ~run'.before
    <3>1. run' = [r EXCEPT !.before = FALSE, !.infrastructure = TRUE, !.suite = NextOp(suites).suite]
      BY <1>2 DEF EnterSuite
    <3> QED  BY <1>2, <3>1 DEF RunType
  <2> QED  BY <1>1, <1>2, <2>1, NestEnter
<1>3. ASSUME NEW r, NEW h, NEW skip \in BOOLEAN, EnterSuite(TRUE, skip, r, h) PROVE NestInv'
  BY <1>1, <1>3, NestEnter
<1>4. run \in RunType
  BY DEF IInv, TypeInv
<1>5. ASSUME NEW e \in Endings, EnterSuite(e.outcome = "passed", FALSE, Noted(run, e), e.host) PROVE NestInv'
  <2> DEFINE n == Noted(run, e)
  <2>1. n \in RunType
    <3>1. n = Noted(run, e)
      OBVIOUS
    <3> HIDE DEF n
    <3> QED  BY <1>4, <3>1, NotedFacts
  <2>2. EnterSuite(e.outcome = "passed", FALSE, n, e.host)
    BY <1>5
  <2> HIDE DEF n
  <2>3. CASE e.outcome = "passed"
    <3>1. EnterSuite(TRUE, FALSE, n, e.host)
      <4>1. (e.outcome = "passed") = TRUE
        BY <2>3
      <4> QED  BY <2>2, <4>1
    <3> QED  BY <1>3, <3>1
  <2>4. CASE e.outcome # "passed"
    <3>1. EnterSuite(FALSE, FALSE, n, e.host)
      <4>1. (e.outcome = "passed") = FALSE
        BY <2>4
      <4> QED  BY <2>2, <4>1
    <3> QED  BY <1>2, <2>1, <3>1
  <2> QED  BY <2>3, <2>4
<1>6. CASE UNCHANGED planVars /\ Throw("disagree")
  <2>1. suites' = suites
    BY <1>6 DEF planVars
  <2> QED  BY <1>6, <2>1, NestThrows
<1> QED  BY <1>2, <1>3, <1>4, <1>5, <1>6 DEF BeforeAll

(* Arrive.                                                                 *)
LEMMA NestArrive ==
  ASSUME IInv, NestInv, Arrive
  PROVE  NestInv'
<1> DEFINE o == NextOp(suites)
<1>0. at = "enter" /\ SuiteInv(suites) /\ decl \in Decls /\ PathInv(decl, suites) /\ Opened(decl, suites, open, left)
  BY DEF Arrive, IInv, TypeInv, NestInv, WithWorker, Working
<1>1. CASE o.kind \in {"Test", "SkippedTest"} /\ o.test = attempt.test
  <2>1. /\ suites' = Admitted(suites) /\ operation' = o /\ at' = "run" /\ o = NextOp(suites)
        /\ UNCHANGED <<decl, attempt, run, open, left>>
    BY <1>1 DEF Arrive
  <2> HIDE DEF o
  <2>2. Offered(suites, o) /\ Admits(suites, suites')
    BY <1>0, <2>1, NextOpFacts, AdmittedKeeps
  <2>3. suites.pending = NoOp /\ suites'.pending = o /\ suites'.index = suites.index /\ suites'.routes = suites.routes
        /\ suites'.retire = suites.retire /\ suites'.closing = suites.closing /\ ~suites.retire
    BY <1>1, <2>1, <2>2 DEF Offered, Admits
  <2>4. PathInv(decl, suites') /\ suites'.active = suites.active
    BY ONLY <1>0, <1>1, <2>1, <2>3, PathArrive
  <2>5. Opened(decl, suites', open, left)
    <3>1. ~suites.closing
      <4>1. suites'.pending # NoOp
        BY <1>1, <2>3 DEF NoOp, Op
      <4> QED  BY <2>3, <2>4, <4>1 DEF PathInv, OnPath
    <3> QED  BY <1>0, <2>3, <2>4, <3>1, OpenGoes
  <2>6. suites'.pending # NoOp
    BY <1>1, <2>3 DEF NoOp, Op
  <2> QED  BY <1>1, <2>1, <2>4, <2>5, <2>6 DEF NestInv
<1>2. CASE ~(o.kind \in {"Test", "SkippedTest"} /\ o.test = attempt.test)
  <2>1. UNCHANGED suites /\ Throw("disagree")
    BY <1>2 DEF Arrive, planVars
  <2> QED  BY <2>1, NestThrows
<1> QED  BY <1>1, <1>2

(* A test has ended, or its body was not run.                              *)
LEMMA NestDone ==
  ASSUME IInv, NestInv, at \in {"run", "body"}, run.before, NEW ok \in BOOLEAN, suites' = Complete(suites, ok),
         at' = "decide", UNCHANGED <<decl, open, left>>
  PROVE  NestInv'
<1>1. SuiteInv(suites) /\ decl \in Decls /\ PathInv(decl, suites) /\ Opened(decl, suites, open, left)
  BY DEF IInv, TypeInv, NestInv, WithWorker, Working
<1>2. suites.pending # NoOp
  BY DEF IInv, DriveInv, NoOp, Op
<1>3. /\ PathInv(decl, suites') /\ suites'.active = suites.active /\ suites'.skip = 0 /\ suites'.routes = suites.routes
      /\ (suites'.retire <=> ~ok) /\ ~suites.closing
      /\ suites'.index = IF suites'.closing \/ suites'.retire THEN suites.index ELSE suites.index + 1
  BY ONLY <1>1, <1>2, ok \in BOOLEAN, suites' = Complete(suites, ok), PathDone
<1>4. ~suites.retire
  BY <1>1, <1>2 DEF PathInv, OnPath
<1>5. Opened(decl, suites', open, left)
  BY <1>1, <1>3, <1>4, OpenGoes
<1> QED  BY <1>3, <1>5 DEF NestInv

(* RunBody and NoBody.                                                     *)
LEMMA NestBody ==
  ASSUME IInv, NestInv, RunBody \/ NoBody
  PROVE  NestInv'
<1>1. CASE RunBody
  <2>1. at = "body" /\ at' = "decide" /\ UNCHANGED <<decl, open, left>> /\ run.before
    BY <1>1 DEF RunBody, IInv, DriveInv
  <2>2. PICK e \in Endings, amended \in BOOLEAN :
          /\ plan' = IF amended THEN ExpectFailure(plan) ELSE plan
          /\ run' = [Noted(run, e) EXCEPT
                       !.ok = e.outcome \in {"passed", "skipped"}, !.skip = e.outcome = "skipped",
                       !.infrastructure = @ \/ e.outcome = "gone"]
          /\ suites' = Complete(suites, IF InSerialGroup(attempt.test) THEN SerialExpected(plan', run') ELSE run'.ok)
    BY <1>1 DEF RunBody
  <2>3. run'.ok \in BOOLEAN
    <3>1. IInv'
      BY <1>1, RunBodyKeeps
    <3> QED  BY <3>1 DEF IInv, TypeInv, RunType
  <2>4. SerialExpected(plan', run') \in BOOLEAN
    BY DEF SerialExpected, Expected
  <2>5. PICK ok \in BOOLEAN : suites' = Complete(suites, ok)
    BY <2>2, <2>3, <2>4
  <2> QED  BY <2>1, <2>5, NestDone
<1>2. CASE NoBody
  <2>1. at = "run" /\ at' = "decide" /\ UNCHANGED <<decl, open, left>>
    BY <1>2 DEF NoBody
  <2>2. CASE run.before
    <3> DEFINE ok == operation.kind = "SkippedTest" /\ ~stop /\ host = "live"
    <3>1. ok \in BOOLEAN /\ suites' = Complete(suites, ok)
      BY <1>2, <2>2 DEF NoBody
    <3> HIDE DEF ok
    <3> QED  BY <2>1, <2>2, <3>1, NestDone
  <2>3. CASE ~run.before
    <3>1. suites' = suites
      BY <1>2, <2>3 DEF NoBody
    <3>2. WithWorker /\ (suites.pending # NoOp \/ suites.skip = 0)
      BY <2>1 DEF WithWorker, Working, NestInv
    <3> QED  BY <2>1, <3>1, <3>2, NestStays
  <2> QED  BY <2>2, <2>3
<1> QED  BY <1>1, <1>2

(* Decide.                                                                 *)
LEMMA NestDecide ==
  ASSUME IInv, NestInv, Decide
  PROVE  NestInv'
<1>1. at = "decide" /\ at' = "close" /\ UNCHANGED <<decl, open, left>>
  BY DEF Decide
<1>2. SuiteInv(suites) /\ decl \in Decls /\ PathInv(decl, suites) /\ Opened(decl, suites, open, left)
  BY <1>1 DEF IInv, TypeInv, NestInv, WithWorker, Working
<1>3. CASE WantsRetirement
  <2>1. suites.pending = NoOp /\ suites' = RetireAfterCurrentTest(suites)
    BY <1>3 DEF Decide, MayRetireAfterCurrentTest
  <2>2. suites.skip = 0
    BY <1>1, <2>1 DEF NestInv
  <2>3. PathInv(decl, suites') /\ suites'.active = suites.active /\ suites'.retire /\ suites'.routes = suites.routes
    BY ONLY <1>2, <2>1, <2>2, PathRetire
  <2>4. Opened(decl, suites', open, left)
    BY <1>2, <2>3, OpenGoes
  <2> QED  BY <1>1, <2>3, <2>4 DEF NestInv
<1>4. CASE ~WantsRetirement
  <2>1. suites' = suites
    BY <1>4 DEF Decide
  <2>2. WithWorker
    BY <1>1 DEF WithWorker, Working
  <2> QED  BY <1>1, <2>1, <2>2, NestStays
<1> QED  BY <1>3, <1>4

(* AfterAll.                                                               *)
LEMMA NestAfterAll ==
  ASSUME IInv, NestInv, AfterAll
  PROVE  NestInv'
<1>1. at = "close" /\ suites.closing
  BY DEF AfterAll, Closes, HasClosures
<1>2. SuiteInv(suites) /\ decl \in Decls /\ PathInv(decl, suites) /\ Opened(decl, suites, open, left)
  BY <1>1 DEF IInv, TypeInv, NestInv, WithWorker, Working
<1>3. suites.pending = NoOp
  BY <1>1, <1>2 DEF PathInv, OnPath
<1>4. ASSUME NEW ok \in BOOLEAN, NEW r, NEW h, LeaveSuite(ok, r, h) PROVE NestInv'
  <2> DEFINE suite == NextOp(suites).suite
  <2>1. /\ suites' = Complete(Admitted(suites), ok) /\ at' = at /\ decl' = decl
        /\ open' = (IF open # <<>> /\ Last(open) = suite THEN Front(open) ELSE open)
        /\ left' = left \cup {suite}
    BY <1>4 DEF LeaveSuite
  <2>2. /\ PathInv(decl, suites') /\ suites.active # <<>> /\ suites'.active = Front(suites.active)
        /\ suites'.routes = suites.routes /\ (suites'.retire <=> suites.retire \/ ~ok)
        /\ suites.index <= Len(suites.routes) /\ suite = Last(suites.active)
        /\ suites'.index = IF suites'.closing \/ suites'.retire THEN suites.index ELSE suites.index + 1
    BY ONLY <1>1, <1>2, <1>3, ok \in BOOLEAN, <2>1, PathLeave
  <2> HIDE DEF suite
  <2>3. Opened(decl, suites', IF open # <<>> /\ Last(open) = suite THEN Front(open) ELSE open, left \cup {suite})
    BY <1>1, <1>2, <2>2, OpenLeave
  <2>4. Opened(decl, suites', open', left')
    BY <2>1, <2>3
  <2> QED  BY <1>1, <2>1, <2>2, <2>4 DEF NestInv
<1>5. ASSUME NEW e \in Endings, NEW r, NEW h, LeaveSuite(e.outcome = "passed", r, h) PROVE NestInv'
  <2> DEFINE ok == e.outcome = "passed"
  <2>1. ok \in BOOLEAN /\ LeaveSuite(ok, r, h)
    BY <1>5
  <2> HIDE DEF ok
  <2> QED  BY <1>4, <2>1
<1>6. TRUE \in BOOLEAN /\ FALSE \in BOOLEAN
  OBVIOUS
<1> QED  BY <1>4, <1>5, <1>6 DEF AfterAll

(* StartAttempt: a worker that has no suite plan yet has entered nothing.  *)
LEMMA NestStartAttempt ==
  ASSUME IInv, NestInv, StartAttempt
  PROVE  NestInv'
<1>1. at = "loop" /\ decl \in Decls /\ finalized \subseteq Tests
  BY DEF StartAttempt, IInv, TypeInv
<1>2. CASE plan'.active = NoAttempt
  BY <1>2, NestThrows DEF StartAttempt
<1>3. CASE plan'.active # NoAttempt
  <2>1. /\ suites' = (IF suites = NoSuites THEN InitSuitePlan(decl, Tests \ finalized) ELSE suites)
        /\ at' = "prepare" /\ decl' = decl
        /\ open' = (IF host = "none" THEN <<>> ELSE open) /\ left' = (IF host = "none" THEN {} ELSE left)
    BY <1>3 DEF StartAttempt
  <2>2. CASE suites = NoSuites
    <3>1. suites' = InitSuitePlan(decl, Tests \ finalized) /\ Tests \ finalized \in SUBSET Tests
      BY <2>1, <2>2
    <3>2. PathInv(decl, suites') /\ suites'.active = <<>>
      BY ONLY <1>1, <3>1, FreshPath
    <3>3. suites.active = <<>> /\ suites.routes = <<>> /\ ~suites.retire
      <4>1. suites = InitSuitePlan(decl, {}) /\ {} \in SUBSET Tests
        BY <2>2 DEF NoSuites
      <4>2. suites.active = <<>> /\ Idle(suites) /\ (suites.routes = <<>> <=> {} = {})
        BY ONLY <1>1, <4>1, FreshPath
      <4> QED  BY <4>2 DEF Idle
    <3>4. open' = <<>> /\ left' = {}
      <4>1. CASE host = "none"
        BY <2>1, <4>1
      <4>2. CASE host # "none"
        <5>1. Opened(decl, suites, open, left)
          BY <1>1, <4>2 DEF NestInv, WithWorker
        <5> QED  BY <2>1, <3>3, <4>2, <5>1 DEF Opened
      <4> QED  BY <4>1, <4>2
    <3>5. Opened(decl, suites', open', left')
      BY <3>2, <3>4 DEF Opened
    <3> QED  BY <2>1, <3>2, <3>5 DEF NestInv
  <2>3. CASE suites # NoSuites
    <3>1. host # "none" /\ WithWorker
      BY <1>1, <2>3 DEF NestInv, WithWorker
    <3> QED  BY <2>1, <2>3, <3>1, NestStays
  <2> QED  BY <2>2, <2>3
<1> QED  BY <1>2, <1>3

(* Retire: the worker's suite plan goes with the worker.                   *)
LEMMA NestRetire ==
  ASSUME IInv, NestInv, Retire
  PROVE  NestInv'
<1>1. at = "retire" /\ decl \in Decls /\ at' \in {"report", "loop"} /\ UNCHANGED <<decl, open, left>>
  BY DEF Retire, IInv, TypeInv
<1>2. CASE Retires
  <2>1. suites' = InitSuitePlan(decl, {}) /\ host' = "none" /\ {} \in SUBSET Tests
    BY <1>2 DEF Retire, NoSuites
  <2>2. PathInv(decl, suites')
    BY ONLY <1>1, <2>1, FreshPath
  <2>3. suites' = NoSuites'
    BY <1>1, <2>1 DEF NoSuites
  <2>4. ~WithWorker'
    BY <1>1, <2>1 DEF WithWorker, Working
  <2> QED  BY <1>1, <2>2, <2>3, <2>4 DEF NestInv
<1>3. CASE ~Retires
  <2>1. suites' = suites /\ host' = host
    BY <1>3 DEF Retire
  <2>2. WithWorker
    BY <1>1 DEF WithWorker
  <2>3. host # "none"
    BY <1>1 DEF NestInv
  <2> QED  BY <1>1, <2>1, <2>2, <2>3, NestStays
<1> QED  BY <1>2, <1>3

(* The steps that leave the suite plan alone.                              *)
LEMMA NestQuiet ==
  ASSUME IInv, NestInv,
         \/ ThrowIfStopped \/ StartThrows \/ PrepareOutput \/ PrepareThrows \/ StartBody \/ DecideThrows \/ AfterAllThrows
         \/ FinishAttempt \/ LoopEnds \/ MarkUnrun \/ RequestStop \/ UNCHANGED vars
  PROVE  NestInv'
<1>1. CASE ThrowIfStopped
  BY <1>1, NestThrows DEF ThrowIfStopped
<1>2. CASE StartThrows
  BY <1>2, NestThrows DEF StartThrows, planVars
<1>3. CASE PrepareThrows
  BY <1>3, NestThrows DEF PrepareThrows, planVars
<1>4. CASE DecideThrows
  BY <1>4, NestThrows DEF DecideThrows, planVars
<1>5. CASE AfterAllThrows
  BY <1>5, NestThrows DEF AfterAllThrows, planVars
<1>6. CASE PrepareOutput
  <2>1. at = "prepare" /\ at' = "enter" /\ UNCHANGED <<decl, suites, open, left>>
    BY <1>6 DEF PrepareOutput, planVars
  <2>2. WithWorker
    BY <2>1 DEF WithWorker, Working
  <2> QED  BY <2>1, <2>2, NestStays
<1>7. CASE StartBody
  <2>1. at = "run" /\ at' = "body" /\ UNCHANGED <<decl, suites, open, left, run, operation, attempt>>
    BY <1>7 DEF StartBody, planVars
  <2>2. WithWorker
    BY <2>1 DEF WithWorker, Working
  <2>3. run.before => operation.test = attempt.test
    BY <2>1 DEF NestInv
  <2> QED  BY <2>1, <2>2, <2>3, NestStays
<1>8. CASE FinishAttempt
  <2>1. at = "close" /\ at' = "retire" /\ UNCHANGED <<decl, suites, open, left>> /\ host' # "none"
    BY <1>8 DEF FinishAttempt, IInv, AttemptInv, Working
  <2>2. WithWorker
    BY <2>1 DEF WithWorker, Working
  <2> QED  BY <2>1, <2>2, NestStays, SMTT(40), ZenonT(60)
<1>9. CASE LoopEnds \/ MarkUnrun
  <2>1. at' \in {"report", "ended"} /\ UNCHANGED <<decl, suites>>
    BY <1>9 DEF LoopEnds, MarkUnrun, planVars
  <2>2. ~WithWorker'
    BY <2>1 DEF WithWorker, Working
  <2> QED  BY <2>1, <2>2, NestStays
<1>10. CASE RequestStop \/ UNCHANGED vars
  <2>1. UNCHANGED <<decl, suites, host, at, attempt, operation, run, open, left>>
    BY <1>10 DEF RequestStop, vars, planVars
  <2>2. WithWorker' <=> WithWorker
    BY <2>1 DEF WithWorker
  <2>3. /\ at \in {"run", "body"} /\ run.before => operation.test = attempt.test
        /\ at \in {"run", "decide"} => suites.pending # NoOp \/ suites.skip = 0
        /\ at = "retire" => host # "none"
    BY DEF NestInv
  <2> QED  BY <2>1, <2>2, <2>3, NestStays
<1> QED  BY <1>1, <1>2, <1>3, <1>4, <1>5, <1>6, <1>7, <1>8, <1>9, <1>10

(* Init: the first worker has entered nothing.                             *)
LEMMA NestInit ==
  ASSUME Init
  PROVE  NestInv
<1>1. /\ decl \in Decls /\ suites = InitSuitePlan(decl, {}) /\ {} \in SUBSET Tests
      /\ at = "loop" /\ host = "live" /\ open = <<>> /\ left = {}
  BY DEF Init, NoSuites
<1>2. PathInv(decl, suites) /\ suites.active = <<>>
  BY ONLY <1>1, FreshPath
<1>3. Opened(decl, suites, open, left)
  BY <1>1, <1>2 DEF Opened
<1> QED  BY <1>1, <1>2, <1>3 DEF NestInv

(* Every step keeps the suites in step.                                    *)
LEMMA NestNext ==
  ASSUME IInv, NestInv, [Next]_vars
  PROVE  NestInv'
BY NestStartAttempt, NestRetire, NestQuiet, NestBeforeAll, NestArrive, NestBody, NestDecide, NestAfterAll DEF Next, Runner

(* The suite plan of a worker and what that worker has entered and left    *)
(* agree, in every reachable state.                                        *)
THEOREM NestInvHolds == Spec => []NestInv
<1>1. Init => NestInv
  BY NestInit
<1>2. IInv /\ NestInv /\ [Next]_vars => NestInv'
  BY NestNext
<1> QED  BY <1>1, <1>2, IInvHolds, PTL DEF Spec

(* What the invariants say of a running body.                              *)
LEMMA InvariantBodies ==
  ASSUME IInv, NestInv
  PROVE  BodyInsideSuites
<1> SUFFICES ASSUME at = "body"
             PROVE  open = decl.ancestors[attempt.test] /\ Range(open) \cap left = {}
  BY DEF BodyInsideSuites
<1>1. /\ run.before /\ operation.test = attempt.test /\ suites.pending = operation /\ operation.kind = "Test"
  BY DEF NestInv, IInv, DriveInv
<1>2. /\ SuiteInv(suites) /\ decl \in Decls /\ PathInv(decl, suites) /\ Opened(decl, suites, open, left)
  BY DEF IInv, TypeInv, NestInv, WithWorker, Working
<1>3. suites.pending # NoOp
  BY <1>1 DEF NoOp, Op
<1>4. /\ suites.index <= Len(suites.routes) /\ suites.skip = 0 /\ ~suites.closing /\ ~suites.retire
      /\ OnRoute(decl, suites, suites.routes[suites.index])
  <2>1. suites.index \in Nat /\ Len(suites.routes) \in Nat
    BY <1>2 DEF SuiteInv
  <2>2. /\ suites.index <= Len(suites.routes) => OnRoute(decl, suites, suites.routes[suites.index])
        /\ suites.index > Len(suites.routes) => suites.pending = NoOp
        /\ ~suites.closing /\ ~suites.retire
        /\ suites.pending.kind = IF suites.skip = 0 THEN "Test" ELSE "SkippedTest"
    BY <1>2, <1>3 DEF PathInv, OnPath
  <2> QED  BY <1>1, <1>3, <2>1, <2>2
<1>5. suites.active = decl.ancestors[attempt.test] /\ suites.routes[suites.index].test = attempt.test
  BY <1>1, <1>3, <1>4 DEF OnRoute
<1>6. open = decl.ancestors[attempt.test]
  BY <1>2, <1>4, <1>5 DEF Opened
<1>7. ASSUME NEW x \in left PROVE x \notin Range(open)
  <2>1. ~Has(decl.ancestors[attempt.test], x)
    BY <1>2, <1>4, <1>5 DEF Opened
  <2>2. attempt.test \in Tests
    BY DEF IInv, TypeInv, AttemptInv, Working, MaybeAttempt, Attempts, NoAttempt, Attempt
  <2> QED  BY <1>2, <1>6, <2>1, <2>2, RangeHas
<1> QED  BY <1>6, <1>7

(* Whatever was retried, skipped, failed or stopped before, a test body    *)
(* runs inside exactly its suites: this worker has entered each of them,   *)
(* outermost first, and left none since.                                   *)
THEOREM BodiesInsideSuites == Spec => []BodyInsideSuites
BY InvariantBodies, IInvHolds, NestInvHolds, PTL

-----------------------------------------------------------------------------
(* The two plans in step.                                                  *)

(* The retry plan and the runner's worker: what is not final is not        *)
(* settled, and a wave belongs to the worker.                              *)
WaveInv ==
  Live =>
    /\ TurnInv(plan)
    /\ \A u \in SerialUnits(decl) :
         LET g == plan.group[u]
         IN /\ Started(g) => g.worker = worker /\ host # "none"
            /\ g.last <= worker /\ (g.state = "awaiting" /\ g.last = worker => host = "none")
    /\ at = "loop" => ~NeedsWorkerRetirement(plan)
    /\ at \in Working => ~Stopped(plan)
    /\ \A t \in Unsettled(plan) : t \notin finalized
    /\ (\A t \in Tests : t \in finalized \/ t \in Unsettled(plan)) \/ (Legacy(decl) /\ FailureLimitReached(plan))

(* What the runner knows of an attempt. *)
KnownInv ==
  /\ run.interrupted => stop
  /\ at \in Working /\ run.cause # 0 => run.skip
  /\ at \in {"run", "body", "decide", "close"} /\ run.cause = 0 => operation.skipped = {}
  /\ at \in {"enter", "run", "body"} /\ run.before => ~run.timedOut /\ ~run.infrastructure
  /\ at \in {"decide", "close"} /\ run.ok => ~run.timedOut /\ ~run.infrastructure
  /\ at \in Working \ {"prepare"} /\ ~run.ready => run.infrastructure /\ ~run.ok

(* The suite plan is at the attempt's test. *)
OnTest == suites.index <= Len(suites.routes) /\ suites.routes[suites.index].test = attempt.test

(* A beforeAll has skipped the test, which then leaves the suite. *)
SkipStep == suites.skip # 0 => run.cause # 0 /\ suites.routes[suites.index].finish # 0

(* Before the test: with what a beforeAll has skipped, the later routes    *)
(* are what is to come.                                                    *)
EnterStep ==
  /\ ~suites.closing /\ ~suites.retire /\ suites.pending = NoOp /\ OnTest /\ SkipStep
  /\ Later(suites) \cup suites.skipped = Coming(plan)

(* The body, or the failure that takes its place.                          *)
RunStep ==
  /\ OnTest
  /\ IF run.before THEN Later(suites) = Coming(plan) \ operation.skipped /\ SkipStep
     ELSE run.ready => suites.pending = NoOp /\ suites.retire

(* The body is over: unless the suite plan retires, the later routes are   *)
(* what is to come and the attempt went as expected.                       *)
DoneStep ==
  /\ suites.pending = NoOp
  /\ ~suites.retire =>
       /\ Rest(suites) \ {attempt.test} = Coming(plan) \ operation.skipped /\ suites.skip = 0
       /\ IF suites.closing THEN OnTest ELSE attempt.test \notin Rest(suites)
       /\ IF InSerialGroup(attempt.test) THEN SerialExpected(plan, run) \/ stop ELSE run.ok
       /\ run.skip => run.ok

(* Before the driver has decided to retire, and while it leaves suites.    *)
DecideStep ==
  \/ OnTest /\ (suites.closing \/ suites.retire)
  \/ ~suites.retire /\ (InSerialGroup(attempt.test) => ~LastInSerialGroup(plan, attempt.test))

CloseStep ==
  /\ suites.closing => OnTest \/ stop \/ attempt.test \in decl.expected
  /\ ~suites.retire =>
       IF InSerialGroup(attempt.test) THEN ~LastInSerialGroup(plan, attempt.test) ELSE attempt.test \notin decl.expected

(* Step by step, the suite plan has to come what the retry plan has. *)
Agree == Idle(suites) /\ Rest(suites) = Coming(plan)
StepInv ==
  /\ at = "loop" => IF suites = NoSuites THEN AtRest(decl, plan) ELSE Agree
  /\ at \in Working \cup {"retire"} => suites.routes # <<>>
  /\ at = "prepare" => Idle(suites) /\ OnTest /\ Later(suites) = Coming(plan)
  /\ at = "enter" => EnterStep
  /\ at \in {"run", "body"} => RunStep
  /\ at \in {"decide", "close"} /\ run.ready => DoneStep
  /\ at = "decide" /\ run.ready => DecideStep
  /\ at = "close" /\ run.ready => CloseStep
  /\ at = "retire" /\ ~Retires => Agree

(* Why the coroutine threw. *)
FailInv == (failure # "none" => at \in {"throw", "ended"}) /\ AbortHasCause

(* A step of an attempt that leaves the retry plan's turn alone.           *)
LEMMA WaveStays ==
  ASSUME IInv, WaveInv, UNCHANGED <<decl, worker, finalized>>, at' \in Working, at \in Working, host' # "none",
         plan' = plan \/ plan' = ExpectFailure(plan)
  PROVE  WaveInv'
<1>1. /\ plan'.decl = plan.decl /\ plan'.queue = plan.queue /\ plan'.active = plan.active /\ plan'.again = plan.again
      /\ plan'.group = plan.group /\ plan'.retiring = plan.retiring /\ plan'.failures = plan.failures
      /\ plan'.stop = plan.stop
  BY DEF ExpectFailure, IInv, PlanInv, PlanOf
<1>2. /\ TurnInv(plan) => TurnInv(plan')
      /\ Unsettled(plan') = Unsettled(plan) /\ (Stopped(plan') <=> Stopped(plan))
      /\ (FailureLimitReached(plan') <=> FailureLimitReached(plan))
  BY <1>1, SameTurn
<1>3. Live /\ Live' /\ at' # "loop" /\ host # "none"
  BY DEF Live, Working, IInv, AttemptInv
<1>4. /\ TurnInv(plan) /\ ~Stopped(plan) /\ (\A t \in Unsettled(plan) : t \notin finalized)
      /\ (\A t \in Tests : t \in finalized \/ t \in Unsettled(plan)) \/ (Legacy(decl) /\ FailureLimitReached(plan))
  BY <1>3 DEF WaveInv
<1>5. ASSUME NEW u \in SerialUnits(decl)
      PROVE  LET g == plan'.group[u]
             IN /\ Started(g) => g.worker = worker /\ host' # "none"
                /\ g.last <= worker /\ (g.state = "awaiting" /\ g.last = worker => host' = "none")
  BY <1>1, <1>3 DEF WaveInv
<1> QED  BY <1>2, <1>3, <1>4, <1>5 DEF WaveInv

(* The worker of the next attempt is one that every group may use.         *)
LEMMA StartPicks ==
  ASSUME IInv, WaveInv, at = "loop", ~Done(plan), NEW w, w = StartWorker, NEW q, q = NextAttempt(plan, w)
  PROVE  /\ Picks(decl, plan, q, w) /\ PlanInv(decl, q) /\ TurnInv(q) /\ TurnsTo(plan, q) /\ w \in Nat
         /\ \A u \in SerialUnits(decl) :
              /\ plan.group[u].state = "awaiting" => w > plan.group[u].last
              /\ Started(plan.group[u]) => plan.group[u].worker = w
              /\ plan.group[u].last <= w
<1>1. /\ PlanInv(decl, plan) /\ plan.active = NoAttempt /\ worker \in Nat
      /\ plan.group \in [SerialUnits(decl) -> Group]
  BY PlanFields DEF IInv, TypeInv, AttemptInv
<1>2. /\ TurnInv(plan) /\ ~NeedsWorkerRetirement(plan)
      /\ \A u \in SerialUnits(decl) :
         LET g == plan.group[u]
         IN /\ Started(g) => g.worker = worker /\ host # "none"
            /\ g.last <= worker /\ (g.state = "awaiting" /\ g.last = worker => host = "none")
  BY DEF WaveInv, Live
<1>3. ~Stopped(plan) /\ Remaining(plan) # {}
  BY <1>1, <1>2 DEF Done
<1>4. w \in Nat /\ w = IF host = "none" THEN worker + 1 ELSE worker
  BY <1>1 DEF StartWorker
<1>5. ASSUME NEW u \in SerialUnits(decl)
      PROVE  /\ plan.group[u].state = "awaiting" => w > plan.group[u].last
             /\ Started(plan.group[u]) => plan.group[u].worker = w
             /\ plan.group[u].last <= w
  <2>1. plan.group[u].last \in Nat
    BY <1>1 DEF Group
  <2>2. plan.group[u].last <= worker /\ (plan.group[u].state = "awaiting" /\ plan.group[u].last = worker => host = "none")
        /\ (Started(plan.group[u]) => plan.group[u].worker = worker /\ host # "none")
    BY <1>2
  <2> QED  BY <1>1, <1>4, <2>1, <2>2
<1>6. Picks(decl, plan, q, w)
  <2>1. OrderInv(plan) /\ FenceInv(plan)
    BY <1>2 DEF TurnInv
  <2>2. \A u \in SerialUnits(decl) :
          /\ plan.group[u].state = "awaiting" => w > plan.group[u].last
          /\ plan.group[u].state = "ready" => plan.group[u].worker = w
    BY <1>5 DEF Started
  <2> QED  BY <1>1, <1>2, <1>3, <1>4, <2>1, <2>2, NextPicks
<1>7. PlanInv(decl, q)
  BY <1>1, <1>4, NextAttemptKeeps
<1>8. TurnInv(q)
  BY <1>1, <1>2, <1>6, <1>7, PicksTurn
<1>9. TurnsTo(plan, q)
  BY <1>1, <1>2, <1>6, <1>7, PicksFirst DEF TurnInv
<1> QED  BY <1>4, <1>5, <1>6, <1>7, <1>8, <1>9

(* StartAttempt, when it does not throw.                                   *)
Starts ==
  /\ at = "loop" /\ ~Done(plan) /\ plan' = NextAttempt(plan, StartWorker) /\ plan'.active # NoAttempt
  /\ attempt' = plan'.active /\ at' = "prepare" /\ run' = InitRun /\ operation' = NoOp
  /\ suites' = IF suites = NoSuites THEN InitSuitePlan(decl, Tests \ finalized) ELSE suites
  /\ host' # "none" /\ worker' = StartWorker
  /\ decl' = decl /\ stop' = stop /\ finalized' = finalized /\ failure' = failure

(* It never does, for the fence is open.                                   *)
LEMMA StartStarts ==
  ASSUME IInv, WaveInv, StartAttempt
  PROVE  Starts
<1>1. at = "loop" /\ ~Done(plan) /\ plan' = NextAttempt(plan, StartWorker)
  BY DEF StartAttempt
<1>2. plan'.active # NoAttempt
  <2>1. Picks(decl, plan, plan', StartWorker)
    BY <1>1, StartPicks
  <2> QED  BY <2>1 DEF Picks
<1>3. attempt' = plan'.active /\ at' = "prepare" /\ run' = InitRun /\ operation' = NoOp
      /\ suites' = (IF suites = NoSuites THEN InitSuitePlan(decl, Tests \ finalized) ELSE suites)
      /\ host' = (IF host = "none" THEN "live" ELSE host) /\ worker' = StartWorker
      /\ decl' = decl /\ stop' = stop /\ finalized' = finalized /\ failure' = failure
  BY <1>2 DEF StartAttempt, reportVars
<1> QED  BY <1>1, <1>2, <1>3 DEF Starts

(* StartAttempt.                                                           *)
LEMMA WaveStart ==
  ASSUME IInv, WaveInv, Starts
  PROVE  WaveInv'
<1>1. /\ at = "loop" /\ ~Done(plan) /\ plan' = NextAttempt(plan, StartWorker) /\ at' = "prepare"
      /\ host' # "none" /\ worker' = StartWorker /\ decl' = decl /\ finalized' = finalized
  BY DEF Starts
<1>2. /\ Picks(decl, plan, plan', StartWorker) /\ TurnInv(plan') /\ TurnsTo(plan, plan')
      /\ StartWorker \in Nat
      /\ \A u \in SerialUnits(decl) :
              /\ plan.group[u].state = "awaiting" => StartWorker > plan.group[u].last
              /\ Started(plan.group[u]) => plan.group[u].worker = StartWorker
              /\ plan.group[u].last <= StartWorker
  BY <1>1, StartPicks
<1>3. /\ plan'.failures = plan.failures /\ plan'.stop = plan.stop /\ plan'.decl = decl /\ plan.decl = decl
      /\ plan.group \in [SerialUnits(decl) -> Group] /\ plan.active = NoAttempt
  BY <1>1, <1>2, PlanFields DEF Picks, IInv, AttemptInv
<1>4. /\ Live /\ Live' /\ at' # "loop"
  BY <1>1 DEF Live
<1>5. ~Stopped(plan)
  BY <1>1, <1>3, <1>4 DEF Done, WaveInv
<1>6. ~Stopped(plan') /\ (FailureLimitReached(plan') <=> FailureLimitReached(plan))
  BY <1>3, <1>5 DEF Stopped, FailureLimitReached
<1>7. Unsettled(plan') = Unsettled(plan)
  BY <1>2 DEF TurnsTo
<1>8. ASSUME NEW u \in SerialUnits(decl)
      PROVE  LET g == plan'.group[u]
             IN /\ Started(g) => g.worker = StartWorker
                /\ g.last <= StartWorker /\ ~(g.state = "awaiting" /\ g.last = StartWorker)
  <2> DEFINE c == Unit(decl, plan'.active.test)
  <2>1. plan.group[u].last \in Nat
    BY <1>3 DEF Group
  <2>2. CASE u = c
    <3>1. IsSerial(decl, c)
      BY <2>2 DEF SerialUnits
    <3>2. MemberPicked(decl, c, plan.group[c], plan'.group[c], plan'.active.test, StartWorker)
      BY <1>2, <3>1, SMTT(40), ZenonT(60) DEF Picks
    <3>3. plan'.group[u].state = "active" /\ plan'.group[u].worker = StartWorker /\ plan'.group[u].last \in {StartWorker, plan.group[u].last}
      BY <2>2, <3>2 DEF MemberPicked
    <3> QED  BY <1>2, <2>1, <3>3
  <2>3. CASE u # c
    <3>1. plan'.group[u] = plan.group[u]
      BY <1>2, <2>3 DEF Picks
    <3> QED  BY <1>2, <2>1, <3>1
  <2> QED  BY <2>2, <2>3
<1>9. /\ \A t \in Unsettled(plan) : t \notin finalized
      /\ (\A t \in Tests : t \in finalized \/ t \in Unsettled(plan)) \/ (Legacy(decl) /\ FailureLimitReached(plan))
  BY <1>4 DEF WaveInv
<1> QED  BY <1>1, <1>2, <1>4, <1>6, <1>7, <1>8, <1>9 DEF WaveInv

(* FinishAttempt: the result ends the attempt's turn, and then tests are   *)
(* excluded.                                                               *)
LEMMA EndTurns ==
  ASSUME IInv, WaveInv, FinishAttempt
  PROVE  /\ Ends /\ Finishes(decl, plan, EndPlan, worker, EndOutcome, EndFault)
         /\ Excludes(decl, EndPlan, plan', Omitted \cup Blocked)
         /\ EndsTurn(decl, plan, EndPlan, EndOutcome, EndFault)
         /\ LosesTests(decl, EndPlan, plan', Omitted \cup Blocked)
<1>1. /\ Ends /\ Finishes(decl, plan, EndPlan, worker, EndOutcome, EndFault)
  BY FinishEnds
<1>2. Excludes(decl, EndPlan, plan', Omitted \cup Blocked)
  BY <1>1, EndExcludes
<1>3. at = "close" /\ plan' = ExcludeQueued(EndPlan, Omitted \cup Blocked)
  BY <1>1 DEF Ends
<1>4. PlanInv(decl, plan) /\ TurnInv(plan) /\ plan.active # NoAttempt /\ worker \in Nat
  BY <1>3 DEF IInv, TypeInv, AttemptInv, Working, WaveInv, Live
<1>5. EndOutcome \in Outcomes /\ EndFault \in BOOLEAN
  BY <1>3, EndFacts
<1>6. EndsTurn(decl, plan, EndPlan, EndOutcome, EndFault)
  <2>1. EndPlan = Finish(plan, worker, EndOutcome, EndFault)
    BY DEF EndPlan
  <2> QED  BY <1>4, <1>5, <2>1, FinishTurn
<1>7. Omitted \cup Blocked \in SUBSET Tests
  BY <1>3, EndedTests
<1>8. PlanInv(decl, EndPlan) /\ EndPlan.active = NoAttempt
  BY <1>1 DEF Finishes
<1>9. TurnInv(EndPlan)
  BY <1>6 DEF EndsTurn
<1>10. LosesTests(decl, EndPlan, plan', Omitted \cup Blocked)
  BY <1>3, <1>7, <1>8, <1>9, ExcludeTurn
<1> QED  BY <1>1, <1>2, <1>6, <1>10

(* FinishAttempt.                                                          *)
LEMMA WaveFinish ==
  ASSUME IInv, NestInv, WaveInv, FinishAttempt
  PROVE  WaveInv'
<1> DEFINE t == attempt.test
           ids == Omitted \cup Blocked
           u == Unit(decl, t)
           settled == ~IsSerial(decl, u) /\ ~Retried(plan, EndOutcome, EndFault)
           full == Legacy(decl) /\ FailureLimitReached(EndPlan)
<1>1. /\ Ends /\ EndsTurn(decl, plan, EndPlan, EndOutcome, EndFault) /\ LosesTests(decl, EndPlan, plan', ids)
  BY EndTurns
<1>2. /\ at = "close" /\ at' = "retire" /\ finalized' = Final \cup ids
      /\ decl' = decl /\ host' = host /\ worker' = worker
  BY <1>1 DEF Ends
<1>3. /\ Live /\ Live' /\ at' \notin Working /\ at' # "loop" /\ host # "none" /\ plan.active = attempt /\ attempt # NoAttempt
  BY <1>2 DEF Live, Working, IInv, AttemptInv
<1>4. /\ TurnInv(plan) /\ \A s \in Unsettled(plan) : s \notin finalized
      /\ (\A s \in Tests : s \in finalized \/ s \in Unsettled(plan)) \/ (Legacy(decl) /\ FailureLimitReached(plan))
  BY <1>3 DEF WaveInv
<1>5. plan.decl = decl /\ plan.group \in [SerialUnits(decl) -> Group] /\ t \in Tests
  BY <1>3, PlanFields DEF IInv
<1>6. ~(Legacy(decl) /\ FailureLimitReached(plan))
  BY <1>3, <1>4, <1>5 DEF TurnInv, LimitInv
<1>7. /\ TurnInv(plan') /\ Unsettled(plan') = Unsettled(EndPlan) \ ids /\ plan'.failures = EndPlan.failures
      /\ \A v \in SerialUnits(decl) : MembersGo(decl, v, EndPlan.group[v], plan'.group[v], ids)
  BY <1>1 DEF LosesTests
<1>8. \A s \in Tests :
        /\ s \in Unsettled(EndPlan) => s \in Unsettled(plan) /\ ~(settled /\ s = t)
        /\ s \in Unsettled(plan) /\ ~(settled /\ s = t) => full \/ s \in Unsettled(EndPlan)
  BY <1>1, <1>3 DEF EndsTurn
<1>9. \A v \in SerialUnits(decl) :
          /\ EndPlan.group[v].worker = plan.group[v].worker /\ EndPlan.group[v].last = plan.group[v].last
          /\ EndPlan.group[v].state = "awaiting" => plan.group[v].state = "awaiting"
          /\ Started(EndPlan.group[v]) => Started(plan.group[v])
  BY <1>1 DEF EndsTurn
<1>10. FailureLimitReached(plan') <=> FailureLimitReached(EndPlan)
  <2>1. PlanInv(decl, EndPlan) /\ PlanInv(decl, plan')
    BY EndTurns DEF Finishes, Excludes
  <2>2. EndPlan.decl = decl /\ plan'.decl = decl
    BY <2>1, PlanFields
  <2> QED  BY <1>7, <2>2 DEF FailureLimitReached
<1>11. /\ finalized \subseteq Final /\ Final \subseteq finalized \cup {t}
       /\ ~IsSerial(decl, u) => IF Retried(plan, EndOutcome, EndFault) THEN Final = finalized ELSE t \in Final
       /\ IsSerial(decl, u) => Final = finalized
  <2>1. IsSerial(decl, u) => Final = finalized
    BY DEF Final, InSerialGroup
  <2> QED  BY <1>2, <2>1, FinalTests DEF InSerialGroup
<1> HIDE DEF ids, settled, full, t, u
<1>12. ASSUME NEW s \in Tests, s \in Unsettled(plan') PROVE s \notin finalized'
  BY <1>2, <1>4, <1>7, <1>8, <1>11, <1>12 DEF settled
<1>13. Unsettled(plan') \subseteq Tests
  BY DEF Unsettled
<1>14. ASSUME NEW s \in Tests, s \notin finalized', ~full PROVE s \in Unsettled(plan')
  BY <1>2, <1>4, <1>6, <1>7, <1>8, <1>11, <1>14 DEF settled
<1>15. ASSUME NEW v \in SerialUnits(decl)
       PROVE  LET g == plan'.group[v]
              IN /\ Started(g) => g.worker = worker
                 /\ g.last <= worker /\ ~(g.state = "awaiting" /\ g.last = worker)
  <2>1. LET g == plan.group[v]
        IN /\ Started(g) => g.worker = worker
           /\ g.last <= worker /\ ~(g.state = "awaiting" /\ g.last = worker)
    BY <1>3 DEF WaveInv
  <2>2. /\ plan'.group[v].worker = EndPlan.group[v].worker /\ plan'.group[v].last = EndPlan.group[v].last
        /\ plan'.group[v].state = "awaiting" => EndPlan.group[v].state = "awaiting"
        /\ Started(plan'.group[v]) => Started(EndPlan.group[v])
    BY <1>7 DEF MembersGo
  <2> QED  BY <1>9, <2>1, <2>2
<1>16. (\A s \in Tests : s \in finalized' \/ s \in Unsettled(plan')) \/ (Legacy(decl) /\ FailureLimitReached(plan'))
  BY <1>10, <1>14 DEF full
<1> QED  BY <1>2, <1>3, <1>7, <1>12, <1>13, <1>15, <1>16 DEF WaveInv

(* Retire, when the worker goes.                                           *)
LEMMA RetireExits ==
  ASSUME IInv, WaveInv, Retire, Retires
  PROVE  ExitsTo(decl, plan, plan') /\ AtRest(decl, plan')
<1> DEFINE r == ActualWorkerExited(plan, worker)
<1>1. at = "retire" /\ plan' = IF NeedsWorkerRetirement(r) THEN WorkerExited(r) ELSE r
  BY DEF Retire
<1>2. PlanInv(decl, plan) /\ plan.active = NoAttempt /\ worker \in Nat
  BY <1>1 DEF IInv, TypeInv, AttemptInv
<1>3. TurnInv(plan) /\ \A v \in SerialUnits(decl) : Started(plan.group[v]) => plan.group[v].worker = worker
  BY <1>1 DEF WaveInv, Live
<1>4. r = ActualWorkerExited(plan, worker)
  OBVIOUS
<1> HIDE DEF r
<1> QED  BY <1>1, <1>2, <1>3, <1>4, ExitTurn

(* What the plan takes for final when the worker stays was final before.   *)
LEMMA FinalBefore ==
  ASSUME IInv, at = "retire", NEW t \in Tests, Finalized(plan, t)
  PROVE  t \in finalized
<1>1. plan.decl = decl
  BY PlanFields DEF IInv
<1>2. /\ plan.finalized \subseteq finalized
      /\ \A u \in SerialUnits(decl) : Over(plan.group[u]) => Members(decl, u) \subseteq finalized
  BY DEF IInv, FinalInv, Live
<1>3. CASE IsSerial(decl, Unit(decl, t))
  <2>1. Over(plan.group[Unit(decl, t)])
    BY <1>1, <1>3 DEF Finalized
  <2> QED  BY <1>2, <1>3, <2>1, UnitOfTest
<1>4. CASE ~IsSerial(decl, Unit(decl, t))
  BY <1>1, <1>2, <1>4 DEF Finalized
<1> QED  BY <1>3, <1>4

(* Retire.                                                                 *)
LEMMA WaveRetire ==
  ASSUME IInv, NestInv, WaveInv, Retire
  PROVE  WaveInv'
<1>1. /\ at = "retire" /\ at' \in {"report", "loop"} /\ decl' = decl /\ worker' = worker
      /\ host' = (IF Retires THEN "none" ELSE host)
      /\ finalized' = finalized \cup {t \in Tests : Finalized(plan', t)}
  BY DEF Retire
<1>2. Rests(plan') /\ (~Retires => plan' = plan)
  BY RetireRests
<1>3. /\ plan.decl = decl /\ plan'.decl = decl /\ PlanInv(decl, plan) /\ PlanInv(decl, plan') /\ plan'.active = NoAttempt
      /\ plan'.finalized = plan.finalized /\ 0 \notin Tests /\ NoAttempt.test = 0 /\ plan'.again \in MaybeAttempt
  <2>1. PlanInv(decl, plan) /\ PlanInv(decl, plan') /\ plan'.active = NoAttempt /\ plan'.finalized = plan.finalized
    BY <1>2 DEF IInv, Rests
  <2> QED  BY <2>1, PlanFields, TestNumbers
<1>4. Live /\ at' \notin Working
  BY <1>1 DEF Live, Working
<1>5. /\ TurnInv(plan) /\ (\A t \in Unsettled(plan) : t \notin finalized)
      /\ (\A t \in Tests : t \in finalized \/ t \in Unsettled(plan)) \/ (Legacy(decl) /\ FailureLimitReached(plan))
  BY <1>4 DEF WaveInv
<1>6. Unsettled(plan) \subseteq Tests /\ Unsettled(plan') \subseteq Tests
  BY DEF Unsettled
<1>7. CASE ~Retires
  <2>1. plan' = plan /\ finalized' = finalized
    BY <1>1, <1>2, <1>7, FinalBefore
  <2>2. ~NeedsWorkerRetirement(plan)
    BY <1>7 DEF Retires
  <2>3. \A u \in SerialUnits(decl) :
         LET g == plan.group[u]
         IN /\ Started(g) => g.worker = worker /\ host # "none"
            /\ g.last <= worker /\ (g.state = "awaiting" /\ g.last = worker => host = "none")
    BY <1>4 DEF WaveInv
  <2> QED  BY <1>1, <1>4, <1>5, <1>7, <2>1, <2>2, <2>3 DEF WaveInv
<1>8. CASE Retires
  <2>1. ExitsTo(decl, plan, plan') /\ AtRest(decl, plan')
    BY <1>8, RetireExits
  <2>2. /\ TurnInv(plan')
        /\ \A t \in Tests :
             /\ t \in Unsettled(plan') => t \in Unsettled(plan)
             /\ t \in Unsettled(plan) => t \in Unsettled(plan') \/ (IsSerial(decl, Unit(decl, t)) /\ Over(plan'.group[Unit(decl, t)]))
        /\ \A v \in SerialUnits(decl) : plan'.group[v].last = plan.group[v].last
        /\ Legacy(decl) => (FailureLimitReached(plan') <=> FailureLimitReached(plan))
    BY <2>1 DEF ExitsTo
  <2>3. Coming(plan') = Unsettled(plan') /\ ~NeedsWorkerRetirement(plan')
    BY <1>3, <2>1, RestComes
  <2>4. ASSUME NEW t \in Tests, t \in Unsettled(plan') PROVE t \notin finalized'
    <3>1. t \notin finalized
      BY <1>5, <2>2, <2>4
    <3>2. InQueue(plan', t) \/ Open(plan', t)
      BY <2>3, <2>4 DEF Coming, Ahead
    <3>3. CASE IsSerial(decl, Unit(decl, t))
      <4>1. Open(plan', t)
        BY <1>3, <3>2, <3>3, NotDone
      <4> QED  BY <1>1, <1>3, <3>1, <3>3, <4>1 DEF Open, Finalized
    <3>4. CASE ~IsSerial(decl, Unit(decl, t))
      <4>1. plan'.finalized \subseteq finalized
        BY <1>3, <1>4 DEF IInv, FinalInv
      <4> QED  BY <1>1, <1>3, <3>1, <3>4, <4>1 DEF Finalized
    <3> QED  BY <3>3, <3>4
  <2>5. ASSUME NEW t \in Tests, t \notin finalized', t \in Unsettled(plan) PROVE t \in Unsettled(plan')
    <3>1. ~Finalized(plan', t)
      BY <1>1, <2>5
    <3>2. IsSerial(decl, Unit(decl, t)) => ~Legacy(decl)
      BY UnitOfTest
    <3> QED  BY <1>3, <2>2, <2>5, <3>1, <3>2 DEF Finalized
  <2>6. ASSUME NEW u \in SerialUnits(decl)
        PROVE  ~Started(plan'.group[u]) /\ plan'.group[u].last <= worker
    <3>1. plan.group[u].last <= worker
      BY <1>4 DEF WaveInv
    <3> QED  BY <2>1, <2>2, <3>1 DEF AtRest
  <2>7. (\A t \in Tests : t \in finalized' \/ t \in Unsettled(plan')) \/ (Legacy(decl) /\ FailureLimitReached(plan'))
    BY <1>1, <1>5, <2>2, <2>5
  <2> QED  BY <1>1, <1>4, <1>6, <1>8, <2>2, <2>3, <2>4, <2>6, <2>7 DEF WaveInv
<1> QED  BY <1>7, <1>8

(* Init.                                                                   *)
LEMMA WaveInit ==
  ASSUME Init
  PROVE  WaveInv
<1>1. decl \in Decls /\ plan = InitPlan(decl) /\ worker = 1 /\ at = "loop" /\ finalized = {} /\ host = "live"
  BY DEF Init
<1>2. decl.limit \in Nat
  BY <1>1, DeclFacts
<1>3. /\ TurnInv(plan) /\ AtRest(decl, plan) /\ Unsettled(plan) = Tests
      /\ plan.retiring = 0 /\ \A v \in SerialUnits(decl) : plan.group[v].last = 0
  BY <1>1, <1>2, InitTurn
<1>4. PlanInv(decl, plan) /\ plan.active = NoAttempt
  BY <1>1, InitPlanKeeps
<1>5. ~NeedsWorkerRetirement(plan)
  BY <1>3, <1>4, RestComes
<1> QED  BY <1>1, <1>3, <1>5 DEF WaveInv, AtRest, Live, Working

(* The coroutine throws or ends.                                           *)
LEMMA WaveOver ==
  ASSUME at' \in {"throw", "report", "ended"}
  PROVE  WaveInv'
BY DEF WaveInv, Live

(* A step of an attempt leaves all this alone.                             *)
Stays ==
  /\ at \in Working /\ at' \in (Working \ {"prepare"}) \cup {"throw"} /\ host' \in {"live", "exited"}
  /\ decl' = decl /\ worker' = worker /\ attempt' = attempt /\ stop' = stop /\ finalized' = finalized
  /\ plan' = plan \/ plan' = ExpectFailure(plan)
  /\ at' # "throw" => failure' = failure

(* As the steps do.                                                        *)
LEMMA WorkStays ==
  ASSUME IInv, PrepareOutput \/ BeforeAll \/ Arrive \/ StartBody \/ RunBody \/ NoBody \/ Decide \/ AfterAll
  PROVE  Stays
<1>1. at \in Working
  BY DEF Working, PrepareOutput, BeforeAll, Arrive, StartBody, RunBody, NoBody, Decide, AfterAll, Closes
<1>2. host \in {"live", "exited"}
  BY <1>1, WorkingFacts
<1>3. \A e \in Endings : e.host \in {"live", "exited"}
  BY DEF Endings
<1>4. CASE PrepareOutput
  BY <1>1, <1>4 DEF PrepareOutput, Working, planVars, reportVars, Stays
<1>5. CASE BeforeAll
  <2>1. ASSUME NEW ok \in BOOLEAN, NEW skip \in BOOLEAN, NEW r, NEW h \in {"live", "exited"}, EnterSuite(ok, skip, r, h)
        PROVE  Stays
    BY <1>1, <2>1 DEF EnterSuite, Working, reportVars, Stays
  <2>2. ASSUME UNCHANGED planVars, Throw("disagree") PROVE Stays
    BY <1>1, <1>2, <2>2 DEF Throw, planVars, reportVars, Stays
  <2> QED  BY <1>2, <1>3, <1>5, <2>1, <2>2 DEF BeforeAll
<1>6. CASE Arrive
  BY <1>1, <1>2, <1>6 DEF Arrive, Throw, Working, planVars, reportVars, Stays
<1>7. CASE StartBody \/ NoBody \/ Decide
  BY <1>1, <1>2, <1>7 DEF StartBody, NoBody, Decide, Working, planVars, reportVars, Stays
<1>8. CASE RunBody
  BY <1>1, <1>3, <1>8 DEF RunBody, Working, reportVars, Stays
<1>9. CASE AfterAll
  <2>1. ASSUME NEW ok \in BOOLEAN, NEW r, NEW h \in {"live", "exited"}, LeaveSuite(ok, r, h)
        PROVE  Stays
    BY <1>1, <1>9, <2>1 DEF LeaveSuite, AfterAll, Closes, Working, reportVars, Stays
  <2> QED  BY <1>2, <1>3, <1>9, <2>1 DEF AfterAll
<1> QED  BY <1>4, <1>5, <1>6, <1>7, <1>8, <1>9, SMTT(40), ZenonT(60)

(* Every step keeps the waves.                                             *)
LEMMA WaveNext ==
  ASSUME IInv, NestInv, WaveInv, [Next]_vars
  PROVE  WaveInv'
<1>1. CASE PrepareOutput \/ BeforeAll \/ Arrive \/ StartBody \/ RunBody \/ NoBody \/ Decide \/ AfterAll
  <2>1. Stays
    BY <1>1, WorkStays
  <2> QED  BY <2>1, WaveStays, WaveOver DEF Stays
<1>2. CASE ThrowIfStopped \/ StartThrows \/ PrepareThrows \/ DecideThrows \/ AfterAllThrows \/ LoopEnds \/ MarkUnrun
  <2>1. at' \in {"throw", "report", "ended"}
    BY <1>2 DEF ThrowIfStopped, StartThrows, PrepareThrows, DecideThrows, AfterAllThrows, LoopEnds, MarkUnrun, Throw
  <2> QED  BY <2>1, WaveOver
<1>3. CASE StartAttempt
  BY <1>3, StartStarts, WaveStart
<1>4. CASE FinishAttempt
  BY <1>4, WaveFinish
<1>5. CASE Retire
  BY <1>5, WaveRetire
<1>6. CASE RequestStop \/ UNCHANGED vars
  <2>1. UNCHANGED <<decl, plan, worker, host, at, finalized>>
    BY <1>6 DEF RequestStop, vars, planVars, reportVars
  <2> QED  BY <2>1 DEF WaveInv, Live
<1> QED  BY <1>1, <1>2, <1>3, <1>4, <1>5, <1>6 DEF Next, Runner

(* The beforeAll hooks of a suite: entered, skipped, or failed.            *)
EnterTo(ok, skip) ==
  /\ at = "enter" /\ NextOp(suites).kind = "BeforeAll" /\ NextOp(suites).test = attempt.test
  /\ suites' = IF skip THEN SkipBeforeAll(Admitted(suites)) ELSE Complete(Admitted(suites), ok)
  /\ operation' = NextOp(suites) /\ at' = IF ok THEN "enter" ELSE "run"
  /\ plan' = plan /\ failure' = failure
  /\ ok => run.ready
  /\ skip => ok
  /\ (run'.ready <=> run.ready) /\ (run'.before <=> run.before /\ ok) /\ (run'.ok <=> run.ok)
  /\ run'.cause = IF skip THEN NextOp(suites).suite ELSE run.cause
  /\ run'.skip <=> run.skip \/ skip
  /\ run'.infrastructure <=> run.infrastructure \/ ~ok
  /\ ok => (run'.timedOut <=> run.timedOut)
  /\ run'.interrupted => run.interrupted \/ stop

(* What is noted of a hook or a body, the other fields.                    *)
LEMMA NotedRest ==
  ASSUME NEW r \in RunType, NEW e \in Endings, NEW n, n = Noted(r, e)
  PROVE  /\ n.timedOut <=> r.timedOut \/ e.outcome = "timedOut"
         /\ n.interrupted => r.interrupted \/ stop
         /\ (n.skip <=> r.skip) /\ (n.infrastructure <=> r.infrastructure)
BY DEF Noted, RunType, Endings

(* EnterSuite, field by field.                                             *)
LEMMA EnterSuiteTo ==
  ASSUME at = "enter", NextOp(suites).kind = "BeforeAll", NextOp(suites).test = attempt.test,
         NEW ok \in BOOLEAN, NEW skip \in BOOLEAN, NEW r \in RunType, NEW h, EnterSuite(ok, skip, r, h),
         ok => run.ready, skip => ok, r.ready <=> run.ready, r.before <=> run.before, r.ok <=> run.ok,
         r.cause = IF skip THEN NextOp(suites).suite ELSE run.cause, r.skip <=> run.skip \/ skip,
         r.infrastructure <=> run.infrastructure, ok => (r.timedOut <=> run.timedOut),
         r.interrupted => run.interrupted \/ stop
  PROVE  EnterTo(ok, skip)
<1>1. run' = (IF ok THEN r
              ELSE [r EXCEPT !.before = FALSE, !.infrastructure = TRUE, !.suite = NextOp(suites).suite])
      /\ suites' = (IF skip THEN SkipBeforeAll(Admitted(suites)) ELSE Complete(Admitted(suites), ok))
      /\ operation' = NextOp(suites) /\ at' = (IF ok THEN "enter" ELSE "run") /\ plan' = plan /\ failure' = failure
  BY DEF EnterSuite
<1>2. /\ (run'.ready <=> r.ready) /\ (run'.before <=> r.before /\ ok) /\ (run'.ok <=> r.ok)
      /\ run'.cause = r.cause /\ (run'.skip <=> r.skip)
      /\ (run'.infrastructure <=> r.infrastructure \/ ~ok)
      /\ (run'.timedOut <=> r.timedOut) /\ (run'.interrupted <=> r.interrupted)
  BY <1>1 DEF RunType
<1> QED  BY <1>1, <1>2 DEF EnterTo

(* The suite plan never refuses to skip.                                   *)
LEMMA MaySkip ==
  ASSUME NEW s, SuiteInv(s), ~s.closing, ~s.retire, NEW o, o = NextOp(s), o.kind = "BeforeAll", NEW a, a = Admitted(s)
  PROVE  MaySkipBeforeAll(a)
<1>1. s.active \in Seq(Suites) /\ s.skip = 0 /\ o.suite \in Suites
  BY SuiteFields, NextOpFacts DEF Offered
<1>2. /\ Admits(s, a) /\ a.pending = o /\ a.exits = s.exits /\ a \in SuitePlanWith(a.pending)
      /\ a.active = IF o.kind = "BeforeAll" THEN Append(s.active, o.suite) ELSE s.active
  BY ONLY SuiteInv(s), o = NextOp(s), a = Admitted(s), AdmittedFields
<1>3. a.active = Append(s.active, o.suite)
  BY <1>2
<1>4. Last(a.active) = o.suite
  BY <1>1, <1>3 DEF Last
<1>5. ~a.retire /\ ~a.closing /\ a.skip = 0
  BY <1>1, <1>2 DEF Admits
<1> QED  BY <1>2, <1>4, <1>5 DEF MaySkipBeforeAll

(* BeforeAll is such a step.                                               *)
LEMMA BeforeAllTo ==
  ASSUME IInv, EnterStep, BeforeAll
  PROVE  \E ok, skip \in BOOLEAN : EnterTo(ok, skip)
<1>1. at = "enter" /\ NextOp(suites).kind = "BeforeAll" /\ NextOp(suites).test = attempt.test
  BY DEF BeforeAll
<1>2. run \in RunType /\ NextOp(suites).suite \in Suites
  <2>1. SuiteInv(suites) /\ run \in RunType
    BY DEF IInv, TypeInv
  <2>2. Offered(suites, NextOp(suites))
    BY <2>1, NextOpFacts
  <2> QED  BY <1>1, <2>1, <2>2 DEF Offered
<1> DEFINE suite == NextOp(suites).suite
           Goal == \E ok, skip \in BOOLEAN : EnterTo(ok, skip)
<1>4. ASSUME EnterSuite(FALSE, FALSE, run, host) PROVE Goal
  <2>1. EnterTo(FALSE, FALSE)
    BY <1>1, <1>2, <1>4, EnterSuiteTo DEF RunType
  <2> QED  BY <2>1
<1>5. ASSUME run.ready, EnterSuite(TRUE, FALSE, run, host) PROVE Goal
  <2>1. EnterTo(TRUE, FALSE)
    BY <1>1, <1>2, <1>5, EnterSuiteTo DEF RunType
  <2> QED  BY <2>1
<1>6. ASSUME NEW e \in Endings, run.ready, EnterSuite(e.outcome = "passed", FALSE, Noted(run, e), e.host)
      PROVE  Goal
  <2> DEFINE n == Noted(run, e)
             passed == e.outcome = "passed"
  <2>1. n = Noted(run, e) /\ passed \in BOOLEAN /\ (passed => e.outcome # "timedOut")
    OBVIOUS
  <2>2. EnterSuite(passed, FALSE, n, e.host)
    BY <1>6
  <2> HIDE DEF n, passed
  <2>3. /\ n \in RunType /\ n.ready = run.ready /\ n.before = run.before /\ n.suite = run.suite /\ n.cause = run.cause
        /\ n.ok = run.ok
    BY <1>2, <2>1, NotedFacts
  <2>4. /\ n.timedOut <=> run.timedOut \/ e.outcome = "timedOut"
        /\ n.interrupted => run.interrupted \/ stop
        /\ (n.skip <=> run.skip) /\ (n.infrastructure <=> run.infrastructure)
    BY <1>2, <2>1, NotedRest
  <2>5. EnterTo(passed, FALSE)
    BY ZenonT(40), <1>1, <1>6, <2>1, <2>2, <2>3, <2>4, EnterSuiteTo
  <2> QED  BY <2>1, <2>5
<1>7. ASSUME NEW e \in Endings, run.ready, e.outcome = "skipped",
             EnterSuite(TRUE, TRUE, [Noted(run, e) EXCEPT !.skip = TRUE, !.cause = suite], e.host)
      PROVE  Goal
  <2> DEFINE n == Noted(run, e)
             m == [n EXCEPT !.skip = TRUE, !.cause = suite]
  <2>1. n = Noted(run, e) /\ m = [n EXCEPT !.skip = TRUE, !.cause = suite]
    OBVIOUS
  <2>2. EnterSuite(TRUE, TRUE, m, e.host)
    BY <1>7
  <2> HIDE DEF n, m
  <2>3. /\ n \in RunType /\ n.ready = run.ready /\ n.before = run.before /\ n.suite = run.suite /\ n.cause = run.cause
        /\ n.ok = run.ok
    BY <1>2, <2>1, NotedFacts
  <2>4. /\ n.timedOut <=> run.timedOut
        /\ n.interrupted => run.interrupted \/ stop
        /\ (n.skip <=> run.skip) /\ (n.infrastructure <=> run.infrastructure)
    BY <1>2, <1>7, <2>1, NotedRest
  <2>5. m \in RunType
    BY <1>2, <2>1, <2>3 DEF RunType
  <2>6. /\ m.ready = n.ready /\ m.before = n.before /\ m.suite = n.suite /\ m.ok = n.ok /\ m.cause = suite /\ m.skip
        /\ m.timedOut = n.timedOut /\ m.interrupted = n.interrupted /\ m.infrastructure = n.infrastructure
    BY <2>1, <2>3 DEF RunType
  <2>7. EnterTo(TRUE, TRUE)
    BY <1>1, <1>7, <2>2, <2>3, <2>4, <2>5, <2>6, EnterSuiteTo
  <2> QED  BY <2>7
<1> HIDE DEF Goal
<1>8. MaySkipBeforeAll(Admitted(suites))
  BY <1>1, MaySkip DEF IInv, EnterStep
<1>9. \/ EnterSuite(FALSE, FALSE, run, host)
      \/ run.ready /\ EnterSuite(TRUE, FALSE, run, host)
      \/ \E e \in Endings :
           run.ready /\ IF e.outcome # "skipped" THEN EnterSuite(e.outcome = "passed", FALSE, Noted(run, e), e.host)
                        ELSE EnterSuite(TRUE, TRUE, [Noted(run, e) EXCEPT !.skip = TRUE, !.cause = suite], e.host)
  BY <1>8 DEF BeforeAll
<1>10. Goal
  BY ONLY <1>4, <1>5, <1>6, <1>7, <1>9
<1> QED  BY <1>10 DEF Goal

(* The afterAll hooks of a suite.                                          *)
LeaveTo(ok) ==
  /\ Closes /\ NextOp(suites).kind = "AfterAll" /\ suites' = Complete(Admitted(suites), ok)
  /\ at' = "close" /\ operation' = operation /\ plan' = plan
  /\ (run'.ready <=> run.ready) /\ run'.cause = run.cause /\ (run'.skip <=> run.skip)
  /\ run'.ok <=> run.ok /\ ok
  /\ run'.infrastructure <=> run.infrastructure \/ ~ok
  /\ ok => (run'.timedOut <=> run.timedOut)
  /\ run'.interrupted => run.interrupted \/ stop

(* LeaveSuite, field by field.                                             *)
LEMMA LeaveSuiteTo ==
  ASSUME Closes, NextOp(suites).kind = "AfterAll", NEW ok \in BOOLEAN, NEW r \in RunType, NEW h, LeaveSuite(ok, r, h),
         r.ready <=> run.ready, r.ok <=> run.ok, r.cause = run.cause, r.skip <=> run.skip,
         r.infrastructure <=> run.infrastructure, ok => (r.timedOut <=> run.timedOut),
         r.interrupted => run.interrupted \/ stop
  PROVE  LeaveTo(ok)
<1>1. run' = [r EXCEPT !.ok = @ /\ ok, !.infrastructure = @ \/ ~ok]
      /\ suites' = Complete(Admitted(suites), ok) /\ operation' = operation /\ at' = at /\ plan' = plan
  BY DEF LeaveSuite
<1>2. at = "close"
  BY DEF Closes
<1>3. /\ (run'.ready <=> r.ready) /\ (run'.ok <=> r.ok /\ ok) /\ run'.cause = r.cause /\ (run'.skip <=> r.skip)
      /\ (run'.infrastructure <=> r.infrastructure \/ ~ok)
      /\ (run'.timedOut <=> r.timedOut) /\ (run'.interrupted <=> r.interrupted)
  BY <1>1 DEF RunType
<1> QED  BY <1>1, <1>2, <1>3 DEF LeaveTo

(* AfterAll is such a step.                                                *)
LEMMA AfterAllTo ==
  ASSUME IInv, AfterAll
  PROVE  \E ok \in BOOLEAN : LeaveTo(ok)
<1>1. Closes /\ NextOp(suites).kind = "AfterAll" /\ run \in RunType
  BY DEF AfterAll, IInv, TypeInv
<1> DEFINE Goal == \E ok \in BOOLEAN : LeaveTo(ok)
<1>2. ASSUME NEW ok \in BOOLEAN, LeaveSuite(ok, run, host) PROVE Goal
  <2>1. LeaveTo(ok)
    BY <1>1, <1>2, LeaveSuiteTo
  <2> QED  BY <2>1
<1>3. ASSUME NEW e \in Endings, LeaveSuite(e.outcome = "passed", Noted(run, e), e.host) PROVE Goal
  <2> DEFINE n == Noted(run, e)
             passed == e.outcome = "passed"
  <2>1. n = Noted(run, e) /\ passed \in BOOLEAN /\ (passed => e.outcome # "timedOut")
    OBVIOUS
  <2>2. LeaveSuite(passed, n, e.host)
    BY <1>3
  <2> HIDE DEF n, passed
  <2>3. /\ n \in RunType /\ n.ready = run.ready /\ n.cause = run.cause /\ n.ok = run.ok
    BY <1>1, <2>1, NotedFacts
  <2>4. /\ n.timedOut <=> run.timedOut \/ e.outcome = "timedOut"
        /\ n.interrupted => run.interrupted \/ stop
        /\ (n.skip <=> run.skip) /\ (n.infrastructure <=> run.infrastructure)
    BY <1>1, <2>1, NotedRest
  <2>5. LeaveTo(passed)
    BY <1>1, <2>1, <2>2, <2>3, <2>4, LeaveSuiteTo
  <2> QED  BY <2>1, <2>5
<1> HIDE DEF Goal
<1>4. \/ \E ok \in BOOLEAN : LeaveSuite(ok, run, host)
      \/ \E e \in Endings : LeaveSuite(e.outcome = "passed", Noted(run, e), e.host)
  BY DEF AfterAll
<1>5. Goal
  BY ONLY <1>2, <1>3, <1>4
<1> QED  BY <1>5 DEF Goal

(* A body has ended.                                                       *)
BodyTo ==
  /\ at = "body" /\ at' = "decide" /\ operation' = operation
  /\ plan' = plan \/ plan' = ExpectFailure(plan)
  /\ suites' = Complete(suites, IF InSerialGroup(attempt.test) THEN SerialExpected(plan', run') ELSE run'.ok)
  /\ (run'.ready <=> run.ready) /\ run'.cause = run.cause /\ run' \in RunType
  /\ run'.skip => run'.ok
  /\ run'.ok => (run'.timedOut <=> run.timedOut) /\ (run'.infrastructure <=> run.infrastructure)
  /\ run'.interrupted => run.interrupted \/ stop

(* RunBody is such a step.                                                 *)
LEMMA RunBodyTo ==
  ASSUME IInv, RunBody
  PROVE  BodyTo
<1>1. at = "body" /\ at' = "decide" /\ operation' = operation /\ run \in RunType
  BY DEF RunBody, IInv, TypeInv
<1>2. PICK e \in Endings, p \in {plan, ExpectFailure(plan)} :
        LET r == [Noted(run, e) EXCEPT
                      !.ok = e.outcome \in {"passed", "skipped"}, !.skip = e.outcome = "skipped",
                      !.infrastructure = @ \/ e.outcome = "gone"]
              ok == IF InSerialGroup(attempt.test) THEN SerialExpected(p, r) ELSE r.ok
        IN plan' = p /\ run' = r /\ suites' = Complete(suites, ok)
  BY DEF RunBody
<1> DEFINE n == Noted(run, e)
<1>3. n = Noted(run, e) /\ run' = [n EXCEPT
                      !.ok = e.outcome \in {"passed", "skipped"}, !.skip = e.outcome = "skipped",
                      !.infrastructure = @ \/ e.outcome = "gone"]
  BY <1>2
<1>4. suites' = Complete(suites, IF InSerialGroup(attempt.test) THEN SerialExpected(plan', run') ELSE run'.ok)
      /\ (plan' = plan \/ plan' = ExpectFailure(plan))
  BY <1>2
<1> HIDE DEF n
<1>5. n \in RunType /\ n.ready = run.ready /\ n.cause = run.cause /\ n.ok = run.ok
  BY <1>1, <1>3, NotedFacts
<1>6. /\ n.timedOut <=> run.timedOut \/ e.outcome = "timedOut"
      /\ n.interrupted => run.interrupted \/ stop
      /\ n.infrastructure <=> run.infrastructure
  BY <1>1, <1>3, NotedRest
<1>7. /\ run' \in RunType /\ run'.ready = n.ready /\ run'.cause = n.cause /\ run'.timedOut = n.timedOut
      /\ run'.interrupted = n.interrupted
  <2> DEFINE a == e.outcome \in {"passed", "skipped"}
             b == e.outcome = "skipped"
             c == n.infrastructure \/ e.outcome = "gone"
  <2>1. a \in BOOLEAN /\ b \in BOOLEAN /\ c \in BOOLEAN /\ run' = [n EXCEPT !.ok = a, !.skip = b, !.infrastructure = c]
    BY <1>3
  <2> HIDE DEF a, b, c
  <2>2. run' \in RunType
    BY <1>5, <2>1, SMTT(40), ZenonT(60) DEF RunType
  <2> QED  BY <1>5, <2>1, <2>2 DEF RunType
<1>8. /\ run'.ok <=> e.outcome \in {"passed", "skipped"}
      /\ run'.skip <=> e.outcome = "skipped"
      /\ run'.infrastructure <=> n.infrastructure \/ e.outcome = "gone"
  <2>1. /\ run'.ok = (e.outcome \in {"passed", "skipped"}) /\ run'.skip = (e.outcome = "skipped")
        /\ run'.infrastructure = (n.infrastructure \/ e.outcome = "gone")
    BY <1>3, <1>5 DEF RunType
  <2> QED  BY <2>1
<1>9. /\ run'.skip => run'.ok
      /\ run'.ok => (run'.timedOut <=> run.timedOut) /\ (run'.infrastructure <=> run.infrastructure)
  BY <1>6, <1>7, <1>8
<1> QED  BY <1>1, <1>4, <1>5, <1>6, <1>7, <1>9 DEF BodyTo

(* What is known of the attempt: the hooks and the test.                   *)
LEMMA KnownWorks ==
  ASSUME IInv, KnownInv, at = "enter" => EnterStep,
         PrepareOutput \/ BeforeAll \/ Arrive \/ StartBody \/ RunBody \/ NoBody \/ Decide \/ AfterAll
  PROVE  KnownInv'
<1>1. Stays
  BY WorkStays
<1>2. /\ at \in Working /\ stop' = stop /\ run \in RunType /\ SuiteInv(suites)
      /\ run.before => run.ready
      /\ at = "body" => run.before /\ run.cause = 0
      /\ at = "prepare" => run = InitRun
  BY <1>1 DEF Stays, IInv, TypeInv, DriveInv
<1>3. Offered(suites, NextOp(suites))
  BY <1>2, NextOpFacts
<1>4. CASE at' = "throw"
  <2>1. run' = run
    BY <1>2, <1>4 DEF PrepareOutput, BeforeAll, EnterSuite, Arrive, StartBody, RunBody, NoBody, Decide, AfterAll, LeaveSuite, Throw, Working
  <2> QED  BY <1>2, <1>4, <2>1, SMTT(40), ZenonT(60) DEF KnownInv, Working
<1>5. CASE PrepareOutput
  <2>1. PICK ready \in BOOLEAN, timedOut \in BOOLEAN :
          /\ ready => ~timedOut
          /\ run' = [run EXCEPT !.ready = ready, !.before = ready, !.infrastructure = ~ready,
                             !.timedOut = timedOut, !.interrupted = ~ready /\ stop]
          /\ at = "prepare" /\ at' = "enter" /\ operation' = operation
    BY <1>5 DEF PrepareOutput
  <2>2. run = InitRun
    BY <1>2, <2>1
  <2>3. /\ run'.cause = 0 /\ (run'.ready <=> ready) /\ (run'.before <=> ready) /\ (run'.infrastructure <=> ~ready)
        /\ (run'.timedOut <=> timedOut) /\ (run'.interrupted <=> ~ready /\ stop) /\ ~run'.ok
    BY <1>2, <2>1, <2>2 DEF InitRun, RunType
  <2> QED  BY <1>2, <2>1, <2>3 DEF KnownInv
<1>6. CASE BeforeAll
  <2>1. at = "enter"
    BY <1>6 DEF BeforeAll
  <2>2. PICK ok \in BOOLEAN, skip \in BOOLEAN : EnterTo(ok, skip)
    BY <1>6, <2>1, BeforeAllTo
  <2>3. operation'.skipped = {}
    BY <1>3, <2>2 DEF EnterTo, Offered
  <2> QED  BY <1>2, <2>2, <2>3 DEF EnterTo, KnownInv, Working
<1>7. CASE Arrive /\ at' # "throw"
  <2>1. /\ at = "enter" /\ at' = "run" /\ run' = run /\ operation' = NextOp(suites)
        /\ NextOp(suites).kind \in {"Test", "SkippedTest"}
    BY <1>7 DEF Arrive, Throw
  <2>2. run.cause = 0 => operation'.skipped = {}
    BY <1>2, <1>3, <2>1 DEF Offered, EnterStep, SkipStep, SuiteInv
  <2> QED  BY <1>2, <2>1, <2>2 DEF KnownInv, Working
<1>8. CASE StartBody \/ Decide
  <2>1. UNCHANGED <<run, operation>> /\ ((at = "run" /\ at' = "body") \/ (at = "decide" /\ at' = "close"))
    BY <1>8 DEF StartBody, Decide
  <2> QED  BY <1>2, <2>1 DEF KnownInv, Working
<1>9. CASE RunBody
  <2>1. BodyTo
    BY <1>9, RunBodyTo
  <2> QED  BY <1>2, <2>1 DEF BodyTo, KnownInv, Working
<1>10. CASE NoBody
  <2>1. PICK clean \in BOOLEAN : /\ at = "run" /\ at' = "decide" /\ operation' = operation
                                 /\ run' = [run EXCEPT !.ok = run.before /\ clean]
    BY <1>10 DEF NoBody
  <2>2. /\ run'.cause = run.cause /\ run'.ready = run.ready /\ run'.skip = run.skip
        /\ run'.infrastructure = run.infrastructure /\ run'.timedOut = run.timedOut /\ run'.interrupted = run.interrupted
    BY <1>2, <2>1 DEF RunType
  <2>3. run'.ok <=> run.before /\ clean
    <3>1. run'.ok = (run.before /\ clean)
      BY <1>2, <2>1 DEF RunType
    <3> QED  BY <3>1
  <2> QED  BY <1>2, <2>1, <2>2, <2>3 DEF KnownInv, Working
<1>11. CASE AfterAll
  <2>1. PICK ok \in BOOLEAN : LeaveTo(ok)
    BY <1>11, AfterAllTo
  <2> QED  BY <1>2, <2>1 DEF LeaveTo, Closes, KnownInv, Working
<1> QED  BY <1>4, <1>5, <1>6, <1>7, <1>8, <1>9, <1>10, <1>11

(* Every step keeps what is known of the attempt.                          *)
LEMMA KnownNext ==
  ASSUME IInv, WaveInv, KnownInv, StepInv, [Next]_vars
  PROVE  KnownInv'
<1>1. CASE PrepareOutput \/ BeforeAll \/ Arrive \/ StartBody \/ RunBody \/ NoBody \/ Decide \/ AfterAll
  BY <1>1, KnownWorks DEF StepInv
<1>2. CASE ThrowIfStopped \/ StartThrows \/ PrepareThrows \/ DecideThrows \/ AfterAllThrows \/ LoopEnds \/ MarkUnrun \/ Retire
  <2>1. at' \in {"throw", "report", "ended", "loop"} /\ run' = run /\ stop' = stop
    BY <1>2 DEF ThrowIfStopped, StartThrows, PrepareThrows, DecideThrows, AfterAllThrows, LoopEnds, MarkUnrun, Retire, Throw
  <2> QED  BY <2>1 DEF KnownInv, Working
<1>3. CASE StartAttempt
  <2>1. Starts
    BY <1>3, StartStarts
  <2>2. at' = "prepare" /\ run' = InitRun
    BY <2>1 DEF Starts
  <2> QED  BY <2>2 DEF KnownInv, Working, InitRun
<1>4. CASE FinishAttempt
  <2>1. Ends
    BY <1>4, FinishEnds
  <2>2. at' = "retire" /\ run' = EndRun /\ stop' = stop /\ run \in RunType
    BY <2>1 DEF Ends, IInv, TypeInv
  <2>3. run'.interrupted => run.interrupted \/ stop
    BY <2>2 DEF EndRun, RunType
  <2> QED  BY <2>2, <2>3 DEF KnownInv, Working
<1>5. CASE RequestStop \/ UNCHANGED vars
  <2>1. UNCHANGED <<at, run, operation>> /\ (stop => stop')
    BY <1>5 DEF RequestStop, vars
  <2> QED  BY <2>1 DEF KnownInv
<1> QED  BY <1>1, <1>2, <1>3, <1>4, <1>5 DEF Next, Runner

-----------------------------------------------------------------------------
(* The suite plan's routes and the retry plan's turns.                     *)

(* The test of the current route, and what is to come after it.            *)
LEMMA RestLater ==
  ASSUME NEW s, SuiteInv(s), s.index <= Len(s.routes)
  PROVE  /\ Rest(s) = {s.routes[s.index].test} \cup Later(s) /\ s.routes[s.index].test \notin Later(s)
         /\ s.routes # <<>> /\ s.routes[s.index].test \in Tests
<1>1. s.index \in Nat /\ s.index >= 1 /\ Len(s.routes) \in Nat /\ s.index \in 1 .. Len(s.routes)
  BY SuiteFields
<1>2. \A j : j \in s.index .. Len(s.routes) <=> j = s.index \/ j \in s.index + 1 .. Len(s.routes)
  BY <1>1
<1>3. Rest(s) = {s.routes[s.index].test} \cup Later(s)
  BY <1>2 DEF Rest, Later
<1>4. s.routes[s.index].test \notin Later(s)
  BY <1>1, CurrentRoute
<1>5. s.routes # <<>> /\ s.routes[s.index].test \in Tests
  <2>1. Len(s.routes) # 0
    BY <1>1
  <2> QED  BY <1>1, <2>1, SuiteFields
<1> QED  BY <1>3, <1>4, <1>5

(* The route before which nothing is to come is the current one.           *)
LEMMA FirstRoute ==
  ASSUME NEW d \in Decls, NEW s, SuiteInv(s), PathInv(d, s), NEW t \in Rest(s), \A x \in Rest(s) : t <= x
  PROVE  s.index <= Len(s.routes) /\ s.routes[s.index].test = t /\ Later(s) = Rest(s) \ {t} /\ s.routes # <<>>
<1>1. s.index \in Nat /\ s.index >= 1 /\ Len(s.routes) \in Nat
  BY SuiteFields
<1>2. PICK j \in s.index .. Len(s.routes) : t = s.routes[j].test
  BY DEF Rest
<1>3. j \in Nat /\ s.index <= j /\ j <= Len(s.routes) /\ s.index <= Len(s.routes)
      /\ j \in 1 .. Len(s.routes) /\ s.index \in 1 .. Len(s.routes)
  BY <1>1, <1>2
<1>4. /\ Rest(s) = {s.routes[s.index].test} \cup Later(s) /\ s.routes[s.index].test \notin Later(s) /\ s.routes # <<>>
  BY <1>3, RestLater
<1>5. s.routes[s.index].test \in Nat /\ s.routes[j].test \in Nat
  BY <1>3, SuiteFields, TestNumbers
<1>6. s.index < j => s.routes[s.index].test < s.routes[j].test
  BY <1>3 DEF PathInv, RoutesInv
<1>7. j = s.index
  <2>1. t <= s.routes[s.index].test
    BY <1>4
  <2> QED  BY <1>1, <1>2, <1>3, <1>5, <1>6, <2>1
<1> QED  BY <1>2, <1>3, <1>4, <1>7

(* Tests between which the group does not change are of one unit.          *)
LEMMA SameUnit ==
  ASSUME NEW d, NEW t \in Tests, NEW v \in Tests, t <= v, \A w \in t .. v : GroupSuite(d, w) = GroupSuite(d, t)
  PROVE  Unit(d, v) = Unit(d, t)
<1> DEFINE a == Unit(d, t)
           b == Unit(d, v)
           S == {i \in 1 .. v : \A j \in i .. v : GroupSuite(d, j) = GroupSuite(d, v)}
<1>1. t \in Nat /\ v \in Nat /\ \A s \in 1 .. v : s \in Tests
  BY TestNumbers
<1>2. a \in Tests /\ a <= t /\ GroupSuite(d, a) = GroupSuite(d, t) /\ \A s \in a .. t : Unit(d, s) = a
  BY UnitFacts
<1>3. b \in Tests /\ b <= v /\ \A s \in b .. v : Unit(d, s) = b
  BY UnitFacts
<1>4. a \in Nat /\ a >= 1 /\ b \in Nat /\ b >= 1
  BY <1>2, <1>3, TestNumbers
<1> HIDE DEF a
<1>5. v \in t .. v
  BY <1>1
<1>6. GroupSuite(d, v) = GroupSuite(d, t)
  BY <1>5
<1>7. ASSUME NEW j \in a .. v PROVE GroupSuite(d, j) = GroupSuite(d, v)
  <2>1. j \in Nat /\ a <= j /\ j <= v
    BY <1>1, <1>4
  <2>2. CASE j <= t
    <3>1. j \in a .. t /\ j \in 1 .. v
      BY <1>1, <1>4, <2>1, <2>2
    <3>2. j \in Tests /\ Unit(d, j) = a
      BY <1>1, <1>2, <3>1
    <3>3. GroupSuite(d, j) = GroupSuite(d, Unit(d, j))
      BY <3>2, UnitFacts
    <3> QED  BY <1>2, <1>6, <3>2, <3>3
  <2>3. CASE ~(j <= t)
    <3>1. j \in t .. v
      BY <1>1, <2>1, <2>3
    <3> QED  BY <1>6, <3>1
  <2> QED  BY <2>2, <2>3
<1>8. a \in S
  BY <1>1, <1>2, <1>4, <1>7
<1>9. b = Min(S)
  BY DEF Unit
<1>10. \A i \in S : i \in Nat
  OBVIOUS
<1> HIDE DEF S, b
<1>11. b <= a
  BY <1>8, <1>9, <1>10, MinIsMember
<1>12. t \in b .. v
  BY <1>1, <1>2, <1>3, <1>4, <1>11
<1>13. Unit(d, t) = b
  BY <1>3, <1>12
<1> QED  BY <1>13 DEF a, b

(* Two tests that share a serial suite are of one group.                   *)
LEMMA SameGroupSuite ==
  ASSUME NEW d \in Decls, NEW t \in Tests, NEW w \in Tests, NEW i \in 1 .. Len(d.ancestors[t]), i \in 1 .. Len(d.ancestors[w]),
         \A j \in 1 .. i : d.ancestors[w][j] = d.ancestors[t][j], d.ancestors[t][i] \in d.serial
  PROVE  GroupSuite(d, w) = GroupSuite(d, t)
<1> DEFINE St == {k \in DOMAIN d.ancestors[t] : d.ancestors[t][k] \in d.serial}
           Sw == {k \in DOMAIN d.ancestors[w] : d.ancestors[w][k] \in d.serial}
           m == Min(St)
           n == Min(Sw)
<1>1. DOMAIN d.ancestors[t] = 1 .. Len(d.ancestors[t]) /\ DOMAIN d.ancestors[w] = 1 .. Len(d.ancestors[w])
      /\ Len(d.ancestors[t]) \in Nat /\ Len(d.ancestors[w]) \in Nat /\ i \in Nat
  BY PathFacts
<1>2. i \in 1 .. i
  BY <1>1
<1>3. i \in St /\ i \in Sw
  BY <1>1, <1>2
<1>4. \A k \in St \cup Sw : k \in Nat /\ k >= 1
  BY <1>1
<1>5. \A k \in St \cup Sw : k <= i => (k \in St <=> k \in Sw) /\ d.ancestors[w][k] = d.ancestors[t][k]
  BY <1>1, <1>4
<1>6. GroupSuite(d, t) = d.ancestors[t][m] /\ GroupSuite(d, w) = d.ancestors[w][n]
  BY <1>3 DEF GroupSuite
<1> HIDE DEF St, Sw
<1>7. m \in St /\ \A k \in St : m <= k
  BY <1>3, <1>4, MinIsMember
<1>8. n \in Sw /\ \A k \in Sw : n <= k
  BY <1>3, <1>4, MinIsMember
<1> HIDE DEF m, n
<1>9. m \in Nat /\ n \in Nat /\ m <= i /\ n <= i
  BY <1>3, <1>4, <1>7, <1>8
<1>10. m \in Sw /\ n \in St /\ d.ancestors[w][m] = d.ancestors[t][m]
  BY <1>5, <1>7, <1>8, <1>9
<1>11. m = n
  BY <1>7, <1>8, <1>9, <1>10
<1> QED  BY <1>6, <1>10, <1>11

(* So are the tests between them.                                          *)
LEMMA SharedGroup ==
  ASSUME NEW d \in Decls, NEW t \in Tests, NEW v \in Tests, t <= v, NEW i \in 1 .. Len(d.ancestors[t]),
         d.ancestors[t][i] \in d.serial, Has(d.ancestors[v], d.ancestors[t][i])
  PROVE  Unit(d, v) = Unit(d, t)
<1>1. t \in Nat /\ v \in Nat /\ \A w \in t .. v : w \in Tests
  BY TestNumbers
<1>2. \A w \in t .. v : Has(d.ancestors[w], d.ancestors[t][i])
  BY SharedPath
<1>3. ASSUME NEW w \in t .. v PROVE GroupSuite(d, w) = GroupSuite(d, t)
  <2>1. w \in Tests
    BY <1>1
  <2>2. Has(d.ancestors[w], d.ancestors[t][i])
    BY <1>2
  <2>3. i \in 1 .. Len(d.ancestors[w]) /\ \A j \in 1 .. i : d.ancestors[w][j] = d.ancestors[t][j]
    BY <2>1, <2>2, SharedPath
  <2> QED  BY <2>1, <2>3, SameGroupSuite
<1> QED  BY <1>3, SameUnit

(* The last member of a group leaves the group's suite.                    *)
LEMMA LastFinishes ==
  ASSUME NEW d \in Decls, NEW s, SuiteInv(s), PathInv(d, s), s.index <= Len(s.routes), s.pending # NoOp, s.skip = 0,
         NEW p, PlanInv(d, p), NEW t, t = s.routes[s.index].test, Later(s) \subseteq Coming(p),
         IsSerial(d, Unit(d, t)), LastInSerialGroup(p, t)
  PROVE  s.routes[s.index].finish # 0
<1> DEFINE r == s.routes[s.index]
           A == d.ancestors[t]
           u == Unit(d, t)
<1>1. SUFFICES ASSUME r.finish = 0 PROVE FALSE
  OBVIOUS
<1>2. /\ s.index \in 1 .. Len(s.routes) /\ s.index \in Nat /\ Len(s.routes) \in Nat /\ t \in Tests
      /\ RouteInv(d, s, s.index) /\ OnRoute(d, s, r) /\ p.decl = d
  BY OnCurrent, PlanFields
<1>3. ~s.closing /\ ~s.retire
  BY SMTT(40), ZenonT(60) DEF PathInv, OnPath
<1>4. r.ancestors = A
  BY <1>2, <1>3 DEF OnRoute
<1>5. A \in Seq(Suites) /\ Len(A) \in Nat /\ DOMAIN A = 1 .. Len(A)
  BY <1>2, PathFacts, SMTT(40), ZenonT(60)
<1>6. PICK i \in 1 .. Len(A) : A[i] \in d.serial
  <2>1. GroupSuite(d, t) # 0
    BY <1>2, UnitFacts, SMTT(40), ZenonT(60) DEF IsSerial
  <2>2. {k \in DOMAIN A : A[k] \in d.serial} # {}
    BY <2>1, SMTT(40), ZenonT(60) DEF GroupSuite
  <2> QED  BY <1>5, <2>2
<1>7. PICK k \in s.index + 1 .. Len(s.routes) : Has(d.ancestors[s.routes[k].test], A[i])
  <2>1. \A j \in 1 .. Len(A) :
          j <= Len(A) - 0 <=> \E k \in s.index + 1 .. Len(s.routes) : Has(d.ancestors[s.routes[k].test], A[j])
    BY <1>1, <1>2, <1>4 DEF RouteInv
  <2>2. i <= Len(A) - 0
    BY <1>5, <1>6, SMTT(40), ZenonT(60)
  <2> QED  BY <1>6, <2>1, <2>2, SMTT(40), ZenonT(60)
<1> DEFINE v == s.routes[k].test
<1>8. k \in 1 .. Len(s.routes) /\ s.index < k
  BY <1>2, <1>7
<1>9. v \in Tests /\ t < v /\ v \in Later(s)
  <2>1. v \in Tests
    BY <1>8, SuiteFields
  <2>2. t < v
    BY <1>2, <1>8, SMTT(40), ZenonT(60) DEF PathInv, RoutesInv
  <2>3. v \in Later(s)
    BY <1>7 DEF Later
  <2> QED  BY <2>1, <2>2, <2>3
<1> HIDE DEF r
<1>10. t \in Nat /\ v \in Nat
  BY <1>2, <1>9, TestNumbers, SMTT(40), ZenonT(60)
<1>11. Has(d.ancestors[v], A[i])
  BY <1>7, SMTT(40), ZenonT(60)
<1> HIDE DEF v
<1>14. Unit(d, v) = u
  <2>1. t <= v
    BY <1>9, <1>10, SMTT(40), ZenonT(60)
  <2> QED  BY <1>2, <1>6, <1>9, <1>11, <2>1, SharedGroup
<1>15. v \in Members(d, u) \ p.group[u].excluded
  <2>1. InQueue(p, v) \/ Ahead(p, v)
    BY <1>9 DEF Coming
  <2>2. InQueue(p, v) => ~IsSerial(d, Unit(d, v))
    BY <1>9, NotDone
  <2>3. Open(p, v)
    BY <1>14, <2>1, <2>2, SMTT(40), ZenonT(60) DEF Ahead
  <2> QED  BY <1>2, <1>9, <1>14, <2>3 DEF Open, Members
<1> DEFINE S == Members(d, u) \ p.group[u].excluded
<1>16. t = Max(S)
  BY <1>2, SMTT(40), ZenonT(60) DEF LastInSerialGroup
<1>17. (\A x \in S : x \in Nat) /\ IsFiniteSet(S)
  <2>1. u \in Units(d)
    BY <1>2, UnitOfTest
  <2>2. Members(d, u) \subseteq Tests /\ IsFiniteSet(Members(d, u))
    BY <2>1, MemberFacts, SMTT(40), ZenonT(60)
  <2>3. IsFiniteSet(S)
    BY SMTT(40), <2>2, FS_Subset
  <2> QED  BY <2>2, <2>3, TestNumbers
<1>18. v \in S
  BY <1>15
<1> HIDE DEF S
<1>19. v <= t
  BY <1>16, <1>17, <1>18, MaxIsMember
<1> QED  BY <1>9, <1>10, <1>19

(* Without a suite plan, all that is not final is to come.                 *)
LEMMA FreshComes ==
  ASSUME IInv, WaveInv, at = "loop", AtRest(decl, plan), Coming(plan) # {}
  PROVE  Coming(plan) = Tests \ finalized
<1>1. PlanInv(decl, plan) /\ plan.active = NoAttempt /\ plan.decl = decl
  BY PlanFields DEF IInv, AttemptInv
<1>2. /\ TurnInv(plan) /\ \A t \in Unsettled(plan) : t \notin finalized
      /\ (\A t \in Tests : t \in finalized \/ t \in Unsettled(plan)) \/ (Legacy(decl) /\ FailureLimitReached(plan))
  BY DEF WaveInv, Live
<1>3. Coming(plan) = Unsettled(plan)
  BY <1>1, RestComes
<1>4. ~(Legacy(decl) /\ FailureLimitReached(plan))
  <2>1. SUFFICES ASSUME Legacy(decl), FailureLimitReached(plan) PROVE FALSE
    OBVIOUS
  <2>2. plan.queue = <<>>
    BY <1>1, <1>2, <2>1 DEF TurnInv, LimitInv
  <2>3. ASSUME NEW t \in Tests PROVE ~InQueue(plan, t) /\ ~Ahead(plan, t)
    <3>1. Len(plan.queue) = 0
      BY <2>2
    <3>2. ~IsSerial(decl, Unit(decl, t))
      BY <2>1, UnitOfTest
    <3> QED  BY <1>1, <3>1, <3>2 DEF InQueue, Ahead, Open
  <2> QED  BY <2>3 DEF Coming
<1>5. Unsettled(plan) \subseteq Tests
  BY DEF Unsettled
<1> QED  BY <1>2, <1>3, <1>4, <1>5

(* StartAttempt: the attempt's test is the one on the current route.       *)
LEMMA StepStart ==
  ASSUME IInv, NestInv, WaveInv, StepInv, Starts
  PROVE  StepInv'
<1> DEFINE t == plan'.active.test
<1>1. /\ at = "loop" /\ ~Done(plan) /\ plan' = NextAttempt(plan, StartWorker) /\ at' = "prepare" /\ attempt' = plan'.active
      /\ suites' = (IF suites = NoSuites THEN InitSuitePlan(decl, Tests \ finalized) ELSE suites) /\ decl' = decl
  BY DEF Starts
<1>2. decl \in Decls /\ finalized \subseteq Tests /\ SuiteInv(suites) /\ PathInv(decl, suites)
  BY DEF IInv, TypeInv, NestInv
<1>3. t \in Coming(plan) /\ (\A s \in Coming(plan) : t <= s) /\ Coming(plan') = Coming(plan) \ {t}
  <2>1. TurnsTo(plan, plan')
    BY <1>1, StartPicks
  <2> QED  BY <2>1 DEF TurnsTo
<1>4. IF suites = NoSuites THEN AtRest(decl, plan) ELSE Agree
  BY <1>1 DEF StepInv
<1>5. SuiteInv(suites') /\ PathInv(decl, suites') /\ Idle(suites') /\ Rest(suites') = Coming(plan)
  <2>1. CASE suites = NoSuites
    <3> DEFINE selected == Tests \ finalized
    <3>1. Coming(plan) = selected
      BY <1>1, <1>3, <1>4, <2>1, FreshComes
    <3>2. suites' = InitSuitePlan(decl, selected) /\ selected \in SUBSET Tests
      BY <1>1, <2>1
    <3> HIDE DEF selected
    <3>3. SuiteInv(suites')
      BY <1>2, <3>2, FreshSuites
    <3>4. PathInv(decl, suites') /\ Rest(suites') = selected /\ Idle(suites')
      BY <1>2, <3>2, FreshPath
    <3> QED  BY <3>1, <3>3, <3>4
  <2>2. CASE suites # NoSuites
    BY <1>1, <1>2, <1>4, <2>2 DEF Agree
  <2> QED  BY <2>1, <2>2
<1> HIDE DEF t
<1>6. /\ suites'.index <= Len(suites'.routes) /\ suites'.routes[suites'.index].test = t
      /\ Later(suites') = Rest(suites') \ {t} /\ suites'.routes # <<>>
  BY <1>2, <1>3, <1>5, FirstRoute
<1>7. OnTest'
  BY <1>1, <1>6 DEF OnTest, t
<1>8. Later(suites') = Coming(plan')
  BY <1>3, <1>5, <1>6
<1> QED  BY <1>1, <1>5, <1>6, <1>7, <1>8 DEF StepInv, Working

(* PrepareOutput.                                                          *)
LEMMA StepPrepare ==
  ASSUME IInv, StepInv, PrepareOutput
  PROVE  StepInv'
<1>1. at = "prepare" /\ at' = "enter" /\ UNCHANGED <<decl, plan, suites, attempt>>
  BY DEF PrepareOutput, planVars
<1>2. suites.routes # <<>> /\ Idle(suites) /\ OnTest /\ Later(suites) = Coming(plan)
  BY <1>1 DEF StepInv, Working
<1>3. suites.skipped = {} /\ suites.skip = 0
  BY <1>2 DEF IInv, SuiteInv, Idle
<1>4. OnTest' /\ SkipStep'
  BY <1>1, <1>2, <1>3 DEF OnTest, SkipStep
<1>5. ~suites'.closing /\ ~suites'.retire /\ suites'.pending = NoOp /\ Later(suites') \cup suites'.skipped = Coming(plan')
  BY <1>1, <1>2, <1>3 DEF Idle
<1>6. EnterStep'
  BY <1>4, <1>5 DEF EnterStep
<1> QED  BY <1>1, <1>2, <1>6 DEF StepInv

(* BeforeAll: the suite plan stays on the attempt's route.                 *)
LEMMA StepBeforeAll ==
  ASSUME IInv, NestInv, StepInv, BeforeAll, IInv'
  PROVE  StepInv'
<1> DEFINE o == NextOp(suites)
<1>1. at = "enter" /\ o = NextOp(suites)
  BY DEF BeforeAll
<1>2. EnterStep
  BY <1>1 DEF StepInv
<1>3. PICK ok \in BOOLEAN, skip \in BOOLEAN : EnterTo(ok, skip)
  BY <1>2, BeforeAllTo
<1> HIDE DEF o
<1>4. /\ o.kind = "BeforeAll" /\ suites' = (IF skip THEN SkipBeforeAll(Admitted(suites)) ELSE Complete(Admitted(suites), ok))
      /\ at' = (IF ok THEN "enter" ELSE "run") /\ plan' = plan /\ (skip => ok)
      /\ (run'.before <=> run.before /\ ok) /\ run'.cause = IF skip THEN o.suite ELSE run.cause
  BY <1>1, <1>3 DEF EnterTo
<1>5. attempt' = attempt
  BY WorkStays DEF Stays
<1>6. /\ decl \in Decls /\ SuiteInv(suites) /\ PathInv(decl, suites) /\ SuiteInv(suites')
  BY DEF IInv, TypeInv, NestInv
<1>7. /\ ~suites.closing /\ ~suites.retire /\ suites.pending = NoOp /\ OnTest
      /\ Later(suites) \cup suites.skipped = Coming(plan)
  BY <1>2 DEF EnterStep
<1>8. suites.skip = 0 /\ suites.skipped = {} /\ 0 \notin Suites
  BY <1>1, <1>4, <1>6, NextOpFacts, RetryPlanAssumption DEF Offered, SuiteInv
<1>9. suites.index <= Len(suites.routes) /\ suites.routes[suites.index].test = attempt.test
  BY <1>7 DEF OnTest
<1>10. CASE skip
  <2>1. SkipsTo(decl, suites, suites', o.suite)
    BY <1>1, <1>4, <1>6, <1>7, <1>10, PathSkip
  <2>2. /\ suites'.pending = NoOp /\ ~suites'.closing /\ ~suites'.retire /\ suites'.index <= Len(suites'.routes)
        /\ suites'.routes[suites'.index].test = attempt.test /\ suites'.routes[suites'.index].finish # 0
        /\ o.suite \in Suites /\ Later(suites') \cup suites'.skipped = Later(suites)
    BY <1>9, <2>1 DEF SkipsTo
  <2>3. OnTest' /\ SkipStep'
    BY <1>4, <1>5, <1>8, <1>10, <2>2 DEF OnTest, SkipStep
  <2>4. Later(suites') \cup suites'.skipped = Coming(plan')
    BY <1>4, <1>7, <1>8, <2>2
  <2>5. EnterStep'
    BY <2>2, <2>3, <2>4 DEF EnterStep
  <2>6. suites'.routes # <<>>
    BY <1>6, <2>2, RestLater
  <2> QED  BY <1>4, <1>10, <2>5, <2>6 DEF StepInv
<1>11. CASE ~skip
  <2>1. Enters(decl, suites, suites', o.suite, ok)
    BY <1>1, <1>4, <1>6, <1>7, <1>11, PathEnter
  <2>2. /\ suites'.pending = NoOp /\ (suites'.closing <=> ~ok) /\ (suites'.retire <=> ~ok) /\ suites'.skip = 0
        /\ suites'.routes = suites.routes /\ suites'.index = suites.index
    BY <2>1 DEF Enters
  <2>3. OnTest'
    BY <1>5, <1>9, <2>2 DEF OnTest
  <2>4. suites'.routes # <<>>
    BY <1>6, <1>9, <2>2, RestLater
  <2>5. CASE ok
    <3>1. Later(suites') = Later(suites) /\ suites'.skipped = {}
      BY <1>6, <2>2 DEF Later, SuiteInv
    <3>2. SkipStep'
      BY <2>2 DEF SkipStep
    <3>3. Later(suites') \cup suites'.skipped = Coming(plan')
      BY <1>4, <1>7, <1>8, <3>1
    <3>4. EnterStep'
      BY <2>2, <2>3, <2>5, <3>2, <3>3 DEF EnterStep
    <3> QED  BY <1>4, <2>4, <2>5, <3>4 DEF StepInv
  <2>6. CASE ~ok
    <3>1. RunStep'
      BY <1>4, <2>2, <2>3, <2>6 DEF RunStep
    <3> QED  BY <1>4, <2>4, <2>6, <3>1 DEF StepInv
  <2> QED  BY <2>5, <2>6
<1> QED  BY <1>10, <1>11

(* Arrive: the suite plan has come to the attempt's test.                  *)
LEMMA ArriveAgrees ==
  ASSUME IInv, NestInv, EnterStep, Arrive
  PROVE  /\ NextOp(suites).kind \in {"Test", "SkippedTest"} /\ NextOp(suites).test = attempt.test
         /\ suites' = Admitted(suites) /\ operation' = NextOp(suites) /\ at' = "run" /\ at = "enter"
         /\ UNCHANGED <<decl, plan, attempt, run, stop, failure>>
<1>1. Leads(suites, NextOp(suites))
  BY NextOpLeads DEF IInv, TypeInv, NestInv, EnterStep
<1>2. /\ NextOp(suites).test = attempt.test
      /\ NextOp(suites).kind \in {"BeforeAll", "Test", "SkippedTest"}
  BY <1>1 DEF Leads, EnterStep, OnTest
<1> QED  BY <1>2 DEF Arrive

(* What is to come after it is what the plan has, but for what is skipped. *)
LEMMA StepArrive ==
  ASSUME IInv, NestInv, StepInv, Arrive
  PROVE  StepInv'
<1> DEFINE o == NextOp(suites)
<1>1. EnterStep
  BY DEF StepInv, Arrive
<1>2. /\ o.kind \in {"Test", "SkippedTest"} /\ suites' = Admitted(suites) /\ operation' = o /\ at' = "run" /\ o = NextOp(suites)
      /\ UNCHANGED <<decl, plan, attempt, run>>
  BY <1>1, ArriveAgrees
<1> HIDE DEF o
<1>3. SuiteInv(suites)
  BY DEF IInv
<1>4. o.skipped = suites.skipped
  BY <1>2, <1>3, NextOpFacts DEF Offered
<1>5. Admits(suites, suites')
  BY <1>2, <1>3, AdmittedKeeps
<1>6. /\ suites'.routes = suites.routes /\ suites'.index = suites.index /\ suites'.skip = suites.skip
  BY <1>5 DEF Admits
<1>7. /\ OnTest /\ SkipStep /\ Later(suites) \cup suites.skipped = Coming(plan) /\ suites.routes # <<>>
  BY <1>1, RestLater, <1>3 DEF EnterStep, OnTest
<1>8. OnTest' /\ SkipStep'
  BY <1>2, <1>6, <1>7 DEF OnTest, SkipStep
<1>9. Later(suites') = Coming(plan') \ operation'.skipped
  <2>1. Later(suites') = Later(suites)
    BY <1>6 DEF Later
  <2>2. Later(suites) \cap suites.skipped = {}
    <3>1. suites.index \in Nat /\ Len(suites.routes) \in Nat
      BY <1>3, SuiteFields
    <3>2. \A j \in suites.index + 1 .. Len(suites.routes) : suites.routes[j].test \notin suites.skipped
      BY <1>3, <3>1 DEF SuiteInv
    <3> QED  BY <3>2 DEF Later
  <2> QED  BY <1>2, <1>4, <1>7, <2>1, <2>2
<1>10. run.before = run.ready
  <2>1. at = "enter"
    BY DEF Arrive
  <2> QED  BY <2>1 DEF IInv, DriveInv
<1>11. RunStep'
  BY <1>2, <1>8, <1>9, <1>10 DEF RunStep
<1> QED  BY <1>2, <1>6, <1>7, <1>11 DEF StepInv

(* StartBody.                                                              *)
LEMMA StepStartBody ==
  ASSUME StepInv, StartBody
  PROVE  StepInv'
<1>1. at = "run" /\ at' = "body" /\ UNCHANGED <<decl, plan, suites, attempt, run, operation>>
  BY DEF StartBody, planVars
<1>2. RunStep /\ suites.routes # <<>>
  BY <1>1 DEF StepInv, Working
<1>3. RunStep'
  BY <1>1, <1>2 DEF RunStep, OnTest, SkipStep
<1> QED  BY <1>1, <1>2, <1>3 DEF StepInv

(* The suite plan after the attempt's test: it closes suites, goes on to   *)
(* the next route or is to retire.                                         *)
TestDone(s, c, t, ok) ==
  /\ c.pending = NoOp /\ c.skip = 0 /\ (c.retire <=> ~ok) /\ c.routes = s.routes
  /\ c.closing \/ c.retire => c.index = s.index
  /\ ok => (c.closing <=> s.routes[s.index].finish # 0)
  /\ ~c.retire => Rest(c) \ {t} = Later(s) /\ (~c.closing => t \notin Rest(c))

(* Complete does that.                                                     *)
LEMMA CompleteDone ==
  ASSUME NEW d \in Decls, NEW s, SuiteInv(s), PathInv(d, s), s.pending.kind \in {"Test", "SkippedTest"},
         s.index <= Len(s.routes), NEW t, t = s.routes[s.index].test, NEW ok \in BOOLEAN, NEW c, c = Complete(s, ok)
  PROVE  TestDone(s, c, t, ok)
<1>1. s.pending # NoOp
  BY DEF NoOp, Op
<1>2. /\ c.pending = NoOp /\ c.skip = 0 /\ c.routes = s.routes /\ (c.retire <=> ~ok)
      /\ c.index = IF c.closing \/ c.retire THEN s.index ELSE s.index + 1
  BY <1>1, PathDone
<1>3. Completed(s, c, ok)
  BY CompleteFields DEF SuiteInv
<1>4. ok => (c.closing <=> s.routes[s.index].finish # 0)
  BY <1>2, <1>3 DEF Completed
<1>5. Rest(s) = {t} \cup Later(s) /\ t \notin Later(s)
  BY RestLater
<1>6. CASE c.closing \/ c.retire
  <2>1. c.index = s.index /\ Rest(c) = Rest(s)
    BY <1>2, <1>6 DEF Rest
  <2>2. Rest(c) \ {t} = Later(s)
    BY <1>5, <2>1
  <2> QED  BY <1>2, <1>4, <1>6, <2>1, <2>2 DEF TestDone
<1>7. CASE ~(c.closing \/ c.retire)
  <2>1. Rest(c) = Later(s)
    BY <1>2, <1>7 DEF Rest, Later
  <2>2. Rest(c) \ {t} = Later(s) /\ t \notin Rest(c)
    BY <1>5, <2>1
  <2> QED  BY <1>2, <1>4, <1>7, <2>2 DEF TestDone
<1> QED  BY <1>6, <1>7

(* RunBody: what is to come is what the plan has, and the last member of a *)
(* group closes the group's suite.                                         *)
LEMMA StepRunBody ==
  ASSUME IInv, NestInv, KnownInv, StepInv, RunBody
  PROVE  StepInv'
<1> DEFINE t == attempt.test
           ok == IF InSerialGroup(t) THEN SerialExpected(plan', run') ELSE run'.ok
<1>1. BodyTo /\ Stays
  BY RunBodyTo, WorkStays
<1>2. /\ at = "body" /\ at' = "decide" /\ operation' = operation /\ suites' = Complete(suites, ok)
      /\ (run'.ready <=> run.ready) /\ run'.cause = run.cause /\ (run'.skip => run'.ok) /\ run' \in RunType
  BY <1>1 DEF BodyTo
<1>3. attempt' = attempt /\ decl' = decl /\ stop' = stop /\ (plan' = plan \/ plan' = ExpectFailure(plan))
  BY <1>1 DEF Stays
<1>4. /\ decl \in Decls /\ SuiteInv(suites) /\ PathInv(decl, suites) /\ PlanInv(decl, plan)
      /\ run.before /\ run.ready /\ run.cause = 0 /\ suites.pending.kind = "Test"
  BY <1>2 DEF IInv, TypeInv, NestInv, DriveInv
<1>5. ok \in BOOLEAN
  BY <1>2 DEF SerialExpected, Expected, RunType
<1>6. /\ OnTest /\ SkipStep /\ Later(suites) = Coming(plan) \ operation.skipped /\ suites.routes # <<>>
  BY <1>2, <1>4 DEF StepInv, RunStep, Working
<1>7. suites.skip = 0 /\ suites.index <= Len(suites.routes) /\ t = suites.routes[suites.index].test
  BY <1>4, <1>6 DEF SkipStep, OnTest
<1>8. Coming(plan') = Coming(plan) /\ plan'.decl = plan.decl /\ plan'.group = plan.group /\ plan.decl = decl
  <2>1. /\ plan'.decl = plan.decl /\ plan'.queue = plan.queue /\ plan'.active = plan.active /\ plan'.again = plan.again
        /\ plan'.group = plan.group /\ plan'.retiring = plan.retiring /\ plan'.failures = plan.failures
        /\ plan'.stop = plan.stop
    BY <1>3, <1>4 DEF ExpectFailure, PlanInv, PlanOf
  <2> QED  BY <1>4, <2>1, SameTurn, PlanFields
<1>9. InSerialGroup(t)' <=> InSerialGroup(t)
  BY <1>3 DEF InSerialGroup
<1>10. (InSerialGroup(t) => (ok <=> SerialExpected(plan', run'))) /\ (~InSerialGroup(t) => (ok <=> run'.ok))
  OBVIOUS
<1> HIDE DEF ok, t
<1>11. TestDone(suites, suites', t, ok)
  BY <1>2, <1>4, <1>5, <1>7, CompleteDone
<1>12. suites'.closing \/ suites'.retire => OnTest'
  BY <1>3, <1>7, <1>11 DEF TestDone, OnTest, t
<1>13. DoneStep'
  <2>1. suites'.pending = NoOp /\ suites'.skip = 0 /\ (suites'.retire <=> ~ok)
        /\ (~suites'.retire => Rest(suites') \ {t} = Coming(plan') \ operation'.skipped /\ (~suites'.closing => t \notin Rest(suites')))
    BY <1>2, <1>6, <1>8, <1>11 DEF TestDone
  <2>2. ok => IF InSerialGroup(t)' THEN SerialExpected(plan', run') ELSE run'.ok
    BY <1>9, <1>10
  <2> QED  BY <1>2, <1>3, <1>12, <2>1, <2>2 DEF DoneStep, t
<1>14. DecideStep'
  <2>1. CASE suites'.closing \/ suites'.retire
    BY <1>12, <2>1 DEF DecideStep
  <2>2. CASE ~suites'.closing /\ ~suites'.retire
    <3>1. suites.routes[suites.index].finish = 0
      BY <1>11, <2>2 DEF TestDone
    <3>2. operation.skipped = {}
      BY <1>2, <1>4 DEF KnownInv
    <3>3. Later(suites) \subseteq Coming(plan)
      BY <1>6, <3>2
    <3>4. suites.pending # NoOp
      BY <1>4 DEF NoOp, Op
    <3>5. InSerialGroup(t) => ~LastInSerialGroup(plan, t)
      BY <1>4, <1>7, <3>1, <3>3, <3>4, LastFinishes DEF InSerialGroup
    <3>6. LastInSerialGroup(plan', t) <=> LastInSerialGroup(plan, t)
      BY <1>8 DEF LastInSerialGroup
    <3>7. InSerialGroup(t)' => ~LastInSerialGroup(plan', t)
      BY <1>9, <3>5, <3>6
    <3> QED  BY <1>3, <2>2, <3>7 DEF DecideStep, t
  <2> QED  BY <2>1, <2>2
<1>15. suites'.routes # <<>>
  BY <1>6, <1>11 DEF TestDone
<1> QED  BY <1>2, <1>13, <1>14, <1>15 DEF StepInv

(* NoBody: a test that a beforeAll has skipped leaves the skipped suite.   *)
LEMMA StepNoBody ==
  ASSUME IInv, NestInv, KnownInv, StepInv, NoBody
  PROVE  StepInv'
<1> DEFINE t == attempt.test
           clean == operation.kind = "SkippedTest" /\ ~stop /\ host = "live"
<1>1. /\ at = "run" /\ at' = "decide" /\ UNCHANGED <<decl, plan, attempt, operation, stop>>
      /\ suites' = (IF run.before THEN Complete(suites, clean) ELSE suites)
      /\ run' = [run EXCEPT !.ok = run.before /\ clean] /\ clean \in BOOLEAN
      /\ (clean => operation.kind = "SkippedTest" /\ ~stop)
  BY DEF NoBody
<1> HIDE DEF clean
<1>2. /\ decl \in Decls /\ SuiteInv(suites) /\ PathInv(decl, suites) /\ PlanInv(decl, plan) /\ run \in RunType
      /\ run.before => run.ready
      /\ run.before => suites.pending = operation /\ operation.kind \in {"Test", "SkippedTest"}
  BY <1>1 DEF IInv, TypeInv, NestInv, DriveInv
<1>3. /\ run'.ready = run.ready /\ run'.before = run.before /\ run'.skip = run.skip /\ run'.cause = run.cause
      /\ run'.timedOut = run.timedOut /\ run'.interrupted = run.interrupted /\ run'.infrastructure = run.infrastructure
  BY <1>1, <1>2 DEF RunType
<1>4. run'.ok <=> run.before /\ clean
  <2>1. run'.ok = (run.before /\ clean)
    BY <1>1, <1>2 DEF RunType
  <2> QED  BY <2>1
<1>5. RunStep /\ suites.routes # <<>>
  BY <1>1 DEF StepInv, Working
<1>6. OnTest /\ suites.index <= Len(suites.routes) /\ t = suites.routes[suites.index].test
  BY <1>5 DEF RunStep, OnTest
<1>7. CASE run.before
  <2>1. Later(suites) = Coming(plan) \ operation.skipped /\ SkipStep
    BY <1>5, <1>7 DEF RunStep
  <2> HIDE DEF t
  <2>2. TestDone(suites, suites', t, clean)
    BY <1>1, <1>2, <1>6, <1>7, CompleteDone
  <2>3. clean => run.cause # 0 /\ suites'.closing
    <3>1. SUFFICES ASSUME clean PROVE run.cause # 0 /\ suites'.closing
      OBVIOUS
    <3>2. suites.pending.kind = "SkippedTest"
      BY <1>1, <1>2, <1>7, <3>1
    <3>3. suites.pending # NoOp
      BY <3>2 DEF NoOp, Op
    <3>4. suites.skip # 0
      BY <1>2, <3>2, <3>3 DEF PathInv, OnPath
    <3> QED  BY <2>1, <2>2, <3>1, <3>4 DEF SkipStep, TestDone
  <2>4. suites'.closing \/ suites'.retire
    BY <2>2, <2>3 DEF TestDone
  <2>5. OnTest'
    BY <1>1, <1>6, <2>2, <2>4 DEF TestDone, OnTest, t
  <2>6. clean => SerialExpected(plan, run')
    <3>1. SUFFICES ASSUME clean PROVE SerialExpected(plan, run')
      OBVIOUS
    <3>2. run.skip /\ ~run.timedOut /\ ~run.infrastructure /\ ~run.interrupted
      BY <1>1, <1>7, <2>3, <3>1 DEF KnownInv, Working
    <3>3. AttemptOutcome(run') = "skipped"
      BY <1>3, <1>4, <1>7, <3>1, <3>2 DEF AttemptOutcome
    <3> QED  BY <1>3, <3>2, <3>3 DEF SerialExpected, Expected
  <2>7. DoneStep'
    <3>1. suites'.pending = NoOp /\ suites'.skip = 0 /\ (suites'.retire <=> ~clean)
          /\ (~suites'.retire => Rest(suites') \ {t} = Coming(plan') \ operation'.skipped)
      BY <1>1, <2>1, <2>2 DEF TestDone
    <3>2. clean => SerialExpected(plan', run') /\ run'.ok
      BY <1>1, <1>4, <1>7, <2>6
    <3> QED  BY <1>1, <2>4, <2>5, <3>1, <3>2 DEF DoneStep, t
  <2>8. DecideStep'
    BY <2>4, <2>5 DEF DecideStep
  <2>9. suites'.routes # <<>>
    BY <1>5, <2>2 DEF TestDone
  <2> QED  BY <1>1, <2>7, <2>8, <2>9 DEF StepInv
<1>8. CASE ~run.before
  <2>1. suites' = suites
    BY <1>1, <1>8
  <2>2. run'.ready => suites'.pending = NoOp /\ suites'.retire
    BY <1>3, <1>5, <1>8, <2>1 DEF RunStep
  <2>3. OnTest'
    BY <1>1, <1>6, <2>1 DEF OnTest
  <2>4. run'.ready => DoneStep' /\ DecideStep'
    BY <2>2, <2>3 DEF DoneStep, DecideStep
  <2> QED  BY <1>1, <1>5, <2>1, <2>4 DEF StepInv
<1> QED  BY <1>7, <1>8

(* Decide: suites that are closed are closed on behalf of the attempt,     *)
(* unless the run stops or the test is declared to fail.                   *)
LEMMA StepDecide ==
  ASSUME IInv, NestInv, StepInv, Decide
  PROVE  StepInv'
<1> DEFINE t == attempt.test
<1>1. /\ at = "decide" /\ at' = "close" /\ UNCHANGED <<decl, plan, attempt, operation, run, stop>>
      /\ (WantsRetirement => suites.pending = NoOp)
      /\ suites' = IF WantsRetirement THEN RetireAfterCurrentTest(suites) ELSE suites
  BY DEF Decide, MayRetireAfterCurrentTest
<1>2. /\ decl \in Decls /\ SuiteInv(suites) /\ PathInv(decl, suites) /\ (suites.pending # NoOp \/ suites.skip = 0)
  BY <1>1 DEF IInv, TypeInv, NestInv
<1>3. suites.routes # <<>> /\ (run.ready => DoneStep /\ DecideStep)
  BY <1>1 DEF StepInv, Working
<1>4. CASE WantsRetirement
  <2>1. /\ suites'.retire /\ suites'.pending = NoOp /\ suites'.routes = suites.routes /\ suites'.index = suites.index
    BY <1>1, <1>2, <1>4, PathRetire
  <2>2. ASSUME run.ready PROVE OnTest \/ stop \/ t \in decl.expected
    <3>1. CASE OnTest
      BY <3>1
    <3>2. CASE ~OnTest
      <4>1. ~suites.retire /\ (InSerialGroup(t) => ~LastInSerialGroup(plan, t))
        BY <1>3, <2>2, <3>2 DEF DecideStep
      <4>2. InSerialGroup(t) => SerialExpected(plan, run) \/ stop
        BY <1>3, <2>2, <4>1 DEF DoneStep
      <4> QED  BY <1>4, <4>1, <4>2 DEF WantsRetirement
    <3> QED  BY <3>1, <3>2
  <2>3. OnTest' <=> OnTest
    BY <1>1, <2>1 DEF OnTest
  <2>4. DoneStep'
    BY <2>1 DEF DoneStep
  <2>5. run.ready => CloseStep'
    BY <1>1, <2>1, <2>2, <2>3 DEF CloseStep
  <2> QED  BY <1>1, <1>3, <2>1, <2>4, <2>5 DEF StepInv
<1>5. CASE ~WantsRetirement
  <2>1. suites' = suites
    BY <1>1, <1>5
  <2>2. OnTest' <=> OnTest
    BY <1>1, <2>1 DEF OnTest
  <2>3. InSerialGroup(t)' <=> InSerialGroup(t)
    BY <1>1 DEF InSerialGroup
  <2>4. IF InSerialGroup(t) THEN ~LastInSerialGroup(plan, t) ELSE t \notin decl.expected
    BY <1>5 DEF WantsRetirement
  <2>5. run.ready => DoneStep'
    <3>1. SUFFICES ASSUME run.ready PROVE DoneStep'
      OBVIOUS
    <3>2. DoneStep
      BY <1>3, <3>1
    <3> QED  BY <1>1, <2>1, <2>2, <2>3, <3>2 DEF DoneStep, SerialExpected
  <2>6. run.ready => (suites.closing => OnTest)
    BY <1>3 DEF DoneStep, DecideStep
  <2>7. run.ready => CloseStep'
    BY <1>1, <2>1, <2>2, <2>3, <2>4, <2>6 DEF CloseStep
  <2> QED  BY <1>1, <1>3, <2>1, <2>5, <2>7 DEF StepInv
<1> QED  BY <1>4, <1>5

(* AfterAll: a suite is left.                                              *)
LEMMA StepAfterAll ==
  ASSUME IInv, NestInv, KnownInv, StepInv, AfterAll
  PROVE  StepInv'
<1> DEFINE t == attempt.test
<1>1. PICK ok \in BOOLEAN : LeaveTo(ok)
  BY AfterAllTo
<1>2. Stays
  BY WorkStays
<1>3. /\ at = "close" /\ run.ready /\ suites.closing /\ at' = "close" /\ suites' = Complete(Admitted(suites), ok)
      /\ operation' = operation /\ plan' = plan /\ decl' = decl /\ attempt' = attempt /\ stop' = stop
      /\ run'.ready /\ (run'.ok <=> run.ok /\ ok) /\ (run'.skip <=> run.skip)
      /\ (ok => (run'.infrastructure <=> run.infrastructure) /\ (run'.timedOut <=> run.timedOut))
      /\ (run'.interrupted => run.interrupted \/ stop)
  BY <1>1, <1>2 DEF LeaveTo, Closes, HasClosures, Stays
<1>4. DoneStep /\ CloseStep /\ suites.routes # <<>>
  BY <1>3 DEF StepInv, Working
<1>5. decl \in Decls /\ SuiteInv(suites) /\ PathInv(decl, suites) /\ suites.pending = NoOp
  BY <1>4 DEF IInv, TypeInv, NestInv, DoneStep
<1>6. /\ suites'.pending = NoOp /\ suites'.skip = suites.skip /\ suites'.routes = suites.routes
      /\ (suites'.retire <=> suites.retire \/ ~ok) /\ suites.index <= Len(suites.routes)
      /\ suites'.index = IF suites'.closing \/ suites'.retire THEN suites.index ELSE suites.index + 1
  BY <1>3, <1>5, PathLeave
<1>7. suites'.closing \/ suites'.retire => (OnTest' <=> OnTest)
  BY <1>3, <1>6 DEF OnTest
<1>8. InSerialGroup(t)' <=> InSerialGroup(t)
  BY <1>3 DEF InSerialGroup
<1>9. ok /\ InSerialGroup(t) /\ SerialExpected(plan, run) => SerialExpected(plan, run') \/ stop
  <2>1. SUFFICES ASSUME ok, ~stop, SerialExpected(plan, run) PROVE SerialExpected(plan, run')
    OBVIOUS
  <2>2. ~run.interrupted /\ ~run'.interrupted
    BY <1>3, <2>1 DEF KnownInv
  <2>3. AttemptOutcome(run') = AttemptOutcome(run)
    BY <1>3, <2>1, <2>2 DEF AttemptOutcome
  <2> QED  BY <1>3, <2>1, <2>3 DEF SerialExpected, Expected
<1>10. DoneStep'
  <2>1. CASE suites'.retire
    BY <1>6, <2>1 DEF DoneStep
  <2>2. CASE ~suites'.retire
    <3>1. ok /\ ~suites.retire
      BY <1>6, <2>2
    <3>2. /\ Rest(suites) \ {t} = Coming(plan) \ operation.skipped /\ suites.skip = 0 /\ OnTest
          /\ (IF InSerialGroup(t) THEN SerialExpected(plan, run) \/ stop ELSE run.ok)
          /\ (run.skip => run.ok)
      BY <1>3, <1>4, <3>1 DEF DoneStep
    <3>3. t = suites.routes[suites.index].test
      BY <3>2 DEF OnTest
    <3>4. Rest(suites) = {t} \cup Later(suites) /\ t \notin Later(suites)
      BY <1>5, <1>6, <3>3, RestLater
    <3>5. /\ Rest(suites') \ {t} = Coming(plan) \ operation.skipped
          /\ IF suites'.closing THEN OnTest' ELSE t \notin Rest(suites')
      <4>1. CASE suites'.closing
        <5>1. Rest(suites') = Rest(suites)
          BY <1>6, <4>1 DEF Rest
        <5> QED  BY <1>7, <3>2, <4>1, <5>1
      <4>2. CASE ~suites'.closing
        <5>1. Rest(suites') = Later(suites)
          BY <1>6, <2>2, <4>2 DEF Rest, Later
        <5> QED  BY <3>2, <3>4, <4>2, <5>1
      <4> QED  BY <4>1, <4>2
    <3>6. /\ IF InSerialGroup(t)' THEN SerialExpected(plan, run') \/ stop ELSE run'.ok
          /\ run'.skip => run'.ok
      BY <1>3, <1>8, <1>9, <3>1, <3>2
    <3> QED  BY <1>3, <1>6, <3>2, <3>5, <3>6 DEF DoneStep
  <2> QED  BY <2>1, <2>2
<1>11. CloseStep'
  <2>1. OnTest \/ stop \/ t \in decl.expected
    BY <1>3, <1>4 DEF CloseStep
  <2>2. ~suites'.retire => IF InSerialGroup(t) THEN ~LastInSerialGroup(plan, t) ELSE t \notin decl.expected
    BY <1>4, <1>6 DEF CloseStep
  <2> QED  BY <1>3, <1>7, <1>8, <2>1, <2>2 DEF CloseStep
<1> QED  BY <1>3, <1>4, <1>6, <1>10, <1>11 DEF StepInv

(* FinishAttempt: an unexpected result retires the worker.                 *)
LEMMA EndRetires ==
  ASSUME IInv, IInv', WaveInv, FinishAttempt, ~EndExpected
  PROVE  NeedsWorkerRetirement(plan')
<1>1. /\ Ends /\ Finishes(decl, plan, EndPlan, worker, EndOutcome, EndFault)
      /\ Excludes(decl, EndPlan, plan', Omitted \cup Blocked)
  BY EndTurns
<1>2. NeedsWorkerRetirement(EndPlan)
  BY <1>1 DEF Finishes, EndExpected
<1> QED  BY <1>1, <1>2 DEF Excludes

(* What was known of an attempt whose result is as expected.               *)
LEMMA EndKnown ==
  ASSUME IInv, KnownInv, at = "close", EndExpected
  PROVE  /\ run.ready /\ ~run.infrastructure /\ (run.cause # 0 => Clean) /\ (run.skip => EndOutcome = "skipped")
<1>1. /\ EndRun \in RunType /\ EndRun.cause = run.cause /\ run \in RunType
  BY EndFacts DEF IInv, TypeInv
<1>2. EndRun.infrastructure = run.infrastructure /\ EndRun.skip = run.skip
  BY <1>1 DEF EndRun, RunType
<1>3. ~EndFault
  BY DEF EndExpected, Expected
<1>4. ~run.infrastructure /\ (run.skip => EndOutcome = "skipped")
  BY <1>2, <1>3 DEF EndFault
<1>5. run.ready
  BY <1>4 DEF KnownInv, Working
<1>6. run.cause # 0 => Clean
  BY <1>1, <1>4 DEF KnownInv, Working, Clean
<1> QED  BY <1>4, <1>5, <1>6

(* FinishAttempt: what is to come, if the worker may stay.                 *)
LEMMA EndComes ==
  ASSUME IInv, WaveInv, KnownInv, FinishAttempt, EndExpected, ~suites.retire
  PROVE  Coming(plan') = Coming(plan) \ operation.skipped
<1>1. /\ Ends /\ EndsTurn(decl, plan, EndPlan, EndOutcome, EndFault) /\ LosesTests(decl, EndPlan, plan', Omitted \cup Blocked)
  BY EndTurns
<1>2. at = "close"
  BY <1>1 DEF Ends
<1>3. /\ Coming(plan') = Coming(EndPlan) \ (Omitted \cup Blocked)
  BY <1>1 DEF LosesTests
<1>4. Blocked = {}
  BY <1>2, EndedTests
<1>5. Omitted = operation.skipped
  <2>1. CASE run.cause = 0
    <3>1. operation.skipped = {}
      BY <1>2, <2>1 DEF KnownInv
    <3> QED  BY <3>1 DEF Omitted
  <2>2. CASE run.cause # 0
    <3>1. Clean
      BY <1>2, <2>2, EndKnown
    <3> QED  BY <3>1 DEF Omitted
  <2> QED  BY <2>1, <2>2
<1>6. Coming(EndPlan) = Coming(plan)
  <2>1. (Legacy(decl) /\ FailureLimitReached(EndPlan)) \/ Coming(EndPlan) = Coming(plan)
    BY <1>1 DEF EndsTurn
  <2>2. FailureLimitReached(EndPlan) => FailureLimitReached(plan)
    BY <1>1 DEF EndsTurn, EndExpected
  <2>3. plan.active # NoAttempt /\ plan.decl = decl /\ TurnInv(plan)
    BY <1>2, PlanFields DEF IInv, AttemptInv, Working, WaveInv, Live
  <2>4. ~(Legacy(decl) /\ FailureLimitReached(plan))
    BY <2>3 DEF TurnInv, LimitInv
  <2> QED  BY <2>1, <2>2, <2>4
<1> QED  BY <1>3, <1>4, <1>5, <1>6

(* FinishAttempt: if the worker stays, the two plans agree.                *)
LEMMA StepFinish ==
  ASSUME IInv, IInv', WaveInv, KnownInv, StepInv, FinishAttempt
  PROVE  StepInv'
<1>1. Ends
  BY EndTurns, SMTT(40), ZenonT(60)
<1>2. at = "close" /\ at' = "retire" /\ suites' = suites /\ ~Closes
  BY <1>1 DEF Ends, FinishAttempt
<1>3. suites.routes # <<>> /\ (run.ready => DoneStep)
  BY <1>2 DEF StepInv, Working
<1>4. ASSUME ~Retires' PROVE Agree'
  <2>1. ~suites.retire /\ ~NeedsWorkerRetirement(plan')
    BY <1>2, <1>4 DEF Retires
  <2>2. EndExpected
    BY <2>1, EndRetires
  <2>3. run.ready
    BY <1>2, <2>2, EndKnown
  <2>4. ~suites.closing
    BY <1>2, <2>3 DEF Closes, HasClosures
  <2>5. /\ suites.pending = NoOp /\ suites.skip = 0 /\ Rest(suites) \ {attempt.test} = Coming(plan) \ operation.skipped
        /\ attempt.test \notin Rest(suites)
    BY <1>3, <2>1, <2>3, <2>4 DEF DoneStep
  <2>6. Coming(plan') = Coming(plan) \ operation.skipped
    BY <2>1, <2>2, EndComes
  <2>7. Rest(suites') = Coming(plan') /\ Idle(suites')
    BY <1>2, <2>1, <2>4, <2>5, <2>6 DEF Idle
  <2> QED  BY <2>7 DEF Agree
<1> QED  BY <1>2, <1>3, <1>4 DEF StepInv

(* Retire: with the worker the suite plan goes, and no group has begun.    *)
LEMMA StepRetire ==
  ASSUME IInv, WaveInv, StepInv, Retire
  PROVE  StepInv'
<1>1. /\ at = "retire" /\ at' \in {"report", "loop"} /\ decl' = decl /\ (~Retires => plan' = plan)
      /\ suites' = IF Retires THEN NoSuites ELSE suites
  BY DEF Retire
<1>2. suites.routes # <<>> /\ (~Retires => Agree)
  BY <1>1 DEF StepInv
<1>3. NoSuites.routes = <<>>
  <2>1. decl \in Decls /\ NoSuites = InitSuitePlan(decl, {}) /\ {} \in SUBSET Tests
    BY DEF IInv, TypeInv, NoSuites
  <2> QED  BY <2>1, FreshPath
<1>4. NoSuites' = NoSuites
  BY <1>1 DEF NoSuites
<1>5. CASE Retires
  <2>1. AtRest(decl, plan')
    BY <1>5, RetireExits
  <2> QED  BY <1>1, <1>4, <1>5, <2>1 DEF StepInv, Working
<1>6. CASE ~Retires
  <2>1. suites' = suites /\ plan' = plan /\ suites' # NoSuites'
    BY <1>1, <1>2, <1>3, <1>4, <1>6
  <2>2. Agree'
    BY <1>2, <1>6, <2>1 DEF Agree
  <2> QED  BY <1>1, <2>1, <2>2 DEF StepInv, Working
<1> QED  BY <1>5, <1>6

(* Every step keeps the two plans in step.                                 *)
LEMMA StepNext ==
  ASSUME IInv, NestInv, WaveInv, KnownInv, StepInv, [Next]_vars
  PROVE  StepInv'
<1>1. IInv'
  BY NextKeeps
<1>2. CASE PrepareOutput \/ BeforeAll \/ Arrive \/ StartBody \/ RunBody \/ NoBody \/ Decide \/ AfterAll
  BY <1>1, <1>2, StepPrepare, StepBeforeAll, StepArrive, StepStartBody, StepRunBody, StepNoBody, StepDecide, StepAfterAll
<1>3. CASE ThrowIfStopped \/ StartThrows \/ PrepareThrows \/ DecideThrows \/ AfterAllThrows \/ LoopEnds \/ MarkUnrun
  <2>1. at' \in {"throw", "report", "ended"}
    BY <1>3 DEF ThrowIfStopped, StartThrows, PrepareThrows, DecideThrows, AfterAllThrows, LoopEnds, MarkUnrun, Throw
  <2> QED  BY <2>1 DEF StepInv, Working
<1>4. CASE StartAttempt
  BY <1>4, StartStarts, StepStart
<1>5. CASE FinishAttempt
  BY <1>1, <1>5, StepFinish
<1>6. CASE Retire
  BY <1>6, StepRetire
<1>7. CASE RequestStop \/ UNCHANGED vars
  <2>1. UNCHANGED <<decl, plan, suites, at, attempt, operation, run>> /\ (stop => stop')
    BY <1>7 DEF RequestStop, vars, planVars
  <2>2. /\ (OnTest' <=> OnTest) /\ (SkipStep' <=> SkipStep) /\ (Agree' <=> Agree) /\ (Retires' <=> Retires)
        /\ NoSuites' = NoSuites /\ \A x : InSerialGroup(x)' <=> InSerialGroup(x)
    BY <2>1 DEF OnTest, SkipStep, Agree, Retires, NoSuites, InSerialGroup
  <2>3. /\ EnterStep => EnterStep'
        /\ RunStep => RunStep'
        /\ DecideStep => DecideStep'
        /\ CloseStep => CloseStep'
    BY <2>1, <2>2 DEF EnterStep, RunStep, DecideStep, CloseStep
  <2>4. DoneStep => DoneStep'
    BY <2>1, <2>2 DEF DoneStep, SerialExpected
  <2> QED  BY <2>1, <2>2, <2>3, <2>4 DEF StepInv
<1> QED  BY <1>2, <1>3, <1>4, <1>5, <1>6, <1>7 DEF Next, Runner

-----------------------------------------------------------------------------
(* Why the run aborts.                                                     *)

(* The hooks and the test of an attempt never throw: the suite plan comes  *)
(* to the test that the retry plan has selected.                           *)
LEMMA FailWorks ==
  ASSUME IInv, NestInv, StepInv, FailInv,
         PrepareOutput \/ BeforeAll \/ Arrive \/ StartBody \/ RunBody \/ NoBody \/ Decide \/ AfterAll
  PROVE  FailInv'
<1>1. Stays
  BY WorkStays
<1>2. at' # "throw"
  <2>1. CASE BeforeAll
    <3>1. EnterStep
      BY <2>1 DEF StepInv, BeforeAll
    <3>2. PICK ok \in BOOLEAN, skip \in BOOLEAN : EnterTo(ok, skip)
      BY <2>1, <3>1, BeforeAllTo
    <3> QED  BY <3>2, SMTT(40), ZenonT(60) DEF EnterTo
  <2>2. CASE Arrive
    <3>1. EnterStep
      BY <2>2 DEF StepInv, Arrive
    <3> QED  BY <2>2, <3>1, ArriveAgrees
  <2>3. CASE AfterAll
    <3>1. PICK ok \in BOOLEAN : LeaveTo(ok)
      BY <2>3, AfterAllTo, SMTT(40), ZenonT(60)
    <3> QED  BY <3>1 DEF LeaveTo
  <2>4. CASE PrepareOutput \/ StartBody \/ RunBody \/ NoBody \/ Decide
    BY <2>4 DEF PrepareOutput, StartBody, RunBody, NoBody, Decide
  <2> QED  BY <2>1, <2>2, <2>3, <2>4
<1>3. failure' = "none"
  BY <1>1, <1>2 DEF Stays, FailInv, Working
<1> QED  BY <1>3 DEF FailInv, AbortHasCause, PlansAgree

(* A throw has its cause.                                                  *)
LEMMA FailThrows ==
  ASSUME IInv, NestInv, StepInv, ThrowIfStopped \/ StartThrows \/ PrepareThrows \/ DecideThrows \/ AfterAllThrows
  PROVE  FailInv'
<1>1. CASE ThrowIfStopped \/ StartThrows
  <2>1. at' = "throw" /\ failure' \in {"stopped", "start"}
    BY <1>1 DEF ThrowIfStopped, StartThrows, Throw
  <2> QED  BY <2>1 DEF FailInv, AbortHasCause, PlansAgree
<1>2. CASE PrepareThrows
  <2>1. at = "prepare" /\ host # "live" /\ at' = "throw" /\ failure' = "prepare" /\ host' = host
    BY <1>2 DEF PrepareThrows, Throw
  <2>2. host = "exited"
    BY <2>1, WorkingFacts DEF Working
  <2> QED  BY <2>1, <2>2 DEF FailInv, AbortHasCause, PlansAgree
<1>3. CASE DecideThrows
  <2>1. at = "decide" /\ suites.pending # NoOp /\ at' = "throw" /\ failure' = "outstanding" /\ run' = run
    BY <1>3 DEF DecideThrows, MayRetireAfterCurrentTest, Throw
  <2>2. ~run.ready
    BY <2>1 DEF StepInv, DoneStep
  <2> QED  BY <2>1, <2>2 DEF FailInv, AbortHasCause, PlansAgree
<1>4. CASE AfterAllThrows
  <2>1. /\ at = "close" /\ run.ready /\ suites.closing /\ NextOp(suites).test # attempt.test
        /\ at' = "throw" /\ failure' = "mismatch" /\ UNCHANGED <<decl, attempt, stop>>
    BY <1>4 DEF AfterAllThrows, Closes, HasClosures, Associated, Throw
  <2>2. DoneStep /\ CloseStep
    BY <2>1 DEF StepInv
  <2>3. Leads(suites, NextOp(suites))
    BY <2>2, NextOpLeads DEF DoneStep, IInv, TypeInv, NestInv
  <2>4. ~OnTest
    BY <2>1, <2>3 DEF Leads, OnTest
  <2>5. stop \/ attempt.test \in decl.expected
    BY <2>1, <2>2, <2>4 DEF CloseStep
  <2> QED  BY <2>1, <2>5 DEF FailInv, AbortHasCause, PlansAgree
<1> QED  BY <1>1, <1>2, <1>3, <1>4

(* Every step keeps the causes.                                            *)
LEMMA FailNext ==
  ASSUME IInv, NestInv, WaveInv, StepInv, FailInv, [Next]_vars
  PROVE  FailInv'
<1>1. CASE PrepareOutput \/ BeforeAll \/ Arrive \/ StartBody \/ RunBody \/ NoBody \/ Decide \/ AfterAll
  BY <1>1, FailWorks
<1>2. CASE ThrowIfStopped \/ StartThrows \/ PrepareThrows \/ DecideThrows \/ AfterAllThrows
  BY <1>2, FailThrows
<1>3. CASE StartAttempt \/ FinishAttempt \/ Retire \/ LoopEnds
  <2>1. at \notin {"throw", "ended"} /\ failure' = failure
    <3>1. CASE StartAttempt
      BY <3>1, StartStarts DEF Starts
    <3> QED  BY <1>3, <3>1 DEF FinishAttempt, Retire, LoopEnds
  <2>2. failure' = "none"
    BY <2>1 DEF FailInv
  <2> QED  BY <2>2, SMTT(40), ZenonT(60) DEF FailInv, AbortHasCause, PlansAgree
<1>4. CASE MarkUnrun
  <2>1. at' = "ended" /\ UNCHANGED <<decl, attempt, run, stop, failure>>
    BY <1>4 DEF MarkUnrun
  <2> QED  BY <2>1 DEF FailInv, AbortHasCause, PlansAgree
<1>5. CASE RequestStop \/ UNCHANGED vars
  <2>1. UNCHANGED <<decl, at, attempt, run, host, failure>> /\ (stop => stop')
    BY <1>5 DEF RequestStop, vars
  <2> QED  BY <2>1 DEF FailInv, AbortHasCause, PlansAgree
<1> QED  BY <1>1, <1>2, <1>3, <1>4, <1>5 DEF Next, Runner

(* The two plans keep step. *)
AgreeInv == WaveInv /\ KnownInv /\ StepInv /\ FailInv

(* They do so in the beginning.                                            *)
LEMMA AgreeInit ==
  ASSUME Init
  PROVE  AgreeInv
<1>1. WaveInv
  BY WaveInit
<1>2. at = "loop" /\ run = InitRun /\ failure = "none" /\ suites = NoSuites /\ decl \in Decls /\ plan = InitPlan(decl)
  BY DEF Init
<1>3. KnownInv
  BY <1>2 DEF KnownInv, InitRun, Working
<1>4. AtRest(decl, plan)
  <2>1. decl.limit \in Nat
    BY <1>2, DeclFacts
  <2> QED  BY <1>2, <2>1, InitTurn
<1>5. StepInv
  BY <1>2, <1>4 DEF StepInv, Working
<1>6. FailInv
  BY <1>2 DEF FailInv, AbortHasCause, PlansAgree
<1> QED  BY <1>1, <1>3, <1>5, <1>6 DEF AgreeInv

(* And every step keeps it so.                                             *)
LEMMA AgreeNext ==
  ASSUME IInv, NestInv, AgreeInv, [Next]_vars
  PROVE  AgreeInv'
BY WaveNext, KnownNext, StepNext, FailNext DEF AgreeInv

(* The suite plan and the retry plan keep step, in every reachable state.  *)
THEOREM AgreeInvHolds == Spec => []AgreeInv
<1>1. Init => AgreeInv
  BY AgreeInit
<1>2. IInv /\ NestInv /\ AgreeInv /\ [Next]_vars => AgreeInv'
  BY AgreeNext
<1> QED  BY <1>1, <1>2, IInvHolds, NestInvHolds, PTL DEF Spec

(* Whatever is declared and however hooks, bodies, workers and stops       *)
(* behave, RunNestedHooks throws only for a cause: the two plans, which    *)
(* know nothing of each other, never lose step, and the fence of the retry *)
(* plan is open whenever the runner asks for an attempt.                   *)
THEOREM AbortsHaveCause == Spec => []AbortHasCause
<1>1. AgreeInv => AbortHasCause
  BY DEF AgreeInv, FailInv
<1> QED  BY <1>1, AgreeInvHolds, PTL

-----------------------------------------------------------------------------
(* The worker leaves its suites before it exits.                           *)

(* The place of a test's last result. *)
LastPlace(results, t) ==
  LET I == {i \in 1 .. Len(results) : results[i].test = t}
  IN IF I # {} THEN Max(I) ELSE 0

(* It is the end of the results, just after the result was recorded.       *)
LEMMA LastIsNew ==
  ASSUME NEW s \in Seq(Result), NEW r \in Result
  PROVE  LastPlace(Append(s, r), r.test) = Len(s) + 1
<1> DEFINE q == Append(s, r)
           I == {i \in 1 .. Len(q) : q[i].test = r.test}
<1>1. Len(s) \in Nat /\ Len(q) = Len(s) + 1 /\ q[Len(s) + 1] = r
  OBVIOUS
<1>2. Len(s) + 1 \in I /\ (\A i \in I : i \in Nat /\ i <= Len(s) + 1) /\ IsFiniteSet(I)
  <2>1. I \subseteq 1 .. Len(s) + 1
    BY <1>1
  <2>2. IsFiniteSet(I)
    <3>1. IsFiniteSet(1 .. Len(s) + 1)
      BY <1>1, FS_Interval
    <3> QED  BY <2>1, <3>1, FS_Subset
  <2>3. Len(s) + 1 \in I
    BY <1>1
  <2>4. \A i \in 1 .. Len(s) + 1 : i \in Nat /\ i <= Len(s) + 1
    BY <1>1
  <2> HIDE DEF q, I
  <2> QED  BY <2>1, <2>2, <2>3, <2>4
<1>3. LastPlace(q, r.test) = IF I # {} THEN Max(I) ELSE 0
  BY DEF LastPlace
<1> HIDE DEF q, I
<1>4. Max(I) = Len(s) + 1
  <2>1. Max(I) \in I /\ \A i \in I : i <= Max(I)
    BY <1>2, MaxIsMember
  <2>2. Max(I) \in Nat /\ Max(I) <= Len(s) + 1 /\ Len(s) + 1 <= Max(I)
    BY <1>2, <2>1
  <2> QED  BY <1>1, <2>2
<1> QED  BY <1>2, <1>3, <1>4 DEF q

(* A worker that is live and not to be retired early, whose suite plan has *)
(* nothing to come or is to retire, has left its suites.                   *)
LEMMA AllLeft ==
  ASSUME NestInv, at = "close", run.ready, ~Closes, suites.retire \/ suites.index > Len(suites.routes)
  PROVE  open = <<>>
<1>1. ~suites.closing
  BY DEF Closes, HasClosures
<1>2. suites.active = <<>>
  BY <1>1 DEF NestInv, PathInv, OnPath
<1> QED  BY <1>2 DEF NestInv, WithWorker, Working, Opened

(* What the runner knows when nothing stops it and the suite plan goes on. *)
LEMMA EndGoesOn ==
  ASSUME IInv, KnownInv, at = "close", run.ready, ~stop, ~suites.retire, DoneStep
  PROVE  /\ EndOutcome # "interrupted" /\ ~EndFault
         /\ InSerialGroup(attempt.test) => EndExpected
         /\ ~EndExpected => EndOutcome = "passed"
<1>1. run \in RunType /\ EndRun \in RunType
  BY EndFacts DEF IInv, TypeInv
<1>2. ~run.interrupted
  BY DEF KnownInv
<1>3. EndRun = run
  BY <1>1, <1>2 DEF EndRun, RunType
<1>4. run.ok => ~run.timedOut /\ ~run.infrastructure
  BY DEF KnownInv
<1>5. run.skip => EndOutcome = "skipped"
  BY <1>2, <1>3, <1>4 DEF DoneStep, EndOutcome, AttemptOutcome
<1>6. EndOutcome # "interrupted"
  BY <1>2, <1>3 DEF EndOutcome, AttemptOutcome
<1>7. EndFault <=> run.infrastructure
  BY <1>1, <1>3, <1>5 DEF EndFault, RunType
<1>8. CASE InSerialGroup(attempt.test)
  <2>1. SerialExpected(plan, run)
    BY <1>8 DEF DoneStep
  <2>2. ~run.infrastructure /\ EndExpected
    BY <1>3, <1>7, <2>1 DEF SerialExpected, Expected, EndExpected, EndOutcome
  <2> QED  BY <1>6, <1>7, <2>2
<1>9. CASE ~InSerialGroup(attempt.test)
  <2>1. run.ok
    BY <1>9 DEF DoneStep
  <2>2. EndOutcome \in {"skipped", "passed"} /\ ~EndFault
    BY <1>2, <1>3, <1>4, <1>7, <2>1 DEF EndOutcome, AttemptOutcome
  <2>3. EndOutcome = "skipped" => EndExpected
    BY <2>2 DEF EndExpected, Expected
  <2> QED  BY <1>6, <1>9, <2>2, <2>3
<1> QED  BY <1>8, <1>9

(* FinishAttempt: when the plan is done, no test is to come.               *)
LEMMA EndDone ==
  ASSUME IInv, WaveInv, KnownInv, StepInv, FinishAttempt, EndExpected, run.ready, ~suites.retire, Done(plan')
  PROVE  suites.index > Len(suites.routes)
<1>1. /\ Ends /\ EndsTurn(decl, plan, EndPlan, EndOutcome, EndFault) /\ LosesTests(decl, EndPlan, plan', Omitted \cup Blocked)
      /\ Finishes(decl, plan, EndPlan, worker, EndOutcome, EndFault) /\ Excludes(decl, EndPlan, plan', Omitted \cup Blocked)
  BY EndTurns, SMTT(40), ZenonT(60)
<1>2. at = "close" /\ ~Closes /\ decl' = decl
  BY <1>1 DEF Ends, FinishAttempt
<1>3. PlanInv(decl, plan) /\ PlanInv(decl, EndPlan) /\ PlanInv(decl, plan')
  BY <1>1 DEF IInv, Finishes, Excludes
<1>4. plan.decl = decl /\ EndPlan.decl = decl /\ plan'.decl = decl
  BY <1>3, PlanFields
<1>5. ~Stopped(plan')
  <2>1. ~Stopped(plan)
    BY <1>2 DEF WaveInv, Live, Working
  <2>2. EndPlan.stop = plan.stop /\ (FailureLimitReached(EndPlan) => FailureLimitReached(plan))
    BY <1>1 DEF EndsTurn, EndExpected
  <2>3. plan'.stop = EndPlan.stop /\ plan'.failures = EndPlan.failures
    BY <1>1 DEF LosesTests
  <2>4. FailureLimitReached(plan') <=> FailureLimitReached(EndPlan)
    BY <1>4, <2>3 DEF FailureLimitReached
  <2> QED  BY <1>4, <2>1, <2>2, <2>3, <2>4 DEF Stopped
<1>6. Remaining(plan') = {}
  BY <1>5 DEF Done
<1>7. Coming(plan') = {}
  <2>1. SUFFICES ASSUME NEW t \in Tests, InQueue(plan', t) \/ Ahead(plan', t) PROVE FALSE
    BY DEF Coming
  <2>2. InQueue(plan', t) \/ Open(plan', t)
    BY <2>1 DEF Ahead
  <2> QED  BY <1>3, <1>6, <2>2, NotDone
<1>8. Coming(plan') = Coming(plan) \ operation.skipped
  BY EndComes
<1>9. ~suites.closing
  BY <1>2 DEF Closes, HasClosures
<1>10. Rest(suites) = {}
  <2>1. DoneStep
    BY <1>2 DEF StepInv
  <2> QED  BY <1>7, <1>8, <1>9, <2>1 DEF DoneStep
<1>11. suites.index \in Nat /\ Len(suites.routes) \in Nat
  BY SuiteFields DEF IInv, TypeInv
<1>12. suites.index <= Len(suites.routes) => suites.index \in suites.index .. Len(suites.routes)
  BY <1>11
<1>13. \A j \in suites.index .. Len(suites.routes) : FALSE
  BY <1>10 DEF Rest
<1> QED  BY <1>11, <1>12, <1>13

(* FinishAttempt: a result that is as expected retires the worker only if  *)
(* a beforeAll has skipped the rest of its group.                          *)
LEMMA EndStays ==
  ASSUME IInv, WaveInv, KnownInv, StepInv, FinishAttempt, EndExpected, EndOutcome # "interrupted",
         run.ready, ~suites.retire, NeedsWorkerRetirement(plan')
  PROVE  run.cause # 0 /\ InSerialGroup(attempt.test)
<1>1. /\ Ends /\ EndsTurn(decl, plan, EndPlan, EndOutcome, EndFault) /\ LosesTests(decl, EndPlan, plan', Omitted \cup Blocked)
      /\ Finishes(decl, plan, EndPlan, worker, EndOutcome, EndFault) /\ Excludes(decl, EndPlan, plan', Omitted \cup Blocked)
  BY EndTurns
<1>2. at = "close" /\ attempt = plan.active
  BY <1>1 DEF Ends, IInv, AttemptInv, Working
<1>3. PlanInv(decl, plan') /\ plan'.decl = decl
  BY <1>1, PlanFields DEF Excludes
<1>4. plan'.retiring = 0
  BY <1>1 DEF LosesTests, EndsTurn, EndExpected
<1> DEFINE u == Current(plan')
<1>5. u \in SerialUnits(decl) /\ plan'.group[u].state = "retiring"
  <2>1. Remaining(plan') # {} /\ IsSerial(decl, u) /\ plan'.group[u].state = "retiring"
    BY <1>3, <1>4 DEF NeedsWorkerRetirement
  <2>2. u \in Units(decl)
    BY <1>3, <2>1, CurrentFacts
  <2> QED  BY <2>1, <2>2 DEF SerialUnits
<1> HIDE DEF u
<1>6. MembersGo(decl, u, EndPlan.group[u], plan'.group[u], Omitted \cup Blocked)
  BY <1>1, <1>5 DEF LosesTests
<1>7. /\ Started(plan'.group[u]) => Started(EndPlan.group[u])
      /\ EndPlan.group[u].state = "retiring" \/ Omitted \cup Blocked # {}
  BY <1>5, <1>6 DEF MembersGo
<1>8. u = Unit(decl, attempt.test)
  BY <1>1, <1>2, <1>5, <1>7 DEF Started, Finishes
<1>9. InSerialGroup(attempt.test)
  BY <1>5, <1>8 DEF InSerialGroup, SerialUnits
<1>10. EndPlan.group[u].state # "retiring"
  <2>1. ~LastInSerialGroup(plan, attempt.test)
    BY <1>2, <1>9 DEF StepInv, CloseStep
  <2>2. IsSerial(decl, u) /\ u = Unit(decl, plan.active.test)
    BY <1>2, <1>8, <1>9 DEF InSerialGroup
  <2> QED  BY <1>1, <1>2, <2>1, <2>2 DEF EndsTurn, EndExpected
<1>11. Blocked = {}
  BY <1>2, EndedTests
<1>12. Clean
  BY <1>7, <1>10, <1>11 DEF Omitted
<1>13. run.cause # 0
  BY <1>2, <1>12, EndFacts DEF Clean
<1> QED  BY <1>9, <1>13

(* FinishAttempt: the worker has left its suites, or it is an exception.   *)
LEMMA EndLeaves ==
  ASSUME IInv, NestInv, WaveInv, KnownInv, StepInv, FinishAttempt
  PROVE  LeavesBeforeExit'
<1>1. Ends /\ Finishes(decl, plan, EndPlan, worker, EndOutcome, EndFault) /\ Excludes(decl, EndPlan, plan', Omitted \cup Blocked)
  BY EndTurns, SMTT(40), ZenonT(60)
<1>2. /\ at = "close" /\ ~Closes /\ run' = EndRun /\ UNCHANGED <<decl, suites, host, attempt, stop, open>>
      /\ attempt = plan.active
  BY <1>1 DEF Ends, FinishAttempt, IInv, AttemptInv, Working
<1>3. EndRun.ready = run.ready /\ EndRun.cause = run.cause /\ EndRun.ok = run.ok
  BY <1>2, EndFacts
<1>4. SUFFICES ASSUME Retires', run.ready, ~stop
      PROVE  \/ open = <<>>
             \/ EndOutcome = "passed" /\ ~plan'.results[LastResult(attempt.test)'].expected
             \/ run.cause # 0 /\ InSerialGroup(attempt.test)
  <2>1. Range(<<>>) \cap decl.hooked = {}
    BY DEF Range
  <2>2. InSerialGroup(attempt.test)' <=> InSerialGroup(attempt.test)
    BY <1>2 DEF InSerialGroup
  <2>3. AttemptOutcome(run)' = EndOutcome
    BY <1>2 DEF EndOutcome, AttemptOutcome
  <2>4. ASSUME at' = "retire" /\ Retires' /\ host' = "live" /\ run'.ready /\ ~stop'
        PROVE  \/ open = <<>>
               \/ EndOutcome = "passed" /\ ~plan'.results[LastResult(attempt.test)'].expected
               \/ run.cause # 0 /\ InSerialGroup(attempt.test)
    BY <1>2, <1>3, <1>4, <2>4
  <2> QED  BY <1>2, <1>3, <2>1, <2>2, <2>3, <2>4 DEF LeavesBeforeExit
<1>5. CASE suites.retire
  BY <1>2, <1>4, <1>5, AllLeft
<1>6. CASE ~suites.retire
  <2>1. DoneStep /\ CloseStep
    BY <1>2, <1>4 DEF StepInv
  <2>2. /\ EndOutcome # "interrupted" /\ (InSerialGroup(attempt.test) => EndExpected)
        /\ (~EndExpected => EndOutcome = "passed")
    BY <1>2, <1>4, <1>6, <2>1, EndGoesOn
  <2>3. CASE ~EndExpected
    <3> DEFINE r == ResultOf(plan, worker, EndOutcome, EndFault)
    <3>1. plan'.results = Append(plan.results, r) /\ r \in Result /\ plan.results \in Seq(Result)
      BY <1>1, PlanFields DEF Finishes, Excludes, IInv
    <3>2. r.test = attempt.test /\ ~r.expected
      BY <1>2, <2>3 DEF ResultOf, EndExpected
    <3> HIDE DEF r
    <3>3. LastResult(attempt.test)' = LastPlace(plan'.results, attempt'.test)
      BY DEF LastResult, SelectLastInSeq, LastPlace
    <3>4. LastResult(attempt.test)' = Len(plan.results) + 1
      BY <1>2, <3>1, <3>2, <3>3, LastIsNew
    <3>5. plan'.results[Len(plan.results) + 1] = r
      BY <3>1
    <3> QED  BY <2>2, <2>3, <3>2, <3>4, <3>5
  <2>4. CASE EndExpected
    <3>1. NeedsWorkerRetirement(plan') \/ Done(plan')
      <4>1. ~(~InSerialGroup(attempt.test) /\ (~run.ok \/ attempt.test \in decl.expected))
        BY <1>6, <2>1 DEF DoneStep, CloseStep
      <4>2. Retires' <=> \/ ~InSerialGroup(attempt.test) /\ (~run.ok \/ attempt.test \in decl.expected)
                         \/ suites.retire \/ NeedsWorkerRetirement(plan') \/ Done(plan')
        BY <1>2, <1>3 DEF Retires, InSerialGroup
      <4> QED  BY <1>4, <1>6, <4>1, <4>2
    <3>2. CASE NeedsWorkerRetirement(plan')
      BY <1>4, <1>6, <2>2, <2>4, <3>2, EndStays
    <3>3. CASE Done(plan')
      <4>1. suites.index > Len(suites.routes)
        BY <1>4, <1>6, <2>4, <3>3, EndDone
      <4> QED  BY <1>2, <1>4, <4>1, AllLeft
    <3> QED  BY <3>1, <3>2, <3>3
  <2> QED  BY <2>3, <2>4
<1> QED  BY <1>5, <1>6

(* No other step brings the runner to retire a worker.                     *)
LEMMA LeavesNext ==
  ASSUME IInv, NestInv, AgreeInv, LeavesBeforeExit, [Next]_vars
  PROVE  LeavesBeforeExit'
<1>1. CASE FinishAttempt
  BY <1>1, EndLeaves DEF AgreeInv
<1>2. CASE RequestStop \/ UNCHANGED vars
  <2>1. UNCHANGED <<decl, plan, suites, at, attempt, run, host, open>> /\ (stop => stop')
    BY <1>2 DEF RequestStop, vars, planVars
  <2>2. /\ (Retires' <=> Retires) /\ (InSerialGroup(attempt.test)' <=> InSerialGroup(attempt.test))
        /\ AttemptOutcome(run)' = AttemptOutcome(run)
    BY <2>1 DEF Retires, InSerialGroup, AttemptOutcome
  <2>3. LastResult(attempt.test)' = LastResult(attempt.test)
    BY <2>1 DEF LastResult, SelectLastInSeq
  <2> QED  BY <2>1, <2>2, <2>3 DEF LeavesBeforeExit
<1>3. CASE PrepareOutput \/ BeforeAll \/ Arrive \/ StartBody \/ RunBody \/ NoBody \/ Decide \/ AfterAll
  <2>1. at' # "retire"
    BY <1>3, WorkStays DEF Stays, Working
  <2> QED  BY <2>1 DEF LeavesBeforeExit
<1>4. CASE ThrowIfStopped \/ StartThrows \/ PrepareThrows \/ DecideThrows \/ AfterAllThrows \/ LoopEnds \/ MarkUnrun
           \/ StartAttempt \/ Retire
  <2>1. at' # "retire"
    BY <1>4 DEF ThrowIfStopped, StartThrows, PrepareThrows, DecideThrows, AfterAllThrows, LoopEnds, MarkUnrun, Throw,
                StartAttempt, Retire
  <2> QED  BY <2>1 DEF LeavesBeforeExit
<1> QED  BY <1>1, <1>2, <1>3, <1>4 DEF Next, Runner

(* But for a stop, RunNestedHooks retires a live worker only after it has  *)
(* left every suite whose hooks it ran there; the exceptions are those of  *)
(* LeavesBeforeExit.                                                       *)
THEOREM LeavesSuitesBeforeExit == Spec => []LeavesBeforeExit
<1>1. Init => LeavesBeforeExit
  BY DEF Init, LeavesBeforeExit
<1>2. IInv /\ NestInv /\ AgreeInv /\ LeavesBeforeExit /\ [Next]_vars => LeavesBeforeExit'
  BY LeavesNext
<1> QED  BY <1>1, <1>2, IInvHolds, NestInvHolds, AgreeInvHolds, PTL DEF Spec

-----------------------------------------------------------------------------
(* What --max-failures counts.                                             *)

(* The retry plan counts, the runner has reported what has a result, and a *)
(* group that awaits another wave has its turn before any other test.      *)
TallyInv ==
  Live =>
    /\ CountInv(plan)
    /\ reported = {plan.results[i].test : i \in 1 .. Len(plan.results)}
    /\ \A v : Replays(plan, v) => at = "loop" /\ v = Current(plan)

(* The steps of an attempt report nothing.                                 *)
LEMMA TallyWorks ==
  ASSUME IInv, TallyInv, PrepareOutput \/ BeforeAll \/ Arrive \/ StartBody \/ RunBody \/ NoBody \/ Decide \/ AfterAll
  PROVE  TallyInv'
<1>1. Stays
  BY WorkStays
<1>2. reported' = reported
  <2>1. CASE BeforeAll
    BY <2>1 DEF BeforeAll, EnterSuite, Throw, reportVars
  <2>2. CASE Arrive
    BY <2>2, SMTT(40), ZenonT(60) DEF Arrive, Throw, reportVars
  <2>3. CASE AfterAll
    BY <2>3, SMTT(40), ZenonT(60) DEF AfterAll, LeaveSuite, reportVars
  <2>4. CASE PrepareOutput \/ StartBody \/ RunBody \/ NoBody \/ Decide
    BY <2>4 DEF PrepareOutput, StartBody, RunBody, NoBody, Decide, reportVars
  <2> QED  BY <2>1, <2>2, <2>3, <2>4, SMTT(40), ZenonT(60)
<1>3. at \in Working /\ at # "loop"
  BY <1>1 DEF Stays, Working
<1>4. CountInv(plan) /\ (\A v : ~Replays(plan, v)) /\ reported = {plan.results[i].test : i \in 1 .. Len(plan.results)}
  <2>1. Live
    BY <1>3 DEF Live, Working
  <2>2. \A v : Replays(plan, v) => at = "loop"
    BY <2>1 DEF TallyInv
  <2>3. \A v : ~Replays(plan, v)
    BY <1>3, <2>2
  <2> QED  BY <2>1, <2>3 DEF TallyInv
<1>5. /\ plan'.decl = plan.decl /\ plan'.queue = plan.queue /\ plan'.active = plan.active /\ plan'.again = plan.again
      /\ plan'.group = plan.group /\ plan'.failures = plan.failures /\ plan'.results = plan.results
  <2>1. plan \in PlanOf(decl)
    BY PlanFields DEF IInv
  <2> QED  BY <1>1, <2>1 DEF Stays, ExpectFailure, PlanOf
<1>6. CountInv(plan') /\ \A v : ~Replays(plan', v)
  BY <1>4, <1>5, SameCount
<1>7. reported' = {plan'.results[i].test : i \in 1 .. Len(plan'.results)}
  BY <1>2, <1>4, <1>5
<1> QED  BY <1>6, <1>7 DEF TallyInv

(* StartAttempt.                                                           *)
LEMMA TallyStart ==
  ASSUME IInv, WaveInv, TallyInv, StartAttempt
  PROVE  TallyInv'
<1>1. Starts
  BY StartStarts
<1>2. /\ at = "loop" /\ ~Done(plan) /\ plan' = NextAttempt(plan, StartWorker) /\ at' = "prepare" /\ decl' = decl
      /\ plan'.active # NoAttempt
  BY <1>1 DEF Starts
<1>3. reported' = reported
  BY <1>2 DEF StartAttempt, Throw, reportVars
<1>4. PlanInv(decl, plan) /\ plan.active = NoAttempt /\ CountInv(plan) /\ (\A v : Replays(plan, v) => v = Current(plan))
      /\ reported = {plan.results[i].test : i \in 1 .. Len(plan.results)}
  BY <1>2 DEF IInv, AttemptInv, TallyInv, Live
<1>5. Picks(decl, plan, plan', StartWorker) /\ PlanInv(decl, plan') /\ StartWorker \in Nat
  <2> DEFINE w == StartWorker
             q == plan'
  <2>1. w = StartWorker /\ q = NextAttempt(plan, w)
    BY <1>2
  <2> HIDE DEF w, q
  <2>2. Picks(decl, plan, q, w) /\ PlanInv(decl, q) /\ w \in Nat
    BY <1>2, <2>1, StartPicks
  <2> QED  BY <2>1, <2>2 DEF q
<1>6. plan'.results = plan.results
  BY <1>2, <1>4, <1>5, NextAttemptKeeps
<1>7. CountInv(plan') /\ \A v : ~Replays(plan', v)
  BY <1>4, <1>5, <1>6, PickCounts
<1> QED  BY <1>3, <1>4, <1>6, <1>7 DEF TallyInv

(* FinishAttempt.                                                          *)
LEMMA TallyFinish ==
  ASSUME IInv, WaveInv, TallyInv, FinishAttempt
  PROVE  TallyInv'
<1>1. /\ Ends /\ Finishes(decl, plan, EndPlan, worker, EndOutcome, EndFault)
      /\ Excludes(decl, EndPlan, plan', Omitted \cup Blocked)
      /\ EndsTurn(decl, plan, EndPlan, EndOutcome, EndFault)
      /\ LosesTests(decl, EndPlan, plan', Omitted \cup Blocked)
  BY EndTurns
<1>2. /\ at = "close" /\ plan' = ExcludeQueued(EndPlan, Omitted \cup Blocked) /\ reported' = reported \cup {attempt.test}
  BY <1>1 DEF Ends
<1>3. /\ PlanInv(decl, plan) /\ plan.active # NoAttempt /\ attempt = plan.active /\ worker \in Nat
  BY <1>2 DEF IInv, TypeInv, AttemptInv, WorkerInv, Working
<1>4. CountInv(plan) /\ (\A v : ~Replays(plan, v)) /\ reported = {plan.results[i].test : i \in 1 .. Len(plan.results)}
  BY <1>2 DEF TallyInv, Live, Working
<1>5. EndOutcome \in Outcomes /\ EndFault \in BOOLEAN /\ EndPlan = Finish(plan, worker, EndOutcome, EndFault)
  BY <1>2, EndFacts DEF EndPlan
<1>6. Counts(decl, plan, EndPlan, EndOutcome, EndFault)
  BY <1>3, <1>5, FinishCounts
<1>7. decl.retries \in [Tests -> Nat]
  BY DeclFacts DEF IInv, TypeInv
<1>8. CountInv(EndPlan) /\ \A v : ~Replays(EndPlan, v)
  BY <1>1, <1>3, <1>4, <1>6, <1>7, FinishCounted
<1>9. Omitted \cup Blocked \in SUBSET Tests
  BY <1>2, EndedTests
<1>10. PlanInv(decl, EndPlan) /\ EndPlan.active = NoAttempt
  BY <1>1 DEF Finishes
<1>11. CountInv(plan') /\ \A v : ~Replays(plan', v)
  BY <1>1, <1>2, <1>8, <1>9, <1>10, ExcludeCounted
<1>12. reported' = {plan'.results[i].test : i \in 1 .. Len(plan'.results)}
  <2> DEFINE r == ResultOf(plan, worker, EndOutcome, EndFault)
  <2>1. plan'.results = Append(plan.results, r) /\ r.test = attempt.test /\ plan.results \in Seq(Result) /\ r \in Result
    BY <1>1, <1>3, PlanFields DEF Excludes, Finishes, ResultOf
  <2> HIDE DEF r
  <2>2. /\ Len(plan.results) \in Nat /\ Len(plan'.results) = Len(plan.results) + 1
        /\ plan'.results[Len(plan.results) + 1] = r /\ \A i \in 1 .. Len(plan.results) : plan'.results[i] = plan.results[i]
    BY <2>1
  <2>3. \A i \in 1 .. Len(plan.results) + 1 : i = Len(plan.results) + 1 \/ i \in 1 .. Len(plan.results)
    BY <2>2
  <2>4. Len(plan.results) + 1 \in 1 .. Len(plan.results) + 1 /\ \A i \in 1 .. Len(plan.results) : i \in 1 .. Len(plan.results) + 1
    BY <2>2
  <2> QED  BY <1>2, <1>4, <2>1, <2>2, <2>3, <2>4, SMTT(40), ZenonT(60)
<1> QED  BY <1>11, <1>12 DEF TallyInv

(* Retire.                                                                 *)
LEMMA TallyRetire ==
  ASSUME IInv, WaveInv, TallyInv, Retire
  PROVE  TallyInv'
<1>1. /\ at = "retire" /\ at' \in {"report", "loop"} /\ reported' = reported /\ decl' = decl
      /\ ~Retires => plan' = plan
      /\ Retires => LET p == ActualWorkerExited(plan, worker)
                    IN plan' = IF NeedsWorkerRetirement(p) THEN WorkerExited(p) ELSE p
  BY DEF Retire
<1>2. /\ CountInv(plan) /\ (\A v : ~Replays(plan, v)) /\ reported = {plan.results[i].test : i \in 1 .. Len(plan.results)}
      /\ PlanInv(decl, plan) /\ plan.active = NoAttempt /\ TurnInv(plan) /\ worker \in Nat
      /\ \A v \in SerialUnits(decl) : Started(plan.group[v]) => plan.group[v].worker = worker
  BY <1>1 DEF TallyInv, WaveInv, Live, IInv, TypeInv, AttemptInv, WorkerInv, Working
<1>3. CASE ~Retires
  BY <1>1, <1>2, <1>3 DEF TallyInv
<1>4. CASE Retires
  <2> DEFINE r == ActualWorkerExited(plan, worker)
             q == plan'
  <2>1. r = ActualWorkerExited(plan, worker) /\ q = IF NeedsWorkerRetirement(r) THEN WorkerExited(r) ELSE r
    BY <1>1, <1>4
  <2> HIDE DEF r, q
  <2>2. CountInv(q) /\ \A v : Replays(q, v) => v = Current(q)
    BY <1>2, <2>1, ExitCounted
  <2>3. q.results = plan.results
    <3>1. PlanInv(decl, r) /\ r.results = plan.results
      BY <1>2, <2>1, ActualWorkerExitedKeeps DEF Exits
    <3>2. Leaves(decl, r, WorkerExited(r))
      BY <3>1, WorkerExitedKeeps
    <3> QED  BY <2>1, <3>1, <3>2 DEF Leaves
  <2> QED  BY <1>1, <1>2, <2>2, <2>3 DEF TallyInv, Live, Working, q
<1> QED  BY <1>3, <1>4

(* Every step keeps the count.                                             *)
LEMMA TallyNext ==
  ASSUME IInv, WaveInv, TallyInv, [Next]_vars
  PROVE  TallyInv'
<1>1. CASE PrepareOutput \/ BeforeAll \/ Arrive \/ StartBody \/ RunBody \/ NoBody \/ Decide \/ AfterAll
  BY <1>1, TallyWorks
<1>2. CASE StartAttempt
  BY <1>2, TallyStart
<1>3. CASE FinishAttempt
  BY <1>3, TallyFinish
<1>4. CASE Retire
  BY <1>4, TallyRetire
<1>5. CASE ThrowIfStopped \/ StartThrows \/ PrepareThrows \/ DecideThrows \/ AfterAllThrows \/ LoopEnds \/ MarkUnrun
  <2>1. at' \in {"throw", "report", "ended"}
    BY <1>5 DEF ThrowIfStopped, StartThrows, PrepareThrows, DecideThrows, AfterAllThrows, LoopEnds, MarkUnrun, Throw
  <2> QED  BY <2>1 DEF TallyInv, Live, Working
<1>6. CASE RequestStop \/ UNCHANGED vars
  <2>1. UNCHANGED <<plan, at, reported>>
    BY <1>6 DEF RequestStop, vars, planVars, reportVars
  <2> QED  BY <2>1 DEF TallyInv, Live, Working
<1> QED  BY <1>1, <1>2, <1>3, <1>4, <1>5, <1>6 DEF Next, Runner

(* In the beginning nothing has failed.                                    *)
LEMMA TallyInit ==
  ASSUME Init
  PROVE  TallyInv
<1>1. decl \in Decls /\ plan = InitPlan(decl) /\ reported = {} /\ at = "loop"
  BY DEF Init
<1>2. PlanInv(decl, plan)
  BY InitKeeps DEF IInv
<1>3. CountInv(plan) /\ \A v : ~Replays(plan, v)
  BY <1>1, <1>2, DeclFacts, InitCounts
<1>4. {plan.results[i].test : i \in 1 .. Len(plan.results)} = {}
  <2>1. plan.results = <<>>
    BY <1>1 DEF InitPlan
  <2> QED  BY <2>1
<1> QED  BY <1>1, <1>3, <1>4 DEF TallyInv

(* The last of a test's results.                                           *)
LEMMA LastPlaceFacts ==
  ASSUME NEW s \in Seq(Result), NEW t, NEW i \in 1 .. Len(s), s[i].test = t, NEW k, k = LastPlace(s, t)
  PROVE  k \in 1 .. Len(s) /\ s[k].test = t /\ \A j \in 1 .. Len(s) : s[j].test = t => j <= k
<1> DEFINE I == {j \in 1 .. Len(s) : s[j].test = t}
<1>1. i \in I /\ (\A j \in I : j \in Nat) /\ k = Max(I)
  BY DEF LastPlace
<1>2. IsFiniteSet(I)
  <2>1. I \subseteq 1 .. Len(s) /\ IsFiniteSet(1 .. Len(s))
    BY FS_Interval
  <2> QED  BY <2>1, FS_Subset
<1>3. k \in I /\ \A j \in I : j <= k
  <2> HIDE DEF I
  <2> QED  BY <1>1, <1>2, MaxIsMember
<1> QED  BY <1>3

(* What the plan counts is what the report shows.                          *)
LEMMA TallyMeans ==
  ASSUME IInv, TallyInv
  PROVE  FailuresAreTests
<1>1. SUFFICES ASSUME at = "loop" PROVE plan.failures = Cardinality({t \in reported : FinallyFailed(t)})
  BY DEF FailuresAreTests
<1>2. CountInv(plan) /\ reported = {plan.results[i].test : i \in 1 .. Len(plan.results)}
  BY <1>1 DEF TallyInv, Live
<1>3. /\ PlanInv(decl, plan) /\ plan.decl = decl /\ plan.results \in Seq(Result) /\ DOMAIN plan.results = 1 .. Len(plan.results)
      /\ decl.retries \in [Tests -> Nat] /\ Len(plan.results) \in Nat
  BY PlanFields, DeclFacts DEF IInv, TypeInv
<1>4. reported \subseteq Tests
  <2>1. \A i \in 1 .. Len(plan.results) : plan.results[i] \in Result
    BY <1>3
  <2>2. \A r \in Result : r.test \in Tests
    BY DEF Result
  <2> QED  BY <1>2, <2>1, <2>2
<1>5. ASSUME NEW t \in Tests PROVE Fails(plan, t) <=> t \in reported /\ FinallyFailed(t)
  <2> DEFINE s == plan.results
             k == LastResult(t)
  <2>1. CASE InSerialGroup(t)
    <3>1. ClassifiedFailed(plan, t) => t \in reported
      <4> SUFFICES ASSUME ClassifiedFailed(plan, t) PROVE t \in reported
        OBVIOUS
      <4>1. PICK r \in Range(s) : r.test = t
        BY DEF ClassifiedFailed
      <4> QED  BY <1>2, <1>3, <4>1 DEF Range
    <3> QED  BY <1>3, <2>1, <3>1 DEF Fails, FinallyFailed, InSerialGroup
  <2>2. CASE ~InSerialGroup(t)
    <3>1. Fails(plan, t) <=> Spent(decl, s, t)
      BY <1>3, <2>2 DEF Fails, InSerialGroup
    <3>2. FinallyFailed(t) <=> ~s[k].expected /\ s[k].outcome # "interrupted" /\ s[k].retry = decl.retries[t]
      BY <2>2 DEF FinallyFailed
    <3>3. k = LastPlace(s, t)
      BY DEF LastResult, SelectLastInSeq, LastPlace
    <3> HIDE DEF k, s
    <3>4. s = plan.results
      BY DEF s
    <3>5. ASSUME Spent(decl, s, t) PROVE t \in reported /\ FinallyFailed(t)
      <4>1. PICK i \in 1 .. Len(s) : /\ s[i].test = t /\ ~s[i].expected /\ s[i].outcome # "interrupted"
                                     /\ s[i].retry = decl.retries[t]
        BY <3>5 DEF Spent
      <4>2. k \in 1 .. Len(s) /\ s[k].test = t /\ i <= k
        BY <1>3, <3>3, <3>4, <4>1, LastPlaceFacts
      <4>3. s[k].retry \in Nat /\ s[k].retry <= decl.retries[t] /\ decl.retries[t] \in Nat
        <5>1. Allowed(decl, s[k])
          BY <1>2, <1>3, <3>4, <4>2 DEF CountInv, AllowedInv
        <5>2. s[k] \in Result
          BY <1>3, <3>4, <4>2
        <5> QED  BY <1>3, <2>2, <4>2, <5>1, <5>2 DEF Allowed, InSerialGroup, Result
      <4>4. i < k => s[i].retry < s[k].retry
        BY <1>3, <3>4, <4>1, <4>2 DEF PlanInv, Increasing
      <4>5. i = k
        BY <4>1, <4>2, <4>3, <4>4
      <4> QED  BY <1>2, <3>2, <3>4, <4>1, <4>5
    <3>6. ASSUME t \in reported, FinallyFailed(t) PROVE Spent(decl, s, t)
      <4>1. PICK i \in 1 .. Len(s) : s[i].test = t
        BY <1>2, <3>4, <3>6
      <4>2. k \in 1 .. Len(s) /\ s[k].test = t
        BY <1>3, <3>3, <3>4, <4>1, LastPlaceFacts, SMTT(40), ZenonT(60)
      <4> QED  BY <3>2, <3>6, <4>2 DEF Spent
    <3> QED  BY <3>1, <3>5, <3>6
  <2> QED  BY <2>1, <2>2
<1>6. {t \in reported : FinallyFailed(t)} = {t \in Tests : Fails(plan, t)}
  BY <1>4, <1>5
<1> QED  BY <1>2, <1>6 DEF CountInv

(* At every turn of the loop the failures that --max-failures is compared  *)
(* with are tests: each that has failed for good is counted once, however  *)
(* often it was retried or its group replayed, and no other is.            *)
THEOREM FailuresCountTests == Spec => []FailuresAreTests
<1>1. Init => TallyInv
  BY TallyInit
<1>2. IInv /\ AgreeInv /\ TallyInv /\ [Next]_vars => TallyInv'
  BY TallyNext DEF AgreeInv
<1>3. IInv /\ TallyInv => FailuresAreTests
  BY TallyMeans
<1> QED  BY <1>1, <1>2, <1>3, IInvHolds, AgreeInvHolds, PTL DEF Spec
=============================================================================
