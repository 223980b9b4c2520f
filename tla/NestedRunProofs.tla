---------------------------- MODULE NestedRunProofs ----------------------------
(***************************************************************************)
(* What a serial run of nested suites keeps, for every set of declarations *)
(* and any number of faults.                                               *)
(*                                                                         *)
(* First the retry plan alone, for any queue, any serial groups and any    *)
(* number of retries: PlanInv holds of the initial plan and every operator *)
(* keeps it; TurnInv gives the order of the attempts, and one lemma for    *)
(* each operator says what it leaves to come in this worker (Coming) and   *)
(* in any (Unsettled).                                                     *)
(*                                                                         *)
(* Then the run.  IInv says of the two plans, which know nothing of each   *)
(* other, how the runner holds them together: the attempt is the retry     *)
(* plan's, the suite plan has nothing to come that is final, and a worker  *)
(* with an unexpected result is about to go.  One lemma says what each     *)
(* operator of the suite plan keeps, one what each step of the runner      *)
(* does; at the end are the theorems.                                      *)
(***************************************************************************)
EXTENDS NestedRun, DataLemmas

-----------------------------------------------------------------------------
(* THE RETRY PLAN.                                                         *)

Attempts == [test : Tests, retry : Nat]
MaybeAttempt == Attempts \cup {NoAttempt}
Outcomes == {"interrupted", "timedOut", "failed", "skipped", "passed"}
Result == [test : Tests, retry : Nat, worker : Nat, outcome : Outcomes, expected : BOOLEAN]
Group ==
  [state : {"awaiting", "ready", "active", "retiring", "passed", "failed", "stopped"},
   cursor : Nat, retry : Nat, failed : BOOLEAN, stop : BOOLEAN, excluded : SUBSET Tests,
   worker : Nat, last : Nat]
SerialUnits(d) == {u \in Units(d) : IsSerial(d, u)}

(* The plans of a declaration. *)
PlanOf(d) ==
  [decl : {d}, queue : Seq(Attempts), active : MaybeAttempt, again : MaybeAttempt, retiring : Nat,
   amended : BOOLEAN, group : [SerialUnits(d) -> Group], failures : Nat, stop : BOOLEAN,
   finalized : SUBSET Tests, results : Seq(Result)]

(* Every result of the attempt's test is one of an earlier retry. *)
Newer(results, a) == \A i \in 1 .. Len(results) : results[i].test = a.test => results[i].retry < a.retry
Increasing(results) ==
  \A i, j \in 1 .. Len(results) : i < j /\ results[i].test = results[j].test => results[i].retry < results[j].retry

(* The queue has each ordinary test at most once, and never a test that is *)
(* active or waits for an exit.                                            *)
Waits(p, a) ==
  /\ ~IsSerial(p.decl, Unit(p.decl, a.test)) /\ Newer(p.results, a)
  /\ a.test # p.active.test /\ a.test # p.again.test
QueueInv(p) ==
  /\ \A k \in 1 .. Len(p.queue) : Waits(p, p.queue[k])
  /\ \A k, l \in 1 .. Len(p.queue) : k # l => p.queue[k].test # p.queue[l].test

(* A retry waits for the exit of a worker. *)
AgainInv(p) ==
  p.again # NoAttempt =>
    /\ p.active = NoAttempt /\ p.retiring = Unit(p.decl, p.again.test)
    /\ ~IsSerial(p.decl, p.retiring) /\ Newer(p.results, p.again)

(* A group works through its members from the first: the results of this   *)
(* wave are behind its cursor, those of other waves have smaller retries.  *)
Behind(d, u, g, r) ==
  Unit(d, r.test) = u =>
    /\ r.retry <= g.retry /\ (g.state = "awaiting" => r.retry < g.retry)
    /\ r.retry = g.retry => r.test < g.cursor
GroupInv(d, u, g, results) ==
  /\ g.cursor \in u .. LastMember(d, u) + 1 /\ g.excluded \subseteq Members(d, u)
  /\ g.state = "ready" => g.cursor <= LastMember(d, u) /\ g.cursor \notin g.excluded
  /\ g.state = "awaiting" => g.excluded # Members(d, u)
  /\ g.excluded = Members(d, u) => Over(g) \/ ~(g.retry < MaxRetries(d, u))
  /\ \A i \in 1 .. Len(results) : Behind(d, u, g, results[i])
GroupsInv(p) == \A u \in SerialUnits(p.decl) : GroupInv(p.decl, u, p.group[u], p.results)

(* The active attempt is a new one, and of its group's wave. *)
ActiveInv(p) ==
  p.active # NoAttempt =>
    /\ p.retiring = 0 /\ p.again = NoAttempt /\ Newer(p.results, p.active)
    /\ LET u == Unit(p.decl, p.active.test)
       IN IsSerial(p.decl, u) =>
            /\ p.group[u].state = "active" /\ p.active.retry = p.group[u].retry
            /\ p.active.test < p.group[u].cursor /\ p.active.test \notin p.group[u].excluded

(* A group is begun only when all that comes before it is done, and then   *)
(* nothing else is.                                                        *)
Started(g) == g.state \in {"ready", "active", "retiring"}
StartedInv(p) ==
  \A u \in SerialUnits(p.decl) :
    Started(p.group[u]) =>
      /\ \A v \in Units(p.decl) : v < u => UnitDone(p, v)
      /\ p.active # NoAttempt => Unit(p.decl, p.active.test) = u

PlanInv(d, p) ==
  /\ p \in PlanOf(d) /\ Increasing(p.results)
  /\ QueueInv(p) /\ AgainInv(p) /\ GroupsInv(p) /\ ActiveInv(p) /\ StartedInv(p)

-----------------------------------------------------------------------------
(* Units.                                                                  *)

(* Tests are numbered without a gap.                                       *)
LEMMA TestNumbers ==
  /\ IsFiniteSet(Tests) /\ 0 \notin Tests
  /\ \A t \in Tests : t \in Nat /\ t >= 1 /\ \A s \in 1 .. t : s \in Tests
<1>1. Cardinality(Tests) \in Nat
  BY RetryPlanAssumption, FS_CardinalityType
<1> QED  BY <1>1, RetryPlanAssumption

(* A unit is a stretch of tests, and is named by its first.                *)
LEMMA UnitFacts ==
  ASSUME NEW d, NEW t \in Tests
  PROVE  /\ Unit(d, t) \in Tests /\ Unit(d, t) <= t
         /\ GroupSuite(d, Unit(d, t)) = GroupSuite(d, t)
         /\ \A s \in Unit(d, t) .. t : Unit(d, s) = Unit(d, t)
<1> DEFINE same(x) == {i \in 1 .. x : \A j \in i .. x : GroupSuite(d, j) = GroupSuite(d, x)}
           u == Unit(d, t)
<1>1. ASSUME NEW x \in Tests
      PROVE  Unit(d, x) \in same(x) /\ \A i \in same(x) : Unit(d, x) <= i
  <2>1. x \in Nat /\ x >= 1
    BY TestNumbers
  <2>2. x \in same(x) /\ \A i \in same(x) : i \in Nat
    BY <2>1
  <2>3. Unit(d, x) = Min(same(x))
    BY DEF Unit
  <2> HIDE DEF same
  <2> QED  BY <2>2, <2>3, MinIsMember
<1>2. t \in Nat /\ u \in 1 .. t /\ \A j \in u .. t : GroupSuite(d, j) = GroupSuite(d, t)
  BY <1>1, TestNumbers
<1>3. u \in Tests /\ u <= t /\ GroupSuite(d, u) = GroupSuite(d, t)
  BY <1>2, TestNumbers
<1>4. ASSUME NEW s \in u .. t PROVE Unit(d, s) = u
  <2>1. s \in Tests /\ s \in Nat /\ u \in Nat /\ GroupSuite(d, s) = GroupSuite(d, t)
    BY <1>2, TestNumbers
  <2>2. u \in same(s)
    BY <1>2, <2>1
  <2>3. Unit(d, s) \in 1 .. s /\ \A j \in Unit(d, s) .. s : GroupSuite(d, j) = GroupSuite(d, s)
    BY <1>1, <2>1
  <2>4. Unit(d, s) <= u
    BY <1>1, <2>1, <2>2
  <2>5. Unit(d, s) \in same(t)
    <3>1. Unit(d, s) \in 1 .. t
      BY <1>2, <2>1, <2>3
    <3>2. ASSUME NEW j \in Unit(d, s) .. t PROVE GroupSuite(d, j) = GroupSuite(d, t)
      <4>1. j \in Unit(d, s) .. s \/ j \in u .. t
        BY <1>2, <2>1, <2>3
      <4> QED  BY <1>2, <2>1, <2>3, <4>1
    <3> QED  BY <3>1, <3>2
  <2>6. u <= Unit(d, s)
    BY <1>1, <2>5
  <2> HIDE DEF u
  <2> QED  BY <2>1, <2>3, <2>4, <2>6
<1> QED  BY <1>3, <1>4

(* The members of a unit are the tests from its first to its last.         *)
LEMMA MemberFacts ==
  ASSUME NEW d, NEW u \in Units(d)
  PROVE  /\ u \in Tests /\ u \in Nat /\ u # 0 /\ Unit(d, u) = u
         /\ LastMember(d, u) \in Nat /\ u <= LastMember(d, u)
         /\ \A t : t \in Members(d, u) <=> t \in u .. LastMember(d, u)
         /\ Members(d, u) \subseteq Tests /\ IsFiniteSet(Members(d, u)) /\ u \in Members(d, u)
         /\ \A t \in Members(d, u) : Unit(d, t) = u
<1>1. PICK x \in Tests : u = Unit(d, x)
  BY DEF Units
<1>2. u \in Tests /\ u <= x /\ x \in Nat /\ u \in Nat /\ u # 0
  BY <1>1, UnitFacts, TestNumbers
<1>3. Unit(d, u) = u
  BY <1>1, <1>2, UnitFacts
<1>4. u \in Members(d, u) /\ Members(d, u) \subseteq Tests
  BY <1>2, <1>3 DEF Members
<1>5. IsFiniteSet(Members(d, u)) /\ \A t \in Members(d, u) : t \in Nat
  BY <1>4, TestNumbers, FS_Subset
<1>6. LastMember(d, u) \in Members(d, u) /\ \A t \in Members(d, u) : t <= LastMember(d, u)
  BY <1>4, <1>5, MaxIsMember DEF LastMember
<1>7. ASSUME NEW t, t \in u .. LastMember(d, u) PROVE t \in Members(d, u)
  <2>1. LastMember(d, u) \in Tests /\ Unit(d, LastMember(d, u)) = u
    BY <1>6 DEF Members
  <2>2. Unit(d, t) = u
    BY <1>7, <2>1, UnitFacts
  <2>3. t \in 1 .. LastMember(d, u)
    BY <1>2, <1>5, <1>6, <1>7
  <2>4. t \in Tests
    BY <2>1, <2>3, TestNumbers
  <2> QED  BY <2>2, <2>4 DEF Members
<1>8. \A t \in Members(d, u) : u <= t /\ Unit(d, t) = u
  BY UnitFacts DEF Members
<1>9. \A t \in Members(d, u) : t \in u .. LastMember(d, u)
  BY <1>2, <1>5, <1>6, <1>8
<1> QED  BY <1>2, <1>3, <1>4, <1>5, <1>6, <1>7, <1>8, <1>9

(* The units of tests, and which of them are serial.                       *)
LEMMA UnitOfTest ==
  ASSUME NEW d, NEW t \in Tests
  PROVE  /\ Unit(d, t) \in Units(d) /\ Unit(d, t) # 0 /\ t \in Members(d, Unit(d, t))
         /\ IsSerial(d, Unit(d, t)) <=> Unit(d, t) \in SerialUnits(d)
         /\ Legacy(d) => ~IsSerial(d, Unit(d, t))
<1>1. Unit(d, t) \in Units(d) /\ t \in Members(d, Unit(d, t))
  BY DEF Units, Members
<1>2. Unit(d, t) \in Tests
  BY UnitFacts
<1> QED  BY <1>1, <1>2, TestNumbers DEF SerialUnits, Legacy, IsSerial

-----------------------------------------------------------------------------
(* Serial groups.                                                          *)

(* SkipExcluded moves the cursor to the next member that is not excluded.  *)
LEMMA SkipFacts ==
  ASSUME NEW d, NEW u \in Units(d), NEW g \in Group, g.cursor \in u .. LastMember(d, u) + 1,
         NEW h, h = SkipExcluded(d, u, g)
  PROVE  \E c \in g.cursor .. LastMember(d, u) + 1 :
           /\ h = [g EXCEPT !.cursor = c] /\ c \in u .. LastMember(d, u) + 1
           /\ c <= LastMember(d, u) => c \notin g.excluded
           /\ \A t \in g.cursor .. LastMember(d, u) : t \notin g.excluded => c <= t
<1> DEFINE last == LastMember(d, u)
           S == {t \in g.cursor .. last : t \notin g.excluded} \cup {last + 1}
<1>1. last \in Nat /\ u \in Nat /\ g.cursor \in Nat
  BY MemberFacts
<1>2. h = [g EXCEPT !.cursor = Min(S)]
  BY DEF SkipExcluded
<1>3. S # {} /\ \A t \in S : t \in Nat
  BY <1>1
<1>4. Min(S) \in S /\ \A t \in S : Min(S) <= t
  <2> HIDE DEF S
  <2> QED  BY <1>3, MinIsMember
<1>5. \A t \in S : t \in g.cursor .. last + 1 /\ t \in u .. last + 1 /\ (t <= last => t \notin g.excluded)
  BY <1>1
<1>6. \A t \in g.cursor .. last : t \notin g.excluded => t \in S
  OBVIOUS
<1> HIDE DEF S, last
<1> QED  BY <1>2, <1>4, <1>5, <1>6 DEF last

(* What a result of another unit changes for a group: nothing.             *)
LEMMA OtherResult ==
  ASSUME NEW d, NEW u, NEW g, NEW results \in Seq(Result), GroupInv(d, u, g, results),
         NEW r \in Result, Unit(d, r.test) # u, NEW more, more = Append(results, r)
  PROVE  GroupInv(d, u, g, more)
<1>1. /\ Len(more) = Len(results) + 1 /\ Len(results) \in Nat
      /\ \A i \in 1 .. Len(more) : more[i] = IF i <= Len(results) THEN results[i] ELSE r
  BY PushBackElements
<1>2. ASSUME NEW i \in 1 .. Len(more) PROVE Behind(d, u, g, more[i])
  <2>1. CASE i <= Len(results)
    <3>1. i \in 1 .. Len(results) /\ more[i] = results[i]
      BY <1>1, <2>1
    <3> QED  BY <3>1 DEF GroupInv
  <2>2. CASE ~(i <= Len(results))
    BY <1>1, <2>2 DEF Behind
  <2> QED  BY <2>1, <2>2
<1> QED  BY <1>2 DEF GroupInv

(* A wave begins at a member that is not excluded.                         *)
LEMMA BeginWaveKeeps ==
  ASSUME NEW d, NEW u \in Units(d), NEW g \in Group, NEW results \in Seq(Result), GroupInv(d, u, g, results),
         NEW w \in Nat, MayBeginWave(g, w), NEW h, h = BeginWave(d, u, g, w)
  PROVE  /\ h \in Group /\ GroupInv(d, u, h, results) /\ h.state = "ready"
         /\ h.cursor \notin h.excluded /\ h.excluded = g.excluded /\ h.retry = g.retry
<1> DEFINE f == [g EXCEPT !.cursor = u]
           last == LastMember(d, u)
<1>1. last \in Nat /\ u \in Nat /\ u <= last
  BY MemberFacts
<1>2. f \in Group /\ f.cursor = u /\ f.excluded = g.excluded /\ f.retry = g.retry /\ f.cursor \in u .. last + 1
  BY <1>1, SMTT(40) DEF Group
<1>3. h = [SkipExcluded(d, u, f) EXCEPT !.state = "ready", !.worker = w, !.last = w, !.failed = FALSE]
  BY DEF BeginWave
<1> HIDE DEF f
<1>4. PICK c \in f.cursor .. last + 1 :
        /\ SkipExcluded(d, u, f) = [f EXCEPT !.cursor = c]
        /\ c <= last => c \notin f.excluded
        /\ \A t \in f.cursor .. last : t \notin f.excluded => c <= t
  BY <1>2, SkipFacts
<1>5. /\ h \in Group /\ h.cursor = c /\ h.state = "ready" /\ h.excluded = g.excluded /\ h.retry = g.retry
  <2>1. c \in Nat
    BY <1>1, <1>2, <1>4
  <2>2. h = [f EXCEPT !.cursor = c, !.state = "ready", !.worker = w, !.last = w, !.failed = FALSE]
    BY <1>2, <1>3, <1>4 DEF Group
  <2> QED  BY <1>2, <2>1, <2>2, SMTT(40), ZenonT(60) DEF Group
<1>6. PICK t \in Members(d, u) : t \notin g.excluded
  <2>1. g.state = "awaiting"
    BY DEF MayBeginWave
  <2> QED  BY <2>1 DEF GroupInv
<1>7. t \in u .. last
  BY MemberFacts
<1>8. c \in u .. last /\ c \notin g.excluded
  BY <1>1, <1>2, <1>4, <1>6, <1>7
<1>9. c \in Members(d, u)
  BY <1>8, MemberFacts
<1>10. ASSUME NEW i \in 1 .. Len(results) PROVE Behind(d, u, h, results[i])
  <2>1. Behind(d, u, g, results[i]) /\ g.state = "awaiting" /\ results[i] \in Result
    BY DEF GroupInv, MayBeginWave
  <2>2. results[i].retry \in Nat /\ g.retry \in Nat
    BY <2>1 DEF Result, Group
  <2> QED  BY <1>5, <2>1, <2>2 DEF Behind
<1>11. /\ h.cursor \in u .. last + 1 /\ h.excluded \subseteq Members(d, u) /\ h.cursor <= last /\ h.cursor \notin h.excluded
       /\ h.excluded # Members(d, u)
  BY <1>1, <1>5, <1>8, <1>9 DEF GroupInv
<1> HIDE DEF last
<1> QED  BY <1>5, <1>8, <1>10, <1>11 DEF GroupInv, last

(* The next member becomes active, and the cursor goes on.                 *)
MemberActive(g) == [g EXCEPT !.cursor = @ + 1, !.state = "active"]

(* The member at the cursor becomes the active one.                        *)
LEMMA AdmitMember ==
  ASSUME NEW d, NEW u \in Units(d), NEW g \in Group, NEW results \in Seq(Result), GroupInv(d, u, g, results),
         g.state = "ready", NEW h, h = MemberActive(g)
  PROVE  /\ h \in Group /\ GroupInv(d, u, h, results) /\ h.state = "active" /\ h.excluded = g.excluded
         /\ g.cursor \in Members(d, u) \ g.excluded /\ h.retry = g.retry /\ g.cursor < h.cursor
         /\ Newer(results, Attempt(g.cursor, g.retry))
<1> DEFINE last == LastMember(d, u)
<1>1. last \in Nat /\ u \in Nat /\ g.cursor \in u .. last /\ g.cursor \notin g.excluded
  BY MemberFacts DEF GroupInv
<1>2. /\ h \in Group /\ h.state = "active" /\ h.excluded = g.excluded /\ h.retry = g.retry
      /\ h.cursor = g.cursor + 1
  <2>1. g.cursor \in Nat /\ g.cursor + 1 \in Nat
    BY <1>1
  <2> QED  BY <2>1 DEF Group, MemberActive
<1>3. g.cursor \in Members(d, u)
  BY <1>1, MemberFacts
<1>4. ASSUME NEW i \in 1 .. Len(results)
      PROVE  /\ Behind(d, u, h, results[i])
             /\ results[i].test = g.cursor => results[i].retry < g.retry
  <2>1. Behind(d, u, g, results[i]) /\ results[i] \in Result
    BY DEF GroupInv
  <2>2. results[i].retry \in Nat /\ g.retry \in Nat /\ results[i].test \in Nat /\ g.cursor \in Nat
    BY <2>1, TestNumbers DEF Result, Group
  <2>3. results[i].test = g.cursor => Unit(d, results[i].test) = u
    BY <1>3, MemberFacts
  <2> QED  BY <1>2, <2>1, <2>2, <2>3 DEF Behind
<1>5. /\ h.cursor \in u .. last + 1 /\ g.cursor < h.cursor
      /\ h.excluded \subseteq Members(d, u)
  BY <1>1, <1>2 DEF GroupInv
<1>6. h.excluded = Members(d, u) => ~(h.retry < MaxRetries(d, u))
  BY <1>2 DEF GroupInv, Over
<1>7. Newer(results, Attempt(g.cursor, g.retry))
  BY <1>4 DEF Newer, Attempt
<1> HIDE DEF last
<1> QED  BY <1>1, <1>2, <1>3, <1>4, <1>5, <1>6, <1>7 DEF GroupInv, last

(* A member's result, which is behind the cursor.  An unexpected one       *)
(* retires the group's worker.                                             *)
MemberFinished(d, u, g, r, more, h) ==
  /\ h \in Group /\ GroupInv(d, u, h, more) /\ h.state \in {"ready", "retiring"}
  /\ ~r.expected => h.state = "retiring"
  /\ h.excluded = g.excluded /\ h.retry = g.retry

(* A member has its result: the group keeps its invariant.                 *)
LEMMA FinishMemberKeeps ==
  ASSUME NEW d, NEW u \in Units(d), NEW g \in Group, NEW results \in Seq(Result), GroupInv(d, u, g, results),
         g.state = "active", NEW r \in Result, r.retry = g.retry, r.test < g.cursor,
         NEW more, more = Append(results, r),
         NEW h, h = FinishMember(d, u, g, r.outcome, r.expected)
  PROVE  MemberFinished(d, u, g, r, more, h)
<1> DEFINE f == [g EXCEPT !.failed = @ \/ ~r.expected, !.stop = @ \/ r.outcome = "interrupted"]
           last == LastMember(d, u)
<1>1. last \in Nat /\ u \in Nat /\ u <= last /\ g.cursor \in u .. last + 1
  BY MemberFacts DEF GroupInv
<1>2. /\ f \in Group /\ f.cursor = g.cursor /\ f.excluded = g.excluded /\ f.retry = g.retry
      /\ f.state = "active" /\ f.cursor \in u .. last + 1 /\ (~r.expected => f.failed)
  BY <1>1 DEF Group, Result
<1> DEFINE k == SkipExcluded(d, u, f)
<1>3. h = [k EXCEPT !.state = IF k.failed \/ k.stop \/ k.cursor > last THEN "retiring" ELSE "ready"]
  BY DEF FinishMember
<1> HIDE DEF f
<1>4. PICK c \in f.cursor .. last + 1 :
        /\ k = [f EXCEPT !.cursor = c] /\ c \in u .. last + 1
        /\ c <= last => c \notin f.excluded
  BY <1>2, SkipFacts
<1> HIDE DEF k
<1>a. c \in Nat /\ last \in Nat /\ g.cursor \in Nat /\ g.cursor <= c
  BY <1>1, <1>2, <1>4
<1>5. /\ k \in Group /\ k.cursor = c /\ k.failed = f.failed /\ k.excluded = g.excluded /\ k.retry = g.retry
  <2> DEFINE x == [f EXCEPT !.cursor = c]
  <2>1. /\ x \in Group /\ x.cursor = c /\ x.failed = f.failed /\ x.excluded = f.excluded /\ x.retry = f.retry
    BY <1>2, <1>a DEF Group
  <2>2. k = x
    BY <1>4
  <2> HIDE DEF x
  <2> QED  BY <1>2, <2>1, <2>2
<1>6. /\ h \in Group /\ h.cursor = c /\ h.state \in {"ready", "retiring"} /\ h.excluded = g.excluded
      /\ h.retry = g.retry /\ (~r.expected => h.state = "retiring") /\ (h.state = "ready" => ~(c > last))
  BY <1>2, <1>3, <1>5 DEF Group
<1>7. /\ Len(more) = Len(results) + 1 /\ Len(results) \in Nat
      /\ \A i \in 1 .. Len(more) : more[i] = IF i <= Len(results) THEN results[i] ELSE r
  BY PushBackElements
<1>8. ASSUME NEW i \in 1 .. Len(more) PROVE Behind(d, u, h, more[i])
  <2>1. more[i] \in Result /\ more[i].retry \in Nat /\ more[i].test \in Nat /\ g.retry \in Nat
    <3>1. more[i] \in Result
      BY <1>7
    <3> QED  BY <3>1, TestNumbers DEF Result, Group
  <2>2. g.cursor \in Nat /\ c \in Nat /\ g.cursor <= c
    BY <1>1, <1>2, <1>4
  <2>3. Unit(d, more[i].test) = u =>
          more[i].retry <= g.retry /\ (more[i].retry = g.retry => more[i].test < g.cursor)
    <3>1. CASE i <= Len(results)
      <4>1. i \in 1 .. Len(results) /\ more[i] = results[i]
        BY <1>7, <3>1
      <4>2. Behind(d, u, g, more[i])
        BY <4>1 DEF GroupInv
      <4> QED  BY <4>2 DEF Behind
    <3>2. CASE ~(i <= Len(results))
      <4>1. more[i] = r
        BY <1>7, <3>2
      <4> QED  BY <2>1, <4>1
    <3> QED  BY <3>1, <3>2
  <2>4. h.cursor = c /\ h.retry = g.retry /\ h.state # "awaiting"
    BY <1>6
  <2> QED  BY <2>1, <2>2, <2>3, <2>4 DEF Behind
<1>9. h.cursor \in u .. last + 1 /\ (h.state = "ready" => h.cursor <= last /\ h.cursor \notin h.excluded)
  <2>1. h.cursor \in u .. last + 1
    BY <1>4, <1>6
  <2>2. ASSUME h.state = "ready" PROVE c <= last
    <3> HIDE DEF last
    <3> QED  BY <1>6, <1>a, <2>2
  <2>3. c <= last => c \notin g.excluded
    BY <1>2, <1>4
  <2> HIDE DEF last
  <2> QED  BY <1>6, <2>1, <2>2, <2>3
<1>10. /\ h.excluded \subseteq Members(d, u)
       /\ h.excluded = Members(d, u) => ~(h.retry < MaxRetries(d, u))
  BY <1>6 DEF GroupInv, Over
<1> HIDE DEF last
<1> QED  BY <1>6, <1>8, <1>9, <1>10 DEF GroupInv, last, MemberFinished

(* The worker of a wave exits: the group is over, or awaits another wave.  *)
LEMMA RetiredKeeps ==
  ASSUME NEW d, NEW u \in Units(d), NEW g \in Group, NEW results \in Seq(Result), GroupInv(d, u, g, results),
         g.state = "retiring", NEW h, h = Retired(d, u, g)
  PROVE  /\ h \in Group /\ GroupInv(d, u, h, results) /\ h.state \notin {"ready", "active", "retiring"}
         /\ h.excluded = g.excluded
<1> DEFINE again == ~g.stop /\ g.failed /\ g.retry < MaxRetries(d, u)
<1>1. /\ h \in Group /\ h.excluded = g.excluded /\ h.cursor = g.cursor
      /\ h.retry = IF again THEN g.retry + 1 ELSE g.retry
      /\ h.state \in {"stopped", "passed", "awaiting", "failed"} /\ (h.state = "awaiting" => again)
  <2> DEFINE states == {"awaiting", "ready", "active", "retiring", "passed", "failed", "stopped"}
             st == IF g.stop THEN "stopped" ELSE IF ~g.failed THEN "passed"
                   ELSE IF again THEN "awaiting" ELSE "failed"
             re == IF again THEN g.retry + 1 ELSE g.retry
  <2>1. h = [g EXCEPT !.state = st, !.retry = re, !.worker = 0]
    BY DEF Retired, Group
  <2>2. re \in Nat
    BY DEF Group
  <2>3. st \in {"stopped", "passed", "awaiting", "failed"} /\ (st = "awaiting" => again)
    <3> HIDE DEF again
    <3> QED  OBVIOUS
  <2>4. PICK state \in states, retry \in Nat : /\ h = [g EXCEPT !.state = state, !.retry = retry, !.worker = 0]
                                              /\ state = st /\ retry = re
    <3>1. st \in states
      BY <2>3
    <3> HIDE DEF st, re, states
    <3> QED  BY <2>1, <2>2, <3>1
  <2>5. /\ h \in Group /\ h.excluded = g.excluded /\ h.cursor = g.cursor
        /\ h.retry = retry /\ h.state = state
    <3> HIDE DEF st, re, again
    <3> DEFINE x == [g EXCEPT !.state = state, !.retry = retry, !.worker = 0]
    <3>1. /\ x \in Group /\ x.excluded = g.excluded /\ x.cursor = g.cursor
          /\ x.retry = retry /\ x.state = state
      BY DEF Group
    <3>2. h = x
      BY <2>4
    <3> HIDE DEF x
    <3> QED  BY <3>1, <3>2
  <2> QED  BY <2>3, <2>4, <2>5
<1>2. ASSUME NEW i \in 1 .. Len(results) PROVE Behind(d, u, h, results[i])
  <2>1. Behind(d, u, g, results[i]) /\ results[i] \in Result /\ g.retry \in Nat
    BY DEF GroupInv, Group
  <2>2. results[i].retry \in Nat
    BY <2>1 DEF Result
  <2> HIDE DEF again
  <2> QED  BY <1>1, <2>1, <2>2 DEF Behind
<1>3. again => g.excluded # Members(d, u)
  BY DEF GroupInv, Over
<1>4. h.state # "awaiting" => Over(h)
  BY <1>1 DEF Over
<1> HIDE DEF again
<1>5. g.excluded = Members(d, u) => Over(h)
  BY <1>1, <1>3, <1>4
<1> QED  BY <1>1, <1>2, <1>3, <1>5 DEF GroupInv

(* A stop ends a group that waits and retires the worker of one that runs. *)
LEMMA StopGroupKeeps ==
  ASSUME NEW d, NEW u, NEW g \in Group, NEW results, GroupInv(d, u, g, results), NEW h, h = StopGroup(g)
  PROVE  /\ h \in Group /\ GroupInv(d, u, h, results) /\ h.state \notin {"ready", "awaiting"}
         /\ Started(h) => Started(g)
         /\ g.state = "ready" => h.state = "retiring"
         /\ Over(g) => Over(h)
         /\ g.state = "active" => h.state = "active"
         /\ h.excluded = g.excluded /\ h.retry = g.retry /\ h.cursor = g.cursor
<1>1. /\ h \in Group /\ h.state \notin {"ready", "awaiting"}
      /\ Started(h) => Started(g)
      /\ g.state = "ready" => h.state = "retiring"
      /\ Over(g) => Over(h)
      /\ g.state = "active" => h.state = "active"
      /\ h.excluded = g.excluded /\ h.retry = g.retry /\ h.cursor = g.cursor
  BY DEF StopGroup, Group, Started, Over
<1>2. \A i \in 1 .. Len(results) : Behind(d, u, h, results[i])
  BY <1>1 DEF GroupInv, Behind
<1> QED  BY <1>1, <1>2 DEF GroupInv

(* Tests are excluded: a group that waits for its first member passes when *)
(* none is left, one that runs goes on behind them.                        *)
LEMMA ExcludeMembersKeeps ==
  ASSUME NEW d, NEW u \in Units(d), NEW g \in Group, NEW results \in Seq(Result), GroupInv(d, u, g, results),
         NEW ids \in SUBSET Tests,
         Started(g) => (\E m \in Members(d, u) : m \notin g.excluded \cup ids) \/ ~(g.retry < MaxRetries(d, u)),
         NEW h, h = ExcludeMembers(d, u, g, ids)
  PROVE  /\ h \in Group /\ GroupInv(d, u, h, results)
         /\ h.excluded = g.excluded \cup (ids \cap Members(d, u))
         /\ Over(g) => Over(h)
         /\ Over(h) => Over(g) \/ h.excluded = Members(d, u)
         /\ Started(h) => Started(g)
         /\ g.state = "retiring" => h.state = "retiring"
<1> DEFINE last == LastMember(d, u)
           e == g.excluded \cup (ids \cap Members(d, u))
           f == [g EXCEPT !.excluded = e]
           k == SkipExcluded(d, u, f)
           state == IF g.state = "ready" /\ k.cursor > last THEN "retiring"
                    ELSE IF g.state = "awaiting" /\ e = Members(d, u) THEN "passed" ELSE g.state
<1>1. last \in Nat /\ u \in Nat /\ u <= last /\ g.cursor \in u .. last + 1
  BY MemberFacts DEF GroupInv
<1>2. e \subseteq Members(d, u) /\ e \in SUBSET Tests
  BY MemberFacts DEF GroupInv
<1>3. /\ f \in Group /\ f.cursor = g.cursor /\ f.excluded = e /\ f.retry = g.retry /\ f.state = g.state
  <2> HIDE DEF e
  <2> QED  BY <1>2 DEF Group
<1>4. h = [k EXCEPT !.state = IF @ = "ready" /\ k.cursor > last THEN "retiring"
                              ELSE IF @ = "awaiting" /\ k.excluded = Members(d, u) THEN "passed" ELSE @]
  BY DEF ExcludeMembers
<1> HIDE DEF e, f
<1>5. PICK c \in f.cursor .. last + 1 :
        /\ k = [f EXCEPT !.cursor = c] /\ c \in u .. last + 1
        /\ c <= last => c \notin f.excluded
  BY <1>1, <1>3, SkipFacts
<1>6. c \in Nat /\ g.cursor \in Nat /\ g.cursor <= c
  BY <1>1, <1>3, <1>5
<1>7. k \in Group /\ k.cursor = c /\ k.excluded = e /\ k.retry = g.retry /\ k.state = g.state
  <2> DEFINE x == [f EXCEPT !.cursor = c]
  <2>1. x \in Group /\ x.cursor = c /\ x.excluded = f.excluded /\ x.retry = f.retry /\ x.state = f.state
    BY <1>3, <1>6 DEF Group
  <2>2. k = x
    BY <1>5
  <2> HIDE DEF x, k
  <2> QED  BY <1>3, <2>1, <2>2
<1>8. h = [k EXCEPT !.state = state]
  BY <1>4, <1>7 DEF Group
<1>9. /\ state \in {"awaiting", "ready", "active", "retiring", "passed", "failed", "stopped"}
      /\ state = "ready" => g.state = "ready" /\ ~(c > last)
      /\ state = "awaiting" => g.state = "awaiting" /\ e # Members(d, u)
      /\ g.state = "retiring" => state = "retiring"
      /\ g.state \in {"passed", "failed", "stopped"} => state = g.state
      /\ state \in {"passed", "failed", "stopped"} => state = g.state \/ e = Members(d, u)
      /\ state \in {"ready", "active", "retiring"} => g.state \in {"ready", "active", "retiring"}
      /\ g.state = "awaiting" /\ e = Members(d, u) => state = "passed"
  <2>1. g.state \in {"awaiting", "ready", "active", "retiring", "passed", "failed", "stopped"}
    BY DEF Group
  <2> HIDE DEF k
  <2> QED  BY <1>7, <2>1
<1> HIDE DEF k, state
<1>10. h \in Group /\ h.state = state /\ h.cursor = c /\ h.excluded = e /\ h.retry = g.retry
  <2> DEFINE x == [k EXCEPT !.state = state]
  <2>1. x \in Group /\ x.state = state /\ x.cursor = k.cursor /\ x.excluded = k.excluded /\ x.retry = k.retry
    BY <1>7, <1>9 DEF Group
  <2> HIDE DEF x
  <2> QED  BY <1>7, <1>8, <2>1 DEF x
<1>11. ASSUME NEW i \in 1 .. Len(results) PROVE Behind(d, u, h, results[i])
  <2>1. Behind(d, u, g, results[i]) /\ results[i] \in Result
    BY DEF GroupInv
  <2>2. results[i].test \in Nat
    BY <2>1, TestNumbers DEF Result
  <2> QED  BY <1>6, <1>9, <1>10, <2>1, <2>2 DEF Behind
<1>12. e = Members(d, u) => Over(h) \/ ~(h.retry < MaxRetries(d, u))
  <2>1. CASE Started(g)
    <3>1. e = Members(d, u) => ~(\E m \in Members(d, u) : m \notin g.excluded \cup ids)
      BY DEF e
    <3> QED  BY <1>10, <2>1, <3>1
  <2>2. CASE ~Started(g)
    BY <1>9, <1>10, <2>2 DEF Started, Over, Group
  <2> QED  BY <2>1, <2>2
<1>13. /\ h.cursor \in u .. last + 1
       /\ h.state = "ready" => h.cursor <= last /\ h.cursor \notin h.excluded
  <2>1. h.cursor \in u .. last + 1
    BY <1>5, <1>10
  <2>2. ASSUME h.state = "ready" PROVE c <= last
    <3> HIDE DEF last
    <3> QED  BY <1>1, <1>6, <1>9, <1>10, <2>2
  <2>3. c <= last => c \notin e
    BY <1>3, <1>5
  <2> HIDE DEF last
  <2> QED  BY <1>10, <2>1, <2>2, <2>3
<1>14. /\ Over(g) => Over(h)
       /\ Over(h) => Over(g) \/ h.excluded = Members(d, u)
       /\ Started(h) => Started(g)
       /\ g.state = "retiring" => h.state = "retiring"
  BY <1>9, <1>10 DEF Over, Started
<1>15. GroupInv(d, u, h, results)
  <2> HIDE DEF last
  <2> QED  BY <1>2, <1>9, <1>10, <1>11, <1>12, <1>13 DEF GroupInv, last
<1>16. h.excluded = g.excluded \cup (ids \cap Members(d, u))
  BY <1>10 DEF e
<1> QED  BY <1>10, <1>14, <1>15, <1>16

-----------------------------------------------------------------------------
(* Plans.                                                                  *)

(* The types of a plan's fields.                                           *)
LEMMA PlanFields ==
  ASSUME NEW d, NEW p, PlanInv(d, p)
  PROVE  /\ p \in PlanOf(d) /\ p.decl = d /\ p.queue \in Seq(Attempts)
         /\ p.active \in MaybeAttempt /\ p.again \in MaybeAttempt /\ p.retiring \in Nat
         /\ p.group \in [SerialUnits(d) -> Group] /\ p.failures \in Nat /\ p.finalized \subseteq Tests
         /\ p.results \in Seq(Result) /\ Len(p.results) \in Nat
         /\ p.active # NoAttempt => p.active \in Attempts /\ p.active.test \in Tests
         /\ p.again # NoAttempt => p.again \in Attempts /\ p.again.test \in Tests
         /\ NoAttempt.test = 0
<1>1. p \in PlanOf(d)
  BY DEF PlanInv
<1>2. /\ p.decl = d /\ p.queue \in Seq(Attempts)
      /\ p.active \in MaybeAttempt /\ p.again \in MaybeAttempt /\ p.retiring \in Nat
      /\ p.group \in [SerialUnits(d) -> Group] /\ p.failures \in Nat /\ p.finalized \subseteq Tests
      /\ p.results \in Seq(Result)
  BY <1>1 DEF PlanOf
<1>3. NoAttempt.test = 0 /\ \A a \in Attempts : a.test \in Tests
  BY DEF NoAttempt, Attempt, Attempts
<1> QED  BY <1>1, <1>2, <1>3 DEF MaybeAttempt

(* The current unit is the first that is not done.                         *)
LEMMA CurrentFacts ==
  ASSUME NEW p, Remaining(p) # {}
  PROVE  /\ Current(p) \in Units(p.decl) /\ ~UnitDone(p, Current(p))
         /\ \A v \in Units(p.decl) : v < Current(p) => UnitDone(p, v)
<1>1. Remaining(p) \subseteq Units(p.decl)
  BY DEF Remaining
<1>2. \A v \in Units(p.decl) : v \in Nat
  BY MemberFacts
<1>3. Current(p) \in Remaining(p) /\ \A v \in Remaining(p) : Current(p) <= v
  BY <1>1, <1>2, MinIsMember DEF Current
<1>4. ASSUME NEW v \in Units(p.decl), v < Current(p) PROVE UnitDone(p, v)
  <2>1. CASE v \in Remaining(p)
    BY <1>1, <1>2, <1>3, <1>4, <2>1
  <2>2. CASE v \notin Remaining(p)
    BY <2>2 DEF Remaining
  <2> QED  BY <2>1, <2>2
<1> QED  BY <1>1, <1>3, <1>4 DEF Remaining

(* A group that has begun is the current unit.                             *)
LEMMA StartedIsCurrent ==
  ASSUME NEW d, NEW p, PlanInv(d, p), NEW u \in SerialUnits(d), Started(p.group[u])
  PROVE  Remaining(p) # {} /\ Current(p) = u
<1>1. u \in Units(d) /\ IsSerial(d, u) /\ p.decl = d /\ u \in Nat
  BY PlanFields, MemberFacts DEF SerialUnits
<1>2. ~UnitDone(p, u)
  BY <1>1 DEF UnitDone, Over, Started
<1>3. u \in Remaining(p)
  BY <1>1, <1>2 DEF Remaining
<1>4. \A v \in Units(d) : v < u => UnitDone(p, v)
  BY <1>1 DEF PlanInv, StartedInv
<1>5. Current(p) \in Units(d) /\ ~UnitDone(p, Current(p)) /\ \A v \in Units(d) : v < Current(p) => UnitDone(p, v)
  BY <1>1, <1>3, CurrentFacts
<1>6. Current(p) \in Nat
  BY <1>5, MemberFacts
<1>7. ~(u < Current(p)) /\ ~(Current(p) < u)
  BY <1>1, <1>2, <1>4, <1>5
<1> QED  BY <1>1, <1>3, <1>6, <1>7

(* A group whose worker is to go is noticed, for it is the current unit.   *)
LEMMA RetiringIsNoticed ==
  ASSUME NEW d, NEW p, PlanInv(d, p), NEW u \in SerialUnits(d), p.group[u].state = "retiring"
  PROVE  NeedsWorkerRetirement(p)
<1>1. Remaining(p) # {} /\ Current(p) = u
  BY StartedIsCurrent DEF Started
<1>2. p.decl = d /\ IsSerial(d, u)
  BY PlanFields DEF SerialUnits
<1> QED  BY <1>1, <1>2 DEF NeedsWorkerRetirement

(* What is done stays done, unless the queue or the fence comes back to it. *)
LEMMA DoneStays ==
  ASSUME NEW p, NEW q, q.decl = p.decl, NEW u, UnitDone(p, u),
         IsSerial(p.decl, u) /\ Over(p.group[u]) => Over(q.group[u]),
         q.retiring = u => p.retiring = u,
         q.active = NoAttempt \/ q.active = p.active \/ Unit(p.decl, q.active.test) # u,
         \A i \in DOMAIN q.queue :
           \/ Unit(p.decl, q.queue[i].test) # u
           \/ \E j \in DOMAIN p.queue : p.queue[j].test = q.queue[i].test
  PROVE  UnitDone(q, u)
BY DEF UnitDone

(* Only the seven fields below matter.                                     *)
LEMMA OtherFields ==
  ASSUME NEW d, NEW p, PlanInv(d, p), NEW q \in PlanOf(d),
         q.queue = p.queue, q.active = p.active, q.again = p.again, q.retiring = p.retiring,
         q.group = p.group, q.results = p.results
  PROVE  PlanInv(d, q)
<1>1. q.decl = p.decl
  BY PlanFields DEF PlanOf
<1>2. \A u : UnitDone(p, u) => UnitDone(q, u)
  BY <1>1 DEF UnitDone
<1>3. QueueInv(q)
  BY <1>1 DEF PlanInv, QueueInv, Waits
<1>4. AgainInv(q) /\ ActiveInv(q)
  BY <1>1 DEF PlanInv, AgainInv, ActiveInv
<1>5. GroupsInv(q)
  BY <1>1 DEF PlanInv, GroupsInv
<1>6. StartedInv(q)
  BY <1>1, <1>2 DEF PlanInv, StartedInv
<1> QED  BY <1>3, <1>4, <1>5, <1>6 DEF PlanInv

-----------------------------------------------------------------------------
(* Operators on plans.                                                     *)

(* The plan that the constructor makes.                                    *)
LEMMA InitPlanKeeps ==
  ASSUME NEW d, NEW p, p = InitPlan(d)
  PROVE  /\ PlanInv(d, p) /\ p.active = NoAttempt /\ p.again = NoAttempt /\ p.results = <<>> /\ p.finalized = {}
         /\ \A u \in SerialUnits(d) : p.group[u].excluded = {} /\ ~Over(p.group[u])
<1> DEFINE all == [t \in Tests |-> Attempt(t, 0)]
           places == {t \in Tests : GroupSuite(d, t) = 0}
           queue == Kept(all, places)
<1>1. Cardinality(Tests) \in Nat /\ Tests = 1 .. Cardinality(Tests)
  BY RetryPlanAssumption, FS_CardinalityType
<1>2. all \in Seq(Attempts) /\ Len(all) = Cardinality(Tests)
  <2>1. all \in [1 .. Cardinality(Tests) -> Attempts]
    BY <1>1 DEF Attempt, Attempts
  <2> QED  BY <1>1, <2>1
<1>3. places \in SUBSET (1 .. Len(all))
  BY <1>1, <1>2
<1>4. /\ queue \in Seq(Attempts)
      /\ \E from \in [1 .. Len(queue) -> places] :
           /\ \A k \in 1 .. Len(queue) : queue[k] = all[from[k]]
           /\ \A k, l \in 1 .. Len(queue) : k < l => from[k] < from[l]
  <2>1. queue = Kept(all, places)
    OBVIOUS
  <2> HIDE DEF all, places, queue
  <2>2. queue \in Seq(Attempts) /\ \E from : KeptFrom(all, places, queue, from)
    BY ONLY <1>2, <1>3, <2>1, KeptPlaces
  <2>3. PICK from : KeptFrom(all, places, queue, from)
    BY ONLY <2>2
  <2>4. /\ from \in [1 .. Len(queue) -> places]
        /\ \A k \in 1 .. Len(queue) : queue[k] = all[from[k]]
        /\ \A k, l \in 1 .. Len(queue) : k < l => from[k] < from[l]
    BY ONLY <2>3 DEF KeptFrom
  <2> QED  BY ONLY <2>2, <2>4
<1>5. /\ p.decl = d /\ p.queue = queue /\ p.active = NoAttempt /\ p.again = NoAttempt /\ p.retiring = 0
      /\ p.results = <<>> /\ p.finalized = {} /\ p.group = [u \in SerialUnits(d) |-> InitGroup(u)]
  BY DEF InitPlan, SerialUnits
<1>6. \A u \in SerialUnits(d) : InitGroup(u) \in Group
  BY MemberFacts DEF InitGroup, Group, SerialUnits
<1>7. p \in PlanOf(d)
  <2>1. p.group \in [SerialUnits(d) -> Group]
    BY <1>5, <1>6
  <2>2. PICK group \in [SerialUnits(d) -> Group] : group = p.group
    BY <2>1
  <2>3. p = [decl |-> d, queue |-> queue, active |-> NoAttempt, again |-> NoAttempt, retiring |-> 0,
             amended |-> FALSE, group |-> group, failures |-> 0, stop |-> FALSE, finalized |-> {},
             results |-> <<>>]
    BY <1>5, <2>2 DEF InitPlan
  <2>4. NoAttempt \in MaybeAttempt /\ <<>> \in Seq(Result)
    BY DEF MaybeAttempt
  <2> HIDE DEF queue
  <2> QED  BY <1>4, <2>3, <2>4 DEF PlanOf
<1> HIDE DEF queue
<1>8. PICK from \in [1 .. Len(queue) -> places] :
         /\ \A k \in 1 .. Len(queue) : queue[k] = all[from[k]]
         /\ \A k, l \in 1 .. Len(queue) : k < l => from[k] < from[l]
  BY <1>4
<1>9. ASSUME NEW k \in 1 .. Len(queue)
      PROVE  queue[k].test = from[k] /\ from[k] \in Nat /\ from[k] # 0 /\ ~IsSerial(d, Unit(d, from[k]))
  <2>1. from[k] \in Tests /\ GroupSuite(d, from[k]) = 0
    OBVIOUS
  <2>2. queue[k] = Attempt(from[k], 0)
    BY <1>8, <2>1
  <2>3. GroupSuite(d, Unit(d, from[k])) = 0
    BY <2>1, UnitFacts
  <2> QED  BY <2>1, <2>2, <2>3, TestNumbers DEF Attempt, IsSerial
<1>10. QueueInv(p)
  <2>1. ASSUME NEW k \in 1 .. Len(queue) PROVE Waits(p, queue[k])
    BY <1>5, <1>9, PlanFields DEF Waits, Newer, NoAttempt, Attempt
  <2>2. ASSUME NEW k \in 1 .. Len(queue), NEW l \in 1 .. Len(queue), k # l PROVE queue[k].test # queue[l].test
    <3>1. k \in Nat /\ l \in Nat /\ (k < l \/ l < k)
      BY <1>4, <2>2
    <3>2. from[k] \in Nat /\ from[l] \in Nat /\ from[k] # from[l]
      BY <1>8, <1>9, <3>1
    <3> QED  BY <1>9, <3>2
  <2> QED  BY <1>5, <2>1, <2>2 DEF QueueInv
<1>11. ASSUME NEW u \in SerialUnits(d)
       PROVE  GroupInv(d, u, p.group[u], p.results) /\ p.group[u].excluded = {} /\ p.group[u].state = "awaiting"
  <2>1. p.group[u] = InitGroup(u) /\ Len(p.results) = 0
    BY <1>5
  <2>2. u \in Members(d, u) /\ u \in Nat /\ LastMember(d, u) \in Nat /\ u <= LastMember(d, u)
    BY MemberFacts DEF SerialUnits
  <2> QED  BY <2>1, <2>2 DEF GroupInv, InitGroup
<1>12. GroupsInv(p) /\ AgainInv(p) /\ ActiveInv(p) /\ StartedInv(p) /\ Increasing(p.results)
  BY <1>5, <1>11 DEF GroupsInv, AgainInv, ActiveInv, StartedInv, Started, Increasing
<1> QED  BY <1>5, <1>7, <1>10, <1>11, <1>12 DEF PlanInv, Over

(* Next: the head of the queue, or the next member of the current group.   *)
LEMMA NextAttemptKeeps ==
  ASSUME NEW d, NEW p, PlanInv(d, p), p.active = NoAttempt, NEW w \in Nat, NEW q, q = NextAttempt(p, w)
  PROVE  /\ PlanInv(d, q) /\ q.results = p.results /\ q.finalized = p.finalized /\ q.again = p.again
         /\ \A u \in SerialUnits(d) : q.group[u].excluded = p.group[u].excluded /\ (Over(q.group[u]) => Over(p.group[u]))
         /\ q.active # NoAttempt => \/ IsSerial(d, Unit(d, q.active.test))
                                    \/ p.queue # <<>> /\ q.active = Head(p.queue) /\ q.queue = Tail(p.queue)
<1> DEFINE u == Current(p)
           g == IF MayBeginWave(p.group[u], w) THEN BeginWave(p.decl, u, p.group[u], w) ELSE p.group[u]
           k == MemberActive(g)
<1>0. /\ p \in PlanOf(d) /\ p.decl = d /\ p.queue \in Seq(Attempts) /\ p.group \in [SerialUnits(d) -> Group]
      /\ p.results \in Seq(Result) /\ Len(p.results) \in Nat /\ NoAttempt.test = 0
  BY PlanFields
<1>1. CASE q = p
  BY <1>1
<1>2. ASSUME q # p
      PROVE  /\ ~NeedsWorkerRetirement(p) /\ Remaining(p) # {}
             /\ u \in Units(d) /\ ~UnitDone(p, u) /\ p.retiring = 0 /\ p.again = NoAttempt
             /\ \A v \in Units(d) : v < u => UnitDone(p, v)
             /\ \A v \in SerialUnits(d) : Started(p.group[v]) => v = u
  <2>1. ~NeedsWorkerRetirement(p) /\ Remaining(p) # {}
    BY <1>2 DEF NextAttempt
  <2>2. p.retiring = 0
    BY <2>1 DEF NeedsWorkerRetirement
  <2>3. p.again = NoAttempt
    <3> SUFFICES ASSUME p.again # NoAttempt PROVE FALSE
      OBVIOUS
    <3>1. p.retiring = Unit(d, p.again.test) /\ p.again.test \in Tests
      BY <1>0, PlanFields DEF PlanInv, AgainInv
    <3> QED  BY <2>2, <3>1, UnitOfTest
  <2> QED  BY <1>0, <2>1, <2>2, <2>3, CurrentFacts, StartedIsCurrent
<1>3. CASE q # p /\ ~IsSerial(d, u)
  <2>1. q = [p EXCEPT !.active = Head(p.queue), !.queue = Tail(@), !.amended = FALSE]
    BY <1>0, <1>3 DEF NextAttempt
  <2>2. p.queue # <<>>
    <3>1. u # 0
      BY <1>2, <1>3, MemberFacts
    <3>2. \E i \in DOMAIN p.queue : Unit(d, p.queue[i].test) = u
      BY <1>0, <1>2, <1>3, <3>1 DEF UnitDone
    <3> QED  BY <3>2
  <2> DEFINE a == p.queue[1]
             tail == Tail(p.queue)
  <2>3. /\ tail \in Seq(Attempts) /\ Len(p.queue) \in Nat \ {0} /\ Len(tail) = Len(p.queue) - 1
        /\ Head(p.queue) = a /\ a \in Attempts
        /\ \A i \in 1 .. Len(tail) : tail[i] = p.queue[i + 1] /\ i + 1 \in 1 .. Len(p.queue)
    BY <1>0, <2>2, PopFrontElements
  <2>4. Waits(p, a) /\ \A i \in 2 .. Len(p.queue) : Waits(p, p.queue[i]) /\ p.queue[i].test # a.test
    <3>1. 1 \in 1 .. Len(p.queue)
      BY <2>3
    <3> QED  BY <3>1 DEF PlanInv, QueueInv
  <2> HIDE DEF a, tail
  <2>5. /\ q.decl = d /\ q.active = a /\ q.queue = tail /\ q.again = NoAttempt /\ q.retiring = 0
        /\ q.group = p.group /\ q.results = p.results /\ q.finalized = p.finalized
    BY <1>0, <1>2, <1>3, <2>1, <2>3 DEF PlanOf, tail
  <2>6. q \in PlanOf(d)
    <3>1. q = [p EXCEPT !.active = a, !.queue = tail, !.amended = FALSE]
      BY <2>1, <2>3 DEF tail
    <3> QED  BY <1>0, <2>3, <3>1 DEF PlanOf, MaybeAttempt
  <2>7. a.test \in Tests /\ a # NoAttempt
    BY <1>0, <2>3, TestNumbers DEF Attempts
  <2>8. QueueInv(q)
    <3>1. ASSUME NEW i \in 1 .. Len(tail) PROVE Waits(q, tail[i])
      <4>1. i + 1 \in 2 .. Len(p.queue) /\ tail[i] = p.queue[i + 1]
        BY <2>3, SMTT(40)
      <4>2. Waits(p, tail[i]) /\ tail[i].test # a.test
        BY <2>4, <4>1
      <4> QED  BY <1>0, <2>5, <4>2, <1>2, <1>3 DEF Waits
    <3>2. ASSUME NEW i \in 1 .. Len(tail), NEW j \in 1 .. Len(tail), i # j PROVE tail[i].test # tail[j].test
      <4>1. /\ i + 1 # j + 1 /\ i + 1 \in 1 .. Len(p.queue) /\ j + 1 \in 1 .. Len(p.queue)
            /\ tail[i] = p.queue[i + 1] /\ tail[j] = p.queue[j + 1]
        BY <2>3, <3>2
      <4>2. \A m, n \in 1 .. Len(p.queue) : m # n => p.queue[m].test # p.queue[n].test
        BY DEF PlanInv, QueueInv
      <4> QED  BY <4>1, <4>2
    <3> QED  BY <2>5, <3>1, <3>2 DEF QueueInv
  <2>9. AgainInv(q) /\ GroupsInv(q)
    BY <1>0, <2>5 DEF AgainInv, GroupsInv, PlanInv
  <2>10. ActiveInv(q)
    BY <1>0, <2>4, <2>5 DEF ActiveInv, Waits
  <2>11. StartedInv(q)
    BY <1>2, <1>3, <2>5 DEF StartedInv, SerialUnits
  <2>12. Increasing(q.results)
    BY <2>5 DEF PlanInv
  <2> QED  BY <1>2, <1>3, <2>2, <2>3, <2>5, <2>6, <2>8, <2>9, <2>10, <2>11, <2>12 DEF PlanInv, tail
<1>4. CASE q # p /\ IsSerial(d, u)
  <2>1. u \in SerialUnits(d) /\ p.group[u] \in Group /\ GroupInv(d, u, p.group[u], p.results)
    BY <1>0, <1>2, <1>4 DEF SerialUnits, PlanInv, GroupsInv
  <2>2. g.state = "ready" /\ g.worker = w
    BY <1>0, <1>4 DEF NextAttempt
  <2>3. /\ g \in Group /\ GroupInv(d, u, g, p.results) /\ g.excluded = p.group[u].excluded
        /\ g.state = "ready" /\ (Over(p.group[u]) => p.group[u] = g)
    <3>1. CASE MayBeginWave(p.group[u], w)
      <4>1. g = BeginWave(d, u, p.group[u], w)
        BY <1>0, <3>1
      <4>2. p.group[u].state = "awaiting"
        BY <3>1 DEF MayBeginWave
      <4> HIDE DEF g, u
      <4>3. /\ g \in Group /\ GroupInv(d, u, g, p.results) /\ g.state = "ready"
            /\ g.excluded = p.group[u].excluded
        BY <1>0, <1>2, <1>4, <2>1, <3>1, <4>1, BeginWaveKeeps
      <4> QED  BY <4>2, <4>3 DEF Over
    <3>2. CASE ~MayBeginWave(p.group[u], w)
      BY <2>1, <2>2, <3>2
    <3> QED  BY <3>1, <3>2
  <2>4. q = [p EXCEPT !.active = Attempt(g.cursor, g.retry), !.amended = FALSE, !.group[u] = k]
    BY <1>0, <1>4 DEF NextAttempt, MemberActive
  <2> HIDE DEF g, u
  <2>5. /\ k \in Group /\ GroupInv(d, u, k, p.results) /\ k.state = "active" /\ k.excluded = g.excluded
        /\ g.cursor \in Members(d, u) \ g.excluded /\ k.retry = g.retry /\ g.cursor < k.cursor
        /\ Newer(p.results, Attempt(g.cursor, g.retry))
    <3>1. k = MemberActive(g)
      OBVIOUS
    <3>2. u \in Units(d) /\ g \in Group /\ GroupInv(d, u, g, p.results) /\ g.state = "ready" /\ p.results \in Seq(Result)
      BY <1>2, <1>4, <1>0, <2>3
    <3> HIDE DEF k
    <3> QED  BY <3>1, <3>2, AdmitMember
  <2> DEFINE a == Attempt(g.cursor, g.retry)
  <2>6. a \in Attempts /\ a.test = g.cursor /\ a.retry = g.retry /\ Unit(d, a.test) = u /\ a.test \in Tests
    <3>1. g.cursor \in Tests /\ Unit(d, g.cursor) = u /\ g.retry \in Nat
      <4>1. g.retry \in Nat
        BY <2>3 DEF Group
      <4> HIDE DEF k
      <4> QED  BY <1>2, <1>4, <2>5, <4>1, MemberFacts
    <3> QED  BY <3>1 DEF Attempt, Attempts
  <2>7. Newer(p.results, a) /\ a.test < k.cursor /\ a.test \notin k.excluded /\ a.retry = k.retry
    BY <2>5, <2>6
  <2> HIDE DEF k, a
  <2>8. /\ q.decl = d /\ q.active = a /\ q.queue = p.queue /\ q.again = NoAttempt /\ q.retiring = 0
        /\ q.group = [p.group EXCEPT ![u] = k] /\ q.results = p.results /\ q.finalized = p.finalized
    BY <1>0, <1>2, <1>4, <2>4 DEF PlanOf, a
  <2>9. /\ q.group[u] = k /\ \A v \in SerialUnits(d) : v # u => q.group[v] = p.group[v]
        /\ q.group \in [SerialUnits(d) -> Group]
    BY <1>0, <2>1, <2>5, <2>8
  <2>10. q \in PlanOf(d)
    <3> DEFINE groups == [p.group EXCEPT ![u] = k]
    <3>1. q = [p EXCEPT !.active = a, !.amended = FALSE, !.group = groups]
      BY <1>0, <2>4 DEF PlanOf, a
    <3>2. groups \in [SerialUnits(d) -> Group]
      BY <2>8, <2>9
    <3> HIDE DEF groups
    <3> QED  BY <1>0, <2>6, <3>1, <3>2 DEF PlanOf, MaybeAttempt
  <2>11. QueueInv(q)
    <3>1. ASSUME NEW i \in 1 .. Len(p.queue) PROVE Waits(q, p.queue[i])
      <4>1. Waits(p, p.queue[i])
        BY DEF PlanInv, QueueInv
      <4>2. p.queue[i].test # a.test
        BY <1>0, <1>4, <2>6, <4>1 DEF Waits
      <4> QED  BY <1>0, <1>2, <1>4, <2>8, <4>1, <4>2 DEF Waits
    <3> QED  BY <2>8, <3>1 DEF PlanInv, QueueInv
  <2>12. AgainInv(q) /\ Increasing(q.results)
    BY <2>8 DEF AgainInv, PlanInv
  <2>13. GroupsInv(q)
    BY <1>0, <2>5, <2>8, <2>9 DEF GroupsInv, PlanInv
  <2>14. ActiveInv(q)
    BY <2>5, <2>6, <2>7, <2>8, <2>9 DEF ActiveInv
  <2>15. StartedInv(q)
    <3>1. ASSUME NEW v \in SerialUnits(d), Started(q.group[v]) PROVE v = u
      BY <1>2, <1>4, <2>9, <3>1
    <3>2. ASSUME NEW v \in Units(d), v < u PROVE UnitDone(q, v)
      <4>1. UnitDone(p, v) /\ v # u /\ v # 0 /\ u \in Nat
        BY <1>2, <1>4, <3>2, MemberFacts
      <4>3. \A i \in DOMAIN q.queue : p.queue[i].test = q.queue[i].test /\ i \in DOMAIN p.queue
        BY <2>8
      <4>2. IsSerial(d, v) => q.group[v] = p.group[v]
        BY <2>9, <4>1 DEF SerialUnits
      <4>4. /\ q.decl = p.decl /\ (q.retiring = v => p.retiring = v) /\ Unit(p.decl, q.active.test) # v
            /\ IsSerial(p.decl, v) /\ Over(p.group[v]) => Over(q.group[v])
        BY <1>0, <2>6, <2>8, <4>1, <4>2
      <4>5. \A i \in DOMAIN q.queue : \E j \in DOMAIN p.queue : p.queue[j].test = q.queue[i].test
        BY <4>3
      <4> QED  BY <4>1, <4>4, <4>5, DoneStays
    <3> QED  BY <2>6, <2>8, <3>1, <3>2 DEF StartedInv
  <2>16. Over(q.group[u]) => Over(p.group[u])
    BY <2>5, <2>9 DEF Over
  <2> QED  BY <1>2, <1>4, <2>3, <2>5, <2>6, <2>8, <2>9, <2>10, <2>11, <2>12, <2>13, <2>14, <2>15, <2>16 DEF PlanInv
<1> QED  BY <1>1, <1>3, <1>4

(* The result that Finish appends.                                         *)
ResultOf(p, w, outcome, infrastructure) ==
  [test |-> p.active.test, retry |-> p.active.retry, worker |-> w, outcome |-> outcome,
   expected |-> Expected(p, outcome, infrastructure)]

(* Whether an ordinary test is tried again.                                *)
Retried(p, outcome, infrastructure) ==
  /\ ~Expected(p, outcome, infrastructure) /\ outcome # "interrupted"
  /\ p.active.retry < p.decl.retries[p.active.test]

(* Finish for an ordinary test, field by field.                            *)
FinishesOrdinary(d, p, q, w, outcome, infrastructure) ==
  /\ q \in PlanOf(d) /\ q.active = NoAttempt /\ q.group = p.group
  /\ q.results = Append(p.results, ResultOf(p, w, outcome, infrastructure))
  /\ q.retiring = IF Expected(p, outcome, infrastructure) THEN p.retiring ELSE Unit(d, p.active.test)
  /\ q.again = IF Retried(p, outcome, infrastructure)
               THEN Attempt(p.active.test, p.active.retry + 1) ELSE p.again
  /\ q.queue \in {p.queue, <<>>}
  /\ q.finalized = IF Retried(p, outcome, infrastructure) \/ Legacy(d)
                   THEN p.finalized ELSE p.finalized \cup {p.active.test}

(* Finish for an ordinary test changes these fields and no other.          *)
LEMMA FinishOrdinary ==
  ASSUME NEW d, NEW p, PlanInv(d, p), p.active # NoAttempt, NEW w \in Nat, NEW outcome \in Outcomes,
         NEW infrastructure \in BOOLEAN, NEW q, q = Finish(p, w, outcome, infrastructure),
         ~IsSerial(d, Unit(d, p.active.test))
  PROVE  FinishesOrdinary(d, p, q, w, outcome, infrastructure)
<1> DEFINE a == p.active
           expected == Expected(p, outcome, infrastructure)
           retried == Retried(p, outcome, infrastructure)
           cause == ~expected /\ ~retried /\ outcome # "interrupted"
           more == Append(p.results, ResultOf(p, w, outcome, infrastructure))
           retiring == IF expected THEN p.retiring ELSE Unit(d, a.test)
           again == IF retried THEN Attempt(a.test, a.retry + 1) ELSE p.again
           failures == IF cause THEN p.failures + 1 ELSE p.failures
           final == IF retried \/ Legacy(d) THEN p.finalized ELSE p.finalized \cup {a.test}
<1>0. /\ p \in PlanOf(d) /\ p.decl = d /\ p.queue \in Seq(Attempts)
      /\ p.active \in Attempts /\ p.active.test \in Tests /\ p.again \in MaybeAttempt /\ p.retiring \in Nat
      /\ p.failures \in Nat /\ p.finalized \subseteq Tests /\ p.results \in Seq(Result)
  BY PlanFields
<1>1. expected \in BOOLEAN
  BY DEF Expected
<1>2. a.retry \in Nat
  BY <1>0 DEF Attempts
<1>3. more \in Seq(Result)
  <2>1. ResultOf(p, w, outcome, infrastructure) \in Result
    BY <1>0, <1>1, <1>2 DEF ResultOf, Result
  <2> QED  BY <1>0, <2>1
<1>4. retiring \in Nat
  BY <1>0, UnitFacts, TestNumbers
<1>5. again \in MaybeAttempt
  BY <1>0, <1>2 DEF MaybeAttempt, Attempts, Attempt
<1>6. failures \in Nat /\ final \subseteq Tests
  BY <1>0
<1> DEFINE r == [p EXCEPT !.active = NoAttempt, !.amended = FALSE, !.results = more, !.retiring = retiring,
                          !.again = again, !.failures = failures, !.finalized = final]
<1>7. q = r \/ q = [r EXCEPT !.queue = <<>>]
  <2>1. more = Append(p.results, [test |-> a.test, retry |-> a.retry, worker |-> w,
                                  outcome |-> outcome, expected |-> expected])
    BY DEF ResultOf
  <2>2. retried <=> ~expected /\ a.retry < p.decl.retries[a.test] /\ outcome # "interrupted"
    BY DEF Retried
  <2> HIDE DEF more, retried
  <2> QED  BY <1>0, <2>1, <2>2 DEF Finish, RetiringAfter, PlanOf
<1> HIDE DEF more, retiring, again, failures, final
<1>8. /\ r \in PlanOf(d) /\ r.active = NoAttempt /\ r.group = p.group /\ r.results = more
      /\ r.retiring = retiring /\ r.again = again /\ r.queue = p.queue /\ r.finalized = final
  <2>1. NoAttempt \in MaybeAttempt
    BY DEF MaybeAttempt
  <2> QED  BY <1>0, <1>3, <1>4, <1>5, <1>6, <2>1 DEF PlanOf
<1> HIDE DEF r
<1>9. /\ q \in PlanOf(d) /\ q.active = NoAttempt /\ q.group = p.group /\ q.results = more
      /\ q.retiring = retiring /\ q.again = again /\ q.queue \in {p.queue, <<>>} /\ q.finalized = final
  <2>1. CASE q = r
    BY <1>8, <2>1
  <2>2. CASE q = [r EXCEPT !.queue = <<>>]
    <3> DEFINE x == [r EXCEPT !.queue = <<>>]
    <3>1. x \in PlanOf(d)
      <4>1. PICK none \in Seq(Attempts) : none = <<>>
        BY EmptySeq
      <4>2. x = [r EXCEPT !.queue = none]
        BY <4>1
      <4> HIDE DEF x
      <4> QED  BY <1>8, <4>2 DEF PlanOf
    <3>2. /\ x.active = r.active /\ x.group = r.group /\ x.results = r.results
          /\ x.retiring = r.retiring /\ x.again = r.again /\ x.queue = <<>> /\ x.finalized = r.finalized
      BY <1>8 DEF PlanOf
    <3>3. q = x
      BY <2>2
    <3> HIDE DEF x
    <3> QED  BY <1>8, <3>1, <3>2, <3>3
  <2> QED  BY <1>7, <2>1, <2>2
<1> QED  BY <1>9 DEF more, retiring, again, final, FinishesOrdinary

(* Finish for a member of a serial group, field by field.                  *)
LEMMA FinishSerial ==
  ASSUME NEW d, NEW p, PlanInv(d, p), p.active # NoAttempt, NEW w \in Nat, NEW outcome \in Outcomes,
         NEW infrastructure \in BOOLEAN, NEW q, q = Finish(p, w, outcome, infrastructure),
         NEW u, u = Unit(d, p.active.test), IsSerial(d, u),
         NEW h, h = FinishMember(d, u, p.group[u], outcome, Expected(p, outcome, infrastructure)), h \in Group
  PROVE  /\ q \in PlanOf(d) /\ q.active = NoAttempt /\ u \in SerialUnits(d)
         /\ q.group = [p.group EXCEPT ![u] = h]
         /\ q.results = Append(p.results, ResultOf(p, w, outcome, infrastructure))
         /\ q.retiring = p.retiring /\ q.again = p.again /\ q.queue = p.queue /\ q.finalized = p.finalized
<1> DEFINE a == p.active
           more == Append(p.results, ResultOf(p, w, outcome, infrastructure))
           groups == [p.group EXCEPT ![u] = h]
<1>0. /\ p \in PlanOf(d) /\ p.decl = d /\ p.group \in [SerialUnits(d) -> Group]
      /\ p.active \in Attempts /\ p.active.test \in Tests /\ p.results \in Seq(Result)
  BY PlanFields
<1>1. more \in Seq(Result)
  <2>1. ResultOf(p, w, outcome, infrastructure) \in Result
    BY <1>0 DEF ResultOf, Result, Attempts, Expected
  <2> QED  BY <1>0, <2>1
<1>2. u \in SerialUnits(d)
  BY <1>0, UnitOfTest
<1>3. groups \in [SerialUnits(d) -> Group]
  BY <1>0, <1>2
<1>4. q = [p EXCEPT !.active = NoAttempt, !.amended = FALSE, !.results = more, !.group = groups]
  BY <1>0, <1>2 DEF Finish, ResultOf, PlanOf
<1> HIDE DEF more, groups
<1>5. NoAttempt \in MaybeAttempt
  BY DEF MaybeAttempt
<1>6. /\ q \in PlanOf(d) /\ q.active = NoAttempt /\ q.group = groups /\ q.results = more
      /\ q.retiring = p.retiring /\ q.again = p.again /\ q.queue = p.queue /\ q.finalized = p.finalized
  BY <1>0, <1>1, <1>3, <1>4, <1>5 DEF PlanOf
<1> QED  BY <1>2, <1>6 DEF more, groups

(* Finish: the result is new for its test.  After an unexpected one the    *)
(* worker has to go, and what is not retried is final.                     *)
Finishes(d, p, q, w, outcome, infrastructure) ==
  /\ PlanInv(d, q) /\ q.active = NoAttempt
  /\ ResultOf(p, w, outcome, infrastructure) \in Result
  /\ q.results = Append(p.results, ResultOf(p, w, outcome, infrastructure))
  /\ ~Expected(p, outcome, infrastructure) => NeedsWorkerRetirement(q)
  /\ q.queue \in {p.queue, <<>>}
  /\ q.again # NoAttempt => /\ q.again.test = p.active.test /\ ~IsSerial(d, Unit(d, p.active.test))
                            /\ Retried(p, outcome, infrastructure)
  /\ ~IsSerial(d, Unit(d, p.active.test)) /\ Retried(p, outcome, infrastructure) =>
       q.again = Attempt(p.active.test, p.active.retry + 1)
  /\ \/ q.finalized = p.finalized
     \/ /\ q.finalized = p.finalized \cup {p.active.test} /\ ~IsSerial(d, Unit(d, p.active.test))
        /\ ~Retried(p, outcome, infrastructure) /\ ~Legacy(d)
  /\ \A v \in SerialUnits(d) :
       /\ q.group[v].excluded = p.group[v].excluded /\ (Over(q.group[v]) => Over(p.group[v]))
       /\ Started(q.group[v]) => v = Unit(d, p.active.test) /\ q.group[v].retry = p.active.retry

(* Finish keeps the invariant of the plan.                                 *)
LEMMA FinishKeeps ==
  ASSUME NEW d, NEW p, PlanInv(d, p), p.active # NoAttempt, NEW w \in Nat, NEW outcome \in Outcomes,
         NEW infrastructure \in BOOLEAN, NEW q, q = Finish(p, w, outcome, infrastructure)
  PROVE  Finishes(d, p, q, w, outcome, infrastructure)
<1> DEFINE a == p.active
           u == Unit(d, a.test)
           r == ResultOf(p, w, outcome, infrastructure)
<1>0. /\ p \in PlanOf(d) /\ p.decl = d /\ p.queue \in Seq(Attempts) /\ p.group \in [SerialUnits(d) -> Group]
      /\ p.results \in Seq(Result) /\ Len(p.results) \in Nat /\ NoAttempt.test = 0
      /\ a \in Attempts /\ a.test \in Tests /\ a.retry \in Nat
  BY PlanFields DEF Attempts
<1>1. /\ r \in Result /\ r.test = a.test /\ r.retry = a.retry /\ r.outcome = outcome
      /\ r.expected = Expected(p, outcome, infrastructure)
  BY <1>0 DEF ResultOf, Result, Expected
<1>2. /\ p.retiring = 0 /\ p.again = NoAttempt /\ Newer(p.results, a)
      /\ IsSerial(d, u) => /\ p.group[u].state = "active" /\ a.retry = p.group[u].retry
                           /\ a.test < p.group[u].cursor
  BY <1>0 DEF PlanInv, ActiveInv
<1>3. u # 0 /\ (IsSerial(d, u) <=> u \in SerialUnits(d)) /\ u \in Units(d) /\ a.test # 0
  BY <1>0, UnitOfTest, TestNumbers
<1>4. \A v \in SerialUnits(d) : Started(p.group[v]) => v = u
  BY <1>0 DEF PlanInv, StartedInv
<1> HIDE DEF r
<1>5. ASSUME q.results = Append(p.results, r) PROVE
        /\ Increasing(q.results)
        /\ \A b : Newer(p.results, b) /\ (b.test = a.test => a.retry < b.retry) => Newer(q.results, b)
        /\ \A v \in SerialUnits(d) : v # u => GroupInv(d, v, p.group[v], q.results)
  <2>1. /\ Len(q.results) = Len(p.results) + 1
        /\ \A i \in 1 .. Len(q.results) : q.results[i] = IF i <= Len(p.results) THEN p.results[i] ELSE r
    BY <1>0, <1>1, <1>5, PushBackElements
  <2>2. \A i \in 1 .. Len(q.results) :
          \/ i \in 1 .. Len(p.results) /\ q.results[i] = p.results[i]
          \/ i = Len(p.results) + 1 /\ q.results[i] = r
    BY <1>0, <2>1
  <2>3. ASSUME NEW i \in 1 .. Len(q.results), NEW j \in 1 .. Len(q.results), i < j,
               q.results[i].test = q.results[j].test
        PROVE  q.results[i].retry < q.results[j].retry
    <3>1. i \in 1 .. Len(p.results) /\ q.results[i] = p.results[i]
      BY <1>0, <2>1, <2>2, <2>3, SMTT(40)
    <3>2. CASE j \in 1 .. Len(p.results) /\ q.results[j] = p.results[j]
      BY <2>3, <3>1, <3>2 DEF PlanInv, Increasing
    <3>3. CASE q.results[j] = r
      BY <1>1, <1>2, <2>3, <3>1, <3>3 DEF Newer
    <3> QED  BY <2>2, <3>2, <3>3
  <2>4. ASSUME NEW b, Newer(p.results, b), b.test = a.test => a.retry < b.retry PROVE Newer(q.results, b)
    BY <1>1, <2>2, <2>4 DEF Newer
  <2>5. ASSUME NEW v \in SerialUnits(d), v # u PROVE GroupInv(d, v, p.group[v], q.results)
    <3>1. GroupInv(d, v, p.group[v], p.results) /\ Unit(d, r.test) # v
      BY <1>0, <1>1, <2>5 DEF PlanInv, GroupsInv
    <3> QED  BY <1>0, <1>1, <1>5, <3>1, OtherResult
  <2> QED  BY <2>3, <2>4, <2>5 DEF Increasing
<1>6. ASSUME NEW k \in 1 .. Len(p.queue)
      PROVE  Waits(p, p.queue[k]) /\ p.queue[k].test # a.test /\ p.queue[k].test \in Tests
  <2>1. p.queue[k] \in Attempts
    BY <1>0
  <2>2. Waits(p, p.queue[k])
    BY DEF PlanInv, QueueInv
  <2> QED  BY <2>1, <2>2 DEF Waits, Attempts
<1>7. CASE ~IsSerial(d, u)
  <2>1. /\ q \in PlanOf(d) /\ q.active = NoAttempt /\ q.group = p.group /\ q.results = Append(p.results, r)
        /\ q.retiring = IF r.expected THEN 0 ELSE u
        /\ q.again = IF Retried(p, outcome, infrastructure) THEN Attempt(a.test, a.retry + 1) ELSE NoAttempt
        /\ q.queue \in {p.queue, <<>>}
        /\ q.finalized = IF Retried(p, outcome, infrastructure) \/ Legacy(d)
                         THEN p.finalized ELSE p.finalized \cup {a.test}
    <3>1. FinishesOrdinary(d, p, q, w, outcome, infrastructure)
      BY <1>7, FinishOrdinary
    <3> QED  BY <1>1, <1>2, <3>1 DEF r, FinishesOrdinary
  <2>2. q.decl = d
    BY <2>1 DEF PlanOf
  <2>3. QueueInv(q)
    <3>1. ASSUME NEW k \in 1 .. Len(p.queue) PROVE Waits(q, p.queue[k])
      <4>1. Waits(p, p.queue[k]) /\ p.queue[k].test # a.test /\ p.queue[k].test \in Tests
        BY <1>6
      <4>2. Newer(q.results, p.queue[k])
        BY <1>5, <2>1, <4>1 DEF Waits
      <4>3. p.queue[k].test # q.active.test /\ p.queue[k].test # q.again.test
        BY <1>0, <2>1, <4>1, TestNumbers DEF Attempt
      <4> QED  BY <1>0, <2>2, <4>1, <4>2, <4>3 DEF Waits
    <3>2. CASE q.queue = p.queue
      BY <3>1, <3>2 DEF PlanInv, QueueInv
    <3>3. CASE q.queue = <<>>
      BY <3>3 DEF QueueInv
    <3> QED  BY <2>1, <3>2, <3>3
  <2>4. AgainInv(q)
    <3> SUFFICES ASSUME q.again # NoAttempt
                 PROVE  /\ q.retiring = Unit(d, q.again.test) /\ ~IsSerial(d, q.retiring)
                        /\ Newer(q.results, q.again)
      BY <2>1, <2>2 DEF AgainInv
    <3>1. Retried(p, outcome, infrastructure) /\ q.again = Attempt(a.test, a.retry + 1)
      BY <2>1
    <3>2. q.again.test = a.test /\ q.again.retry = a.retry + 1
      BY <3>1 DEF Attempt
    <3>3. q.retiring = u
      BY <1>1, <2>1, <3>1 DEF Retried
    <3>4. Newer(p.results, q.again)
      <4>1. ASSUME NEW i \in 1 .. Len(p.results), p.results[i].test = q.again.test
            PROVE  p.results[i].retry < q.again.retry
        <5>1. p.results[i].retry < a.retry
          BY <1>2, <3>2, <4>1 DEF Newer
        <5>2. p.results[i].retry \in Nat
          <6>1. p.results[i] \in Result
            BY <1>0
          <6> QED  BY <6>1 DEF Result
        <5> QED  BY <1>0, <3>2, <5>1, <5>2, SMTT(40)
      <4> QED  BY <4>1 DEF Newer
    <3>5. Newer(q.results, q.again)
      BY <1>0, <1>5, <2>1, <3>2, <3>4
    <3> QED  BY <1>7, <3>2, <3>3, <3>5
  <2>5. GroupsInv(q)
    BY <1>3, <1>5, <1>7, <2>1, <2>2 DEF GroupsInv
  <2>6. ActiveInv(q) /\ StartedInv(q)
    BY <1>3, <1>4, <1>7, <2>1, <2>2 DEF ActiveInv, StartedInv
  <2>7. ~r.expected => NeedsWorkerRetirement(q)
    BY <1>3, <2>1 DEF NeedsWorkerRetirement
  <2>8. PlanInv(d, q)
    BY <1>5, <2>1, <2>3, <2>4, <2>5, <2>6 DEF PlanInv
  <2>9. q.again # NoAttempt => q.again.test = a.test /\ Retried(p, outcome, infrastructure)
    BY <2>1 DEF Attempt
  <2>10. \/ q.finalized = p.finalized
         \/ q.finalized = p.finalized \cup {a.test} /\ ~Retried(p, outcome, infrastructure) /\ ~Legacy(d)
    BY <2>1
  <2>11. \A v \in SerialUnits(d) : q.group[v] = p.group[v] /\ ~Started(q.group[v])
    BY <1>3, <1>4, <1>7, <2>1
  <2> QED  BY <1>1, <1>7, <2>1, <2>7, <2>8, <2>9, <2>10, <2>11 DEF r, Finishes
<1>8. CASE IsSerial(d, u)
  <2> DEFINE g == p.group[u]
             h == FinishMember(d, u, g, outcome, Expected(p, outcome, infrastructure))
  <2>1. g \in Group /\ GroupInv(d, u, g, p.results)
    BY <1>0, <1>3, <1>8 DEF PlanInv, GroupsInv
  <2> DEFINE more == Append(p.results, r)
  <2>2. /\ h \in Group /\ GroupInv(d, u, h, more) /\ h.state \in {"ready", "retiring"}
        /\ ~r.expected => h.state = "retiring"
        /\ h.excluded = g.excluded /\ h.retry = g.retry
    <3>1. h = FinishMember(d, u, g, r.outcome, r.expected)
      BY <1>1
    <3>2. g.state = "active" /\ r.retry = g.retry /\ r.test < g.cursor /\ r \in Result /\ u \in Units(d)
      BY <1>1, <1>2, <1>3, <1>8
    <3>3. more = Append(p.results, r)
      OBVIOUS
    <3> HIDE DEF h, g, u, more
    <3>4. MemberFinished(d, u, g, r, more, h)
      BY <1>0, <2>1, <3>1, <3>2, <3>3, FinishMemberKeeps
    <3> QED  BY <3>4 DEF MemberFinished
  <2> HIDE DEF h
  <2>3. /\ q \in PlanOf(d) /\ q.active = NoAttempt /\ u \in SerialUnits(d)
        /\ q.group = [p.group EXCEPT ![u] = h] /\ q.results = more
        /\ q.retiring = 0 /\ q.again = NoAttempt /\ q.queue = p.queue /\ q.finalized = p.finalized
    BY <1>2, <1>8, <2>2, FinishSerial DEF h, r
  <2>4. q.decl = d /\ q.group[u] = h /\ \A v \in SerialUnits(d) : v # u => q.group[v] = p.group[v]
    BY <1>0, <2>3 DEF PlanOf
  <2>5. QueueInv(q)
    <3>1. ASSUME NEW k \in 1 .. Len(p.queue) PROVE Waits(q, p.queue[k])
      <4>1. Waits(p, p.queue[k]) /\ p.queue[k].test # a.test /\ p.queue[k].test \in Tests
        BY <1>6
      <4>2. Newer(q.results, p.queue[k])
        BY <1>5, <2>3, <4>1 DEF Waits
      <4> QED  BY <1>0, <2>3, <2>4, <4>1, <4>2, TestNumbers DEF Waits
    <3> QED  BY <2>3, <3>1 DEF PlanInv, QueueInv
  <2>6. AgainInv(q) /\ ActiveInv(q)
    BY <2>3 DEF AgainInv, ActiveInv
  <2>7. GroupsInv(q)
    BY <1>5, <2>2, <2>3, <2>4 DEF GroupsInv
  <2>8. StartedInv(q)
    <3>1. ASSUME NEW v \in SerialUnits(d), Started(q.group[v]) PROVE v = u
      BY <1>4, <2>4, <3>1
    <3>2. Started(p.group[u])
      BY <1>2, <1>8 DEF Started
    <3>3. ASSUME NEW v \in Units(d), v < u PROVE UnitDone(q, v)
      <4>1. UnitDone(p, v) /\ v # u
        BY <1>0, <1>3, <2>3, <3>2, <3>3, MemberFacts DEF PlanInv, StartedInv
      <4>2. IsSerial(d, v) => q.group[v] = p.group[v]
        BY <2>4, <4>1 DEF SerialUnits
      <4>3. /\ q.decl = p.decl /\ (q.retiring = v => p.retiring = v) /\ q.active = NoAttempt
            /\ IsSerial(p.decl, v) /\ Over(p.group[v]) => Over(q.group[v])
        BY <1>0, <1>2, <2>3, <2>4, <4>2
      <4>4. \A i \in DOMAIN q.queue : \E j \in DOMAIN p.queue : p.queue[j].test = q.queue[i].test
        BY <2>3
      <4> QED  BY <4>1, <4>3, <4>4, DoneStays
    <3> QED  BY <2>3, <2>4, <3>1, <3>3 DEF StartedInv
  <2>9. ~r.expected => NeedsWorkerRetirement(q)
    <3>1. PlanInv(d, q)
      BY <1>5, <2>3, <2>5, <2>6, <2>7, <2>8 DEF PlanInv
    <3> QED  BY <2>2, <2>3, <2>4, <3>1, RetiringIsNoticed
  <2>10. PlanInv(d, q)
    BY <1>5, <2>3, <2>5, <2>6, <2>7, <2>8 DEF PlanInv
  <2>11. ~Over(q.group[u]) /\ q.group[u].excluded = p.group[u].excluded
    BY <2>2, <2>4 DEF Over
  <2>12. ASSUME NEW v \in SerialUnits(d), Started(q.group[v])
         PROVE  v = u /\ q.group[v].retry = a.retry
    BY <1>2, <1>4, <1>8, <2>2, <2>4, <2>12
  <2> QED  BY <1>1, <1>8, <2>3, <2>4, <2>9, <2>10, <2>11, <2>12 DEF r, Finishes
<1> QED  BY <1>7, <1>8

(* ExcludeQueued: the tests leave the queue and their groups.  A worker    *)
(* that has to go still has to.                                            *)
Excludes(d, p, q, ids) ==
  /\ PlanInv(d, q) /\ q.active = NoAttempt /\ q.results = p.results
  /\ q.finalized \subseteq p.finalized \cup ids /\ (Legacy(d) => q.finalized = p.finalized)
  /\ \A u \in SerialUnits(d) :
       /\ q.group[u].excluded = p.group[u].excluded \cup (ids \cap Members(d, u))
       /\ Over(q.group[u]) => Over(p.group[u]) \/ q.group[u].excluded = Members(d, u)
  /\ NeedsWorkerRetirement(p) => NeedsWorkerRetirement(q)
  /\ q.again \in {p.again, NoAttempt} /\ q.again.test \notin ids
  /\ p.again # NoAttempt /\ p.again.test \notin ids => q.again = p.again
  /\ \A i \in 1 .. Len(q.queue) :
       q.queue[i].test \notin ids /\ \E j \in 1 .. Len(p.queue) : p.queue[j].test = q.queue[i].test

(* ExcludeQueued keeps the invariant of the plan.                          *)
LEMMA ExcludeQueuedKeeps ==
  ASSUME NEW d, NEW p, PlanInv(d, p), p.active = NoAttempt, NEW ids \in SUBSET Tests,
         \A u \in SerialUnits(d) :
           Started(p.group[u]) => \/ \E m \in Members(d, u) : m \notin p.group[u].excluded \cup ids
                                  \/ ~(p.group[u].retry < MaxRetries(d, u)),
         NEW q, q = ExcludeQueued(p, ids)
  PROVE  Excludes(d, p, q, ids)
<1> DEFINE places == {i \in DOMAIN p.queue : p.queue[i].test \notin ids}
           queue == Kept(p.queue, places)
           again == IF p.again.test \in ids THEN NoAttempt ELSE p.again
           groups == [u \in DOMAIN p.group |-> ExcludeMembers(p.decl, u, p.group[u], ids)]
           final == IF Legacy(d) THEN p.finalized ELSE p.finalized \cup ids
<1>0. /\ p \in PlanOf(d) /\ p.decl = d /\ p.queue \in Seq(Attempts) /\ p.group \in [SerialUnits(d) -> Group]
      /\ p.results \in Seq(Result) /\ NoAttempt.test = 0 /\ p.again \in MaybeAttempt /\ p.finalized \subseteq Tests
      /\ Len(p.queue) \in Nat /\ DOMAIN p.queue = 1 .. Len(p.queue)
  BY PlanFields
<1>1. q = [p EXCEPT !.queue = queue, !.again = again, !.group = groups, !.finalized = final]
  BY <1>0 DEF ExcludeQueued, PlanOf
<1>2. /\ queue \in Seq(Attempts)
      /\ \E from \in [1 .. Len(queue) -> places] :
           /\ \A k \in 1 .. Len(queue) : queue[k] = p.queue[from[k]]
           /\ \A k, l \in 1 .. Len(queue) : k < l => from[k] < from[l]
  <2>1. places \in SUBSET (1 .. Len(p.queue))
    BY <1>0
  <2>2. queue = Kept(p.queue, places)
    OBVIOUS
  <2>3. p.queue \in Seq(Attempts)
    BY <1>0
  <2> HIDE DEF places, queue
  <2>4. queue \in Seq(Attempts) /\ \E from : KeptFrom(p.queue, places, queue, from)
    BY ONLY <2>1, <2>2, <2>3, KeptPlaces
  <2>5. PICK from : KeptFrom(p.queue, places, queue, from)
    BY ONLY <2>4
  <2>6. /\ from \in [1 .. Len(queue) -> places]
        /\ \A k \in 1 .. Len(queue) : queue[k] = p.queue[from[k]]
        /\ \A k, l \in 1 .. Len(queue) : k < l => from[k] < from[l]
    BY ONLY <2>5 DEF KeptFrom
  <2> QED  BY ONLY <2>4, <2>6
<1>3. ASSUME NEW u \in SerialUnits(d)
      PROVE  /\ groups[u] \in Group /\ GroupInv(d, u, groups[u], p.results)
             /\ groups[u].excluded = p.group[u].excluded \cup (ids \cap Members(d, u))
             /\ Over(p.group[u]) => Over(groups[u])
             /\ Over(groups[u]) => Over(p.group[u]) \/ groups[u].excluded = Members(d, u)
             /\ Started(groups[u]) => Started(p.group[u])
             /\ p.group[u].state = "retiring" => groups[u].state = "retiring"
  <2>1. groups[u] = ExcludeMembers(d, u, p.group[u], ids)
    BY <1>0
  <2>2. p.group[u] \in Group /\ GroupInv(d, u, p.group[u], p.results) /\ u \in Units(d)
    BY <1>0 DEF PlanInv, GroupsInv, SerialUnits
  <2> HIDE DEF groups
  <2> QED  BY <1>0, <2>1, <2>2, ExcludeMembersKeeps
<1>4. groups \in [SerialUnits(d) -> Group]
  <2>1. DOMAIN p.group = SerialUnits(d)
    BY <1>0
  <2>2. \A u \in SerialUnits(d) : ExcludeMembers(p.decl, u, p.group[u], ids) \in Group
    BY <1>3, <2>1
  <2> QED  BY <2>1, <2>2
<1>5. again \in MaybeAttempt /\ final \subseteq Tests
  BY <1>0 DEF MaybeAttempt
<1> HIDE DEF queue, again, groups, final
<1>6. /\ q \in PlanOf(d) /\ q.decl = d /\ q.active = NoAttempt /\ q.queue = queue /\ q.again = again /\ q.group = groups
      /\ q.finalized = final /\ q.retiring = p.retiring /\ q.results = p.results
  <2>0. queue \in Seq(Attempts) /\ again \in MaybeAttempt /\ final \in SUBSET Tests
    BY <1>2, <1>5
  <2>1. q \in PlanOf(d)
    BY <1>0, <1>1, <1>4, <2>0 DEF PlanOf
  <2>2. /\ q.active = p.active /\ q.queue = queue /\ q.again = again /\ q.group = groups
        /\ q.finalized = final /\ q.retiring = p.retiring /\ q.results = p.results /\ q.decl = p.decl
    BY <1>0, <1>1 DEF PlanOf
  <2> QED  BY <1>0, <2>1, <2>2
<1>7. PICK from \in [1 .. Len(queue) -> places] :
        /\ \A k \in 1 .. Len(queue) : queue[k] = p.queue[from[k]]
        /\ \A k, l \in 1 .. Len(queue) : k < l => from[k] < from[l]
  BY <1>2
<1>8. ASSUME NEW k \in 1 .. Len(queue)
      PROVE  /\ from[k] \in 1 .. Len(p.queue) /\ queue[k] = p.queue[from[k]] /\ queue[k].test \notin ids
             /\ Waits(p, queue[k]) /\ queue[k].test \in Tests
  <2>1. from[k] \in 1 .. Len(p.queue) /\ queue[k] = p.queue[from[k]] /\ queue[k].test \notin ids
    BY <1>0, <1>7
  <2>2. queue[k] \in Attempts /\ Waits(p, queue[k])
    BY <1>0, <2>1 DEF PlanInv, QueueInv
  <2> QED  BY <2>1, <2>2 DEF Attempts
<1>9. QueueInv(q)
  <2>1. ASSUME NEW k \in 1 .. Len(queue) PROVE Waits(q, queue[k])
    <3>1. queue[k].test # 0
      BY <1>8, TestNumbers
    <3> QED  BY <1>0, <1>6, <1>8, <3>1 DEF Waits, again
  <2>2. ASSUME NEW k \in 1 .. Len(queue), NEW l \in 1 .. Len(queue), k # l PROVE queue[k].test # queue[l].test
    <3>1. k < l \/ l < k
      BY <1>2, <2>2
    <3>2. from[k] \in Nat /\ from[l] \in Nat /\ from[k] # from[l]
      BY <1>7, <1>8, <3>1
    <3> QED  BY <1>8, <3>2, SMTT(40) DEF PlanInv, QueueInv
  <2> QED  BY <1>6, <2>1, <2>2 DEF QueueInv
<1>10. AgainInv(q)
  BY <1>0, <1>6 DEF AgainInv, PlanInv, again
<1>11. GroupsInv(q) /\ ActiveInv(q) /\ Increasing(q.results)
  BY <1>3, <1>6 DEF GroupsInv, ActiveInv, PlanInv
<1>12. StartedInv(q)
  <2> SUFFICES ASSUME NEW u \in SerialUnits(d), Started(groups[u]), NEW v \in Units(d), v < u
               PROVE  UnitDone(q, v)
    BY <1>6 DEF StartedInv
  <2>1. UnitDone(p, v)
    BY <1>0, <1>3 DEF PlanInv, StartedInv
  <2>2. /\ q.decl = p.decl /\ (q.retiring = v => p.retiring = v) /\ q.active = NoAttempt
        /\ IsSerial(p.decl, v) /\ Over(p.group[v]) => Over(q.group[v])
    BY <1>0, <1>3, <1>6 DEF SerialUnits
  <2>3. \A i \in DOMAIN q.queue : \E j \in DOMAIN p.queue : p.queue[j].test = q.queue[i].test
    BY <1>0, <1>2, <1>6, <1>8, SMTT(30)
  <2>4. /\ \A i \in DOMAIN q.queue : \/ Unit(p.decl, q.queue[i].test) # v
                                    \/ \E j \in DOMAIN p.queue : p.queue[j].test = q.queue[i].test
        /\ q.active = NoAttempt \/ q.active = p.active \/ Unit(p.decl, q.active.test) # v
    BY <2>2, <2>3
  <2> HIDE DEF places
  <2> QED  BY ONLY <2>1, <2>2, <2>4, DoneStays
<1>13. PlanInv(d, q)
  BY <1>6, <1>9, <1>10, <1>11, <1>12 DEF PlanInv
<1>14. NeedsWorkerRetirement(p) => NeedsWorkerRetirement(q)
  <2>1. CASE p.retiring # 0
    BY <1>6, <2>1 DEF NeedsWorkerRetirement
  <2>2. CASE p.retiring = 0 /\ NeedsWorkerRetirement(p)
    <3>1. Remaining(p) # {} /\ IsSerial(d, Current(p)) /\ p.group[Current(p)].state = "retiring"
      BY <1>0, <2>2 DEF NeedsWorkerRetirement
    <3>2. Current(p) \in SerialUnits(d)
      BY <1>0, <3>1, CurrentFacts DEF SerialUnits
    <3>3. q.group[Current(p)].state = "retiring"
      BY <1>3, <1>6, <3>1, <3>2
    <3> QED  BY <1>13, <3>2, <3>3, RetiringIsNoticed
  <2> QED  BY <2>1, <2>2
<1>15. /\ again \in {p.again, NoAttempt} /\ again.test \notin ids
       /\ p.again.test \notin ids => again = p.again
  BY <1>0, TestNumbers DEF again
<1>16. final \subseteq p.finalized \cup ids /\ (Legacy(d) => final = p.finalized)
  BY DEF final
<1> QED  BY <1>3, <1>6, <1>8, <1>13, <1>14, <1>15, <1>16 DEF Excludes

(* WorkerExited: the retry is the next attempt, or the group's wave ends.  *)
Leaves(d, p, q) ==
  /\ PlanInv(d, q) /\ q.active = p.active /\ q.results = p.results /\ q.finalized = p.finalized
  /\ q.again = NoAttempt
  /\ \A u \in SerialUnits(d) : q.group[u].excluded = p.group[u].excluded
  /\ IF p.again = NoAttempt THEN q.queue = p.queue ELSE q.queue = <<p.again>> \o p.queue

(* WorkerExited keeps the invariant of the plan.                           *)
LEMMA WorkerExitedKeeps ==
  ASSUME NEW d, NEW p, PlanInv(d, p), NEW q, q = WorkerExited(p)
  PROVE  Leaves(d, p, q)
<1>0. /\ p \in PlanOf(d) /\ p.decl = d /\ p.queue \in Seq(Attempts) /\ p.group \in [SerialUnits(d) -> Group]
      /\ p.results \in Seq(Result) /\ NoAttempt.test = 0 /\ p.again \in MaybeAttempt /\ p.failures \in Nat
      /\ Len(p.queue) \in Nat /\ DOMAIN p.queue = 1 .. Len(p.queue) /\ p.retiring \in Nat
  BY PlanFields
<1>1. p.again # NoAttempt => p.again \in Attempts /\ p.again.test \in Tests /\ p.retiring = Unit(d, p.again.test) /\ p.retiring # 0
  BY <1>0, PlanFields, UnitOfTest DEF PlanInv, AgainInv
<1>2. CASE p.retiring # 0
  <2> DEFINE queue == IF p.again = NoAttempt THEN p.queue ELSE <<p.again>> \o p.queue
  <2>1. q = [p EXCEPT !.retiring = 0, !.again = NoAttempt, !.queue = queue]
    BY <1>0, <1>2 DEF WorkerExited, PlanOf
  <2>2. /\ queue \in Seq(Attempts) /\ Len(queue) \in Nat
        /\ \A i \in 1 .. Len(queue) :
             \/ \E j \in 1 .. Len(p.queue) : queue[i] = p.queue[j] /\ j = IF p.again = NoAttempt THEN i ELSE i - 1
             \/ i = 1 /\ p.again # NoAttempt /\ queue[i] = p.again
    <3>1. CASE p.again = NoAttempt
      BY <1>0, <3>1
    <3>2. CASE p.again # NoAttempt
      <4>1. queue = <<p.again>> \o p.queue /\ p.again \in Attempts
        BY <1>1, <3>2
      <4> HIDE DEF queue
      <4>2. /\ queue \in Seq(Attempts) /\ Len(queue) = Len(p.queue) + 1
            /\ \A i \in 1 .. Len(queue) : queue[i] = IF i = 1 THEN p.again ELSE p.queue[i - 1]
        BY <1>0, <4>1, PushFrontElements
      <4>3. ASSUME NEW i \in 1 .. Len(queue), i # 1 PROVE i - 1 \in 1 .. Len(p.queue) /\ queue[i] = p.queue[i - 1]
        BY <1>0, <4>2, <4>3
      <4> QED  BY <1>0, <3>2, <4>2, <4>3
    <3> QED  BY <3>1, <3>2
  <2> HIDE DEF queue
  <2>3. p.active = NoAttempt
    BY <1>2 DEF PlanInv, ActiveInv
  <2>4. /\ q \in PlanOf(d) /\ q.decl = d /\ q.active = NoAttempt /\ q.queue = queue /\ q.again = NoAttempt
        /\ q.group = p.group /\ q.finalized = p.finalized /\ q.retiring = 0 /\ q.results = p.results
    <3>1. NoAttempt \in MaybeAttempt /\ 0 \in Nat
      BY DEF MaybeAttempt
    <3>2. q \in PlanOf(d)
      BY <1>0, <2>1, <2>2, <3>1, SMTT(40), ZenonT(60) DEF PlanOf
    <3>3. /\ q.decl = p.decl /\ q.active = p.active /\ q.queue = queue /\ q.again = NoAttempt
          /\ q.group = p.group /\ q.finalized = p.finalized /\ q.retiring = 0 /\ q.results = p.results
      BY <1>0, <2>1 DEF PlanOf
    <3> QED  BY <1>0, <2>3, <3>2, <3>3
  <2>5. ASSUME NEW i \in 1 .. Len(queue) PROVE Waits(q, queue[i])
    <3>1. queue[i] \in Attempts /\ queue[i].test \in Tests /\ queue[i].test # 0
      <4>1. queue[i] \in Attempts
        BY <2>2
      <4> QED  BY <4>1, TestNumbers DEF Attempts
    <3>2. ~IsSerial(d, Unit(d, queue[i].test)) /\ Newer(p.results, queue[i])
      <4>1. CASE \E j \in 1 .. Len(p.queue) : queue[i] = p.queue[j]
        BY <1>0, <4>1 DEF PlanInv, QueueInv, Waits
      <4>2. CASE p.again # NoAttempt /\ queue[i] = p.again
        BY <1>0, <4>2 DEF PlanInv, AgainInv
      <4> QED  BY <2>2, <4>1, <4>2
    <3> QED  BY <1>0, <2>4, <3>1, <3>2 DEF Waits
  <2>6. ASSUME NEW i \in 1 .. Len(queue), NEW j \in 1 .. Len(queue), i # j PROVE queue[i].test # queue[j].test
    <3>1. ASSUME NEW k \in 1 .. Len(p.queue) PROVE p.queue[k].test # p.again.test
      BY DEF PlanInv, QueueInv, Waits
    <3>2. \A k, l \in 1 .. Len(p.queue) : k # l => p.queue[k].test # p.queue[l].test
      BY DEF PlanInv, QueueInv
    <3>3. CASE p.again = NoAttempt
      BY <2>2, <2>6, <3>2, <3>3
    <3>4. CASE p.again # NoAttempt
      <4>0. ASSUME NEW k \in 1 .. Len(queue), k # 1 PROVE queue[k].test # queue[1].test
        <5>1. 1 \in 1 .. Len(queue) /\ queue[1] = p.again
          BY <2>2, <3>4, <4>0
        <5>2. PICK l \in 1 .. Len(p.queue) : queue[k] = p.queue[l]
          BY <2>2, <4>0
        <5> QED  BY <3>1, <5>1, <5>2
      <4>1. CASE i = 1 \/ j = 1
        BY <2>6, <4>0, <4>1
      <4>2. CASE i # 1 /\ j # 1
        <5>1. PICK k \in 1 .. Len(p.queue) : queue[i] = p.queue[k] /\ k = i - 1
          BY <2>2, <3>4, <4>2
        <5>2. PICK l \in 1 .. Len(p.queue) : queue[j] = p.queue[l] /\ l = j - 1
          BY <2>2, <3>4, <4>2
        <5>3. k # l
          BY <2>2, <2>6, <5>1, <5>2
        <5> QED  BY <3>2, <5>1, <5>2, <5>3
      <4> QED  BY <4>1, <4>2
    <3> QED  BY <3>3, <3>4
  <2>7. QueueInv(q)
    BY <2>4, <2>5, <2>6 DEF QueueInv
  <2>8. AgainInv(q) /\ ActiveInv(q) /\ GroupsInv(q) /\ Increasing(q.results)
    BY <1>0, <2>4 DEF AgainInv, ActiveInv, GroupsInv, PlanInv
  <2>9. StartedInv(q)
    <3> SUFFICES ASSUME NEW u \in SerialUnits(d), Started(p.group[u]), NEW v \in Units(d), v < u
                 PROVE  UnitDone(q, v)
      BY <2>4 DEF StartedInv
    <3>1. UnitDone(p, v) /\ v # 0
      BY <1>0, MemberFacts DEF PlanInv, StartedInv
    <3>2. CASE IsSerial(d, v)
      BY <1>0, <2>4, <3>1, <3>2 DEF UnitDone
    <3>3. CASE ~IsSerial(d, v)
      <4>1. p.retiring # v /\ \A i \in DOMAIN p.queue : Unit(d, p.queue[i].test) # v
        BY <1>0, <3>1, <3>3 DEF UnitDone
      <4>2. ASSUME NEW i \in DOMAIN queue PROVE Unit(d, queue[i].test) # v
        <5>1. i \in 1 .. Len(queue)
          BY <2>2
        <5> QED  BY <1>0, <1>1, <2>2, <4>1, <5>1, SMTT(40), ZenonT(60)
      <4> QED  BY <2>4, <3>1, <3>3, <4>2 DEF UnitDone
    <3> QED  BY <3>2, <3>3
  <2>10. PlanInv(d, q)
    BY <2>4, <2>7, <2>8, <2>9 DEF PlanInv
  <2> QED  BY <2>3, <2>4, <2>10 DEF Leaves, queue
<1>3. CASE p.retiring = 0 /\ ~NeedsWorkerRetirement(p)
  <2>1. q = p /\ p.again = NoAttempt
    BY <1>1, <1>3 DEF WorkerExited
  <2> QED  BY <2>1 DEF Leaves
<1>4. CASE p.retiring = 0 /\ NeedsWorkerRetirement(p)
  <2> DEFINE u == Current(p)
             h == Retired(d, u, p.group[u])
             groups == [p.group EXCEPT ![u] = h]
             r == [p EXCEPT !.group = groups]
  <2>1. u \in SerialUnits(d) /\ u \in Units(d) /\ p.group[u].state = "retiring"
    <3>1. Remaining(p) # {} /\ IsSerial(d, u) /\ p.group[u].state = "retiring"
      BY <1>0, <1>4 DEF NeedsWorkerRetirement
    <3> QED  BY <1>0, <3>1, CurrentFacts DEF SerialUnits
  <2>2. p.group[u] \in Group /\ GroupInv(d, u, p.group[u], p.results)
    BY <1>0, <2>1 DEF PlanInv, GroupsInv
  <2>3. q = Account(r, u)
    BY <1>0, <1>4 DEF WorkerExited, PlanOf
  <2>4. \A v \in SerialUnits(d) : Started(p.group[v]) => v = u
    BY StartedIsCurrent
  <2> HIDE DEF u
  <2>5. /\ h \in Group /\ GroupInv(d, u, h, p.results) /\ h.state \notin {"ready", "active", "retiring"}
        /\ h.excluded = p.group[u].excluded
    <3> HIDE DEF h
    <3> QED  BY <1>0, <2>1, <2>2, RetiredKeeps DEF h
  <2> HIDE DEF h
  <2>6. /\ groups \in [SerialUnits(d) -> Group] /\ groups[u] = h
        /\ \A v \in SerialUnits(d) : v # u => groups[v] = p.group[v]
    BY <1>0, <2>1, <2>5
  <2> HIDE DEF groups
  <2>7. PICK failures \in Nat : q = [p EXCEPT !.group = groups, !.failures = failures]
    <3> DEFINE S == {t \in Members(r.decl, u) : ClassifiedFailed(r, t)}
    <3>1. r.decl = d /\ r.failures = p.failures
      BY <1>0 DEF PlanOf
    <3>2. Cardinality(S) \in Nat
      <4>1. S \subseteq Members(d, u) /\ IsFiniteSet(Members(d, u))
        BY <2>1, <3>1, MemberFacts
      <4> QED  BY <4>1, FS_Subset, FS_CardinalityType
    <3>3. q = r \/ q = [r EXCEPT !.failures = r.failures + Cardinality(S)]
      BY <2>3 DEF Account
    <3>4. CASE q = r
      <4>1. r = [p EXCEPT !.group = groups, !.failures = p.failures]
        BY <1>0 DEF PlanOf
      <4> QED  BY <1>0, <3>4, <4>1
    <3>5. CASE q = [r EXCEPT !.failures = r.failures + Cardinality(S)]
      <4> HIDE DEF S
      <4>1. p.failures + Cardinality(S) \in Nat
        BY <1>0, <3>2
      <4>2. [r EXCEPT !.failures = r.failures + Cardinality(S)]
              = [p EXCEPT !.group = groups, !.failures = p.failures + Cardinality(S)]
        BY <1>0, <3>1 DEF PlanOf
      <4> QED  BY <3>5, <4>1, <4>2
    <3> QED  BY <3>3, <3>4, <3>5
  <2> HIDE DEF r
  <2>8. /\ q \in PlanOf(d) /\ q.decl = d /\ q.active = p.active /\ q.queue = p.queue /\ q.again = p.again
        /\ q.group = groups /\ q.finalized = p.finalized /\ q.retiring = 0 /\ q.results = p.results
    BY <1>0, <1>4, <2>6, <2>7 DEF PlanOf
  <2>9. p.active = NoAttempt /\ p.again = NoAttempt
    <3>1. p.again = NoAttempt
      BY <1>1, <1>4
    <3>2. p.active # NoAttempt => Unit(d, p.active.test) = u
      BY <1>0, <2>1 DEF PlanInv, StartedInv, Started
    <3>3. p.active # NoAttempt => p.group[u].state = "active"
      BY <1>0, <2>1, <3>2 DEF PlanInv, ActiveInv, SerialUnits
    <3> QED  BY <2>1, <3>1, <3>3
  <2>10. QueueInv(q)
    BY <1>0, <2>8 DEF PlanInv, QueueInv, Waits
  <2>11. AgainInv(q) /\ ActiveInv(q) /\ Increasing(q.results)
    BY <2>8, <2>9 DEF AgainInv, ActiveInv, PlanInv
  <2>12. GroupsInv(q)
    BY <1>0, <2>5, <2>6, <2>8 DEF GroupsInv, PlanInv
  <2>13. StartedInv(q)
    BY <2>4, <2>5, <2>6, <2>8 DEF StartedInv, Started
  <2>14. PlanInv(d, q)
    BY <2>8, <2>10, <2>11, <2>12, <2>13 DEF PlanInv
  <2>15. \A v \in SerialUnits(d) : q.group[v].excluded = p.group[v].excluded
    BY <2>5, <2>6, <2>8
  <2> QED  BY <2>8, <2>9, <2>14, <2>15 DEF Leaves
<1> QED  BY <1>2, <1>3, <1>4

(* Groups may end, and none begins or loses its active member.             *)
MayEnd(d, u, g, h, results) ==
  /\ h \in Group /\ GroupInv(d, u, h, results)
  /\ Started(h) => Started(g)
  /\ Over(g) => Over(h)
  /\ g.state = "active" => h.state = "active"
  /\ h.excluded = g.excluded /\ h.retry = g.retry /\ h.cursor = g.cursor

(* A plan whose groups change like that keeps its invariant.               *)
LEMMA GroupsChange ==
  ASSUME NEW d, NEW p, PlanInv(d, p), NEW q \in PlanOf(d),
         q.queue = p.queue, q.active = p.active, q.again = p.again, q.retiring = p.retiring,
         q.results = p.results,
         \A u \in SerialUnits(d) : MayEnd(d, u, p.group[u], q.group[u], p.results)
  PROVE  PlanInv(d, q)
<1>1. q.decl = d /\ p.decl = d
  BY PlanFields DEF PlanOf
<1>2. QueueInv(q) /\ AgainInv(q) /\ Increasing(q.results)
  BY <1>1 DEF PlanInv, QueueInv, AgainInv, Waits
<1>3. GroupsInv(q)
  BY <1>1 DEF GroupsInv, MayEnd
<1>4. ActiveInv(q)
  <2> SUFFICES ASSUME p.active # NoAttempt, IsSerial(d, Unit(d, p.active.test))
               PROVE  LET u == Unit(d, p.active.test)
                      IN /\ q.group[u].state = "active" /\ p.active.retry = q.group[u].retry
                         /\ p.active.test < q.group[u].cursor /\ p.active.test \notin q.group[u].excluded
    BY <1>1 DEF PlanInv, ActiveInv
  <2>1. Unit(d, p.active.test) \in SerialUnits(d)
    BY PlanFields, UnitOfTest
  <2> QED  BY <1>1, <2>1 DEF PlanInv, ActiveInv, MayEnd
<1>5. StartedInv(q)
  <2> SUFFICES ASSUME NEW u \in SerialUnits(d), Started(q.group[u])
               PROVE  /\ \A v \in Units(d) : v < u => UnitDone(q, v)
                      /\ q.active # NoAttempt => Unit(d, q.active.test) = u
    BY <1>1 DEF StartedInv
  <2>1. /\ \A v \in Units(d) : v < u => UnitDone(p, v)
        /\ p.active # NoAttempt => Unit(d, p.active.test) = u
    BY <1>1 DEF PlanInv, StartedInv, MayEnd
  <2>2. ASSUME NEW v \in Units(d), v < u PROVE UnitDone(q, v)
    <3>1. UnitDone(p, v)
      BY <2>1, <2>2
    <3> QED  BY <1>1, <3>1 DEF UnitDone, SerialUnits, MayEnd
  <2> QED  BY <2>1, <2>2
<1> QED  BY <1>2, <1>3, <1>4, <1>5 DEF PlanInv

(* Stop: every group is stopped.                                           *)
Stops(d, p, q) ==
  /\ PlanInv(d, q) /\ q.active = p.active /\ q.results = p.results /\ q.finalized = p.finalized
  /\ q.again = p.again /\ q.queue = p.queue

(* StopPlan keeps the invariant of the plan.                               *)
LEMMA StopPlanKeeps ==
  ASSUME NEW d, NEW p, PlanInv(d, p), NEW q, q = StopPlan(p)
  PROVE  Stops(d, p, q)
<1> DEFINE groups == [u \in DOMAIN p.group |-> StopGroup(p.group[u])]
<1>0. p \in PlanOf(d) /\ p.decl = d /\ p.group \in [SerialUnits(d) -> Group] /\ DOMAIN p.group = SerialUnits(d)
  BY PlanFields
<1>1. CASE Legacy(d)
  BY <1>0, <1>1 DEF StopPlan, Stops
<1>2. CASE ~Legacy(d)
  <2>1. q = [p EXCEPT !.stop = TRUE, !.group = groups]
    BY <1>0, <1>2 DEF StopPlan
  <2>2. ASSUME NEW u \in SerialUnits(d)
        PROVE  MayEnd(d, u, p.group[u], groups[u], p.results)
    <3>1. groups[u] = StopGroup(p.group[u]) /\ p.group[u] \in Group /\ GroupInv(d, u, p.group[u], p.results)
      BY <1>0 DEF PlanInv, GroupsInv
    <3> HIDE DEF groups
    <3> QED  BY <3>1, StopGroupKeeps DEF MayEnd
  <2>3. groups \in [SerialUnits(d) -> Group]
    <3>1. \A u \in SerialUnits(d) : StopGroup(p.group[u]) \in Group
      BY <1>0, <2>2 DEF MayEnd
    <3> QED  BY <1>0, <3>1
  <2> HIDE DEF groups
  <2>4. q \in PlanOf(d)
    BY <1>0, <2>1, <2>3 DEF PlanOf
  <2>5. /\ q.queue = p.queue /\ q.active = p.active /\ q.again = p.again /\ q.retiring = p.retiring
        /\ q.results = p.results /\ q.group = groups /\ q.finalized = p.finalized
    BY <1>0, <2>1 DEF PlanOf
  <2>6. PlanInv(d, q)
    BY <2>2, <2>4, <2>5, GroupsChange
  <2> QED  BY <2>5, <2>6 DEF Stops
<1> QED  BY <1>1, <1>2

(* Only the current group is stopped, for its worker has gone before its   *)
(* last member.                                                            *)
GroupStopped(p, u) == [p EXCEPT !.stop = TRUE, !.group[u] = StopGroup(@)]

(* One group is stopped, and the plan with it.                             *)
LEMMA StopCurrentKeeps ==
  ASSUME NEW d, NEW p, PlanInv(d, p), NEW u \in SerialUnits(d), NEW q, q = GroupStopped(p, u)
  PROVE  /\ Stops(d, p, q)
         /\ \A v \in SerialUnits(d) : q.group[v].excluded = p.group[v].excluded
<1> DEFINE h == StopGroup(p.group[u])
           groups == [p.group EXCEPT ![u] = h]
<1>0. p \in PlanOf(d) /\ p.decl = d /\ p.group \in [SerialUnits(d) -> Group] /\ p.group[u] \in Group
  BY PlanFields
<1>1. q = [p EXCEPT !.stop = TRUE, !.group = groups]
  BY <1>0 DEF PlanOf, GroupStopped
<1>2. MayEnd(d, u, p.group[u], h, p.results)
  <2>1. GroupInv(d, u, p.group[u], p.results) /\ h = StopGroup(p.group[u])
    BY <1>0 DEF PlanInv, GroupsInv
  <2> HIDE DEF h
  <2> QED  BY <1>0, <2>1, StopGroupKeeps DEF MayEnd
<1> HIDE DEF h
<1>3. /\ groups \in [SerialUnits(d) -> Group] /\ groups[u] = h
      /\ \A v \in SerialUnits(d) : v # u => groups[v] = p.group[v]
  BY <1>0, <1>2 DEF MayEnd
<1> HIDE DEF groups
<1>4. q \in PlanOf(d)
  BY <1>0, <1>1, <1>3 DEF PlanOf
<1>5. /\ q.queue = p.queue /\ q.active = p.active /\ q.again = p.again /\ q.retiring = p.retiring
      /\ q.results = p.results /\ q.group = groups /\ q.finalized = p.finalized
  BY <1>0, <1>1 DEF PlanOf
<1>6. ASSUME NEW v \in SerialUnits(d)
      PROVE  MayEnd(d, v, p.group[v], groups[v], p.results)
  <2>1. GroupInv(d, v, p.group[v], p.results) /\ p.group[v] \in Group
    BY <1>0 DEF PlanInv, GroupsInv
  <2>2. CASE v = u
    BY <1>2, <1>3, <2>2
  <2>3. CASE v # u
    BY <1>3, <2>1, <2>3 DEF MayEnd
  <2> QED  BY <2>2, <2>3
<1>7. PlanInv(d, q)
  BY <1>4, <1>5, <1>6, GroupsChange
<1> QED  BY <1>5, <1>6, <1>7 DEF Stops, MayEnd

(* ExpectFailure changes what is expected, and nothing else.               *)
LEMMA ExpectFailureKeeps ==
  ASSUME NEW d, NEW p, PlanInv(d, p), NEW q, q = ExpectFailure(p)
  PROVE  Stops(d, p, q) /\ q.group = p.group
<1>0. p \in PlanOf(d)
  BY PlanFields
<1>1. /\ q \in PlanOf(d) /\ q.queue = p.queue /\ q.active = p.active /\ q.again = p.again
      /\ q.retiring = p.retiring /\ q.group = p.group /\ q.results = p.results /\ q.finalized = p.finalized
  <2>1. q = [p EXCEPT !.amended = TRUE]
    BY DEF ExpectFailure
  <2>2. q \in PlanOf(d)
    BY <1>0, <2>1 DEF PlanOf
  <2> QED  BY <1>0, <2>1, <2>2 DEF PlanOf
<1>2. PlanInv(d, q)
  BY <1>1, OtherFields
<1> QED  BY <1>1, <1>2 DEF Stops

(* ActualWorkerExited: an attempt that has no result yet gets one.         *)
Exits(d, p, q, w) ==
  /\ PlanInv(d, q) /\ (Legacy(d) => q = p)
  /\ p.active = NoAttempt =>
       /\ q.active = NoAttempt /\ q.results = p.results /\ q.finalized = p.finalized
       /\ \A u \in SerialUnits(d) : q.group[u].excluded = p.group[u].excluded
  /\ \/ q.results = p.results
     \/ \E r \in Result : r.worker = w /\ q.results = Append(p.results, r)

(* ActualWorkerExited keeps the invariant of the plan.                     *)
LEMMA ActualWorkerExitedKeeps ==
  ASSUME NEW d, NEW p, PlanInv(d, p), NEW w \in Nat, NEW q, q = ActualWorkerExited(p, w)
  PROVE  Exits(d, p, q, w)
<1> DEFINE f == Finish(p, w, "interrupted", TRUE)
           e == IF p.active = NoAttempt THEN p ELSE [f EXCEPT !.stop = TRUE]
           u == Current(e)
           r == IF e.group[u].state # "ready" THEN e
                ELSE [e EXCEPT !.stop = TRUE, !.group[u] = StopGroup(@)]
<1>0. p.decl = d
  BY PlanFields
<1>1. CASE Legacy(d)
  BY <1>0, <1>1 DEF ActualWorkerExited, Exits
<1>2. /\ PlanInv(d, e) /\ e.active = NoAttempt
      /\ p.active = NoAttempt => e = p
      /\ \/ e.results = p.results
         \/ \E x \in Result : x.worker = w /\ e.results = Append(p.results, x)
  <2>1. CASE p.active = NoAttempt
    BY <2>1
  <2>2. CASE p.active # NoAttempt
    <3>1. Finishes(d, p, f, w, "interrupted", TRUE)
      <4>1. f = Finish(p, w, "interrupted", TRUE) /\ "interrupted" \in Outcomes /\ TRUE \in BOOLEAN
        BY DEF Outcomes
      <4> HIDE DEF f
      <4> QED  BY <2>2, <4>1, FinishKeeps
    <3> HIDE DEF f
    <3>2. /\ PlanInv(d, f) /\ f.active = NoAttempt
          /\ \E x \in Result : x.worker = w /\ f.results = Append(p.results, x)
      BY <3>1 DEF Finishes, ResultOf
    <3>3. f \in PlanOf(d)
      BY <3>2, PlanFields
    <3>4. e = [f EXCEPT !.stop = TRUE]
      BY <2>2
    <3> HIDE DEF e
    <3>5. e \in PlanOf(d)
      BY <3>3, <3>4 DEF PlanOf
    <3>6. /\ e.queue = f.queue /\ e.active = f.active /\ e.again = f.again /\ e.retiring = f.retiring
          /\ e.results = f.results /\ e.group = f.group
      BY <3>3, <3>4 DEF PlanOf
    <3>7. PlanInv(d, e)
      BY <3>2, <3>5, <3>6, OtherFields
    <3> QED  BY <2>2, <3>2, <3>6, <3>7
  <2> QED  BY <2>1, <2>2
<1> HIDE DEF e
<1>3. CASE ~Legacy(d) /\ q = e
  BY <1>2, <1>3 DEF Exits
<1>4. CASE ~Legacy(d) /\ q # e
  <2>0. e.decl = d
    BY <1>2, PlanFields
  <2>1. Remaining(e) # {} /\ IsSerial(d, u) /\ q = WorkerExited(r)
    BY <1>0, <1>4, <2>0 DEF ActualWorkerExited, e, f
  <2>2. u \in SerialUnits(d)
    BY <2>0, <2>1, CurrentFacts DEF SerialUnits
  <2>3. /\ PlanInv(d, r) /\ r.active = NoAttempt /\ r.results = e.results /\ r.finalized = e.finalized
        /\ \A v \in SerialUnits(d) : r.group[v].excluded = e.group[v].excluded
    <3>1. CASE e.group[u].state # "ready"
      BY <1>2, <3>1
    <3>2. CASE e.group[u].state = "ready"
      <4>1. r = GroupStopped(e, u)
        BY <3>2 DEF GroupStopped
      <4> HIDE DEF r, u
      <4>2. /\ Stops(d, e, r)
            /\ \A v \in SerialUnits(d) : r.group[v].excluded = e.group[v].excluded
        BY <1>2, <2>2, <4>1, StopCurrentKeeps
      <4> QED  BY <1>2, <4>2 DEF Stops
    <3> QED  BY <3>1, <3>2
  <2> HIDE DEF r
  <2>4. Leaves(d, r, q)
    BY <2>1, <2>3, WorkerExitedKeeps
  <2> QED  BY <1>2, <1>4, <2>3, <2>4 DEF Leaves, Exits
<1> QED  BY <1>1, <1>3, <1>4

-----------------------------------------------------------------------------
(* What is to come.                                                        *)

(* A test is queued; its group may come to it in this wave, or in any. *)
InQueue(p, t) == \E k \in 1 .. Len(p.queue) : p.queue[k].test = t
Open(p, t) ==
  LET u == Unit(p.decl, t)
  IN IsSerial(p.decl, u) /\ ~Over(p.group[u]) /\ t \notin p.group[u].excluded
Ahead(p, t) ==
  LET u == Unit(p.decl, t)
  IN Open(p, t) /\ (p.group[u].state = "awaiting" \/ t >= p.group[u].cursor)

(* The tests that this worker may still attempt, and those that any may. *)
Coming(p) == {t \in Tests : InQueue(p, t) \/ Ahead(p, t)}
Unsettled(p) == {t \in Tests : InQueue(p, t) \/ t \in {p.active.test, p.again.test} \/ Open(p, t)}

(* The queue is in the order of the declaration, a retry comes before it. *)
OrderInv(p) ==
  /\ \A k, l \in 1 .. Len(p.queue) : k < l => p.queue[k].test < p.queue[l].test
  /\ \A k \in 1 .. Len(p.queue) :
       /\ p.again # NoAttempt => p.again.test < p.queue[k].test
       /\ p.active # NoAttempt /\ ~IsSerial(p.decl, Unit(p.decl, p.active.test)) => p.active.test < p.queue[k].test

(* Only one fence at a time, and a wave goes on only if all is well. *)
FenceInv(p) ==
  \A u \in SerialUnits(p.decl) :
    LET g == p.group[u]
    IN /\ Started(g) => p.retiring = 0
       /\ g.state = "active" => p.active # NoAttempt /\ g.cursor = p.active.test + 1
       /\ g.state \in {"awaiting", "ready", "active"} => ~g.stop
       /\ g.state \in {"ready", "active"} => ~g.failed

(* Without serial groups --max-failures empties the queue. *)
LimitInv(p) ==
  Legacy(p.decl) /\ FailureLimitReached(p) => p.queue = <<>> /\ p.again = NoAttempt /\ p.active = NoAttempt

(* The order of the attempts.                                              *)
TurnInv(p) == OrderInv(p) /\ FenceInv(p) /\ LimitInv(p)

(* Units come in the order of their tests.                                 *)
LEMMA UnitsOrdered ==
  ASSUME NEW d, NEW t \in Tests, NEW s \in Tests, Unit(d, t) < Unit(d, s)
  PROVE  t < s
<1>1. t \in Nat /\ s \in Nat /\ Unit(d, t) \in Nat /\ Unit(d, s) \in Nat /\ Unit(d, s) <= s
  BY UnitFacts, TestNumbers
<1>2. \A v \in Unit(d, t) .. t : Unit(d, v) = Unit(d, t)
  BY UnitFacts
<1>3. s <= t => s \in Unit(d, t) .. t
  BY <1>1
<1>4. ~(s <= t)
  BY <1>1, <1>2, <1>3
<1> QED  BY <1>1, <1>4

(* The member that a group's next attempt is of: the first that is ahead.  *)
MemberPicked(d, u, g, h, c, w) ==
  /\ c \in Members(d, u) \ g.excluded /\ h.cursor = c + 1 /\ h.state = "active" /\ h.worker = w
  /\ h.excluded = g.excluded /\ ~h.failed /\ ~h.stop /\ h.last \in {w, g.last}
  /\ g.state = "awaiting" \/ c >= g.cursor
  /\ \A t \in Members(d, u) : t \notin g.excluded /\ (g.state = "awaiting" \/ t >= g.cursor) => c <= t

(* A group's next attempt is of the first member that is ahead.            *)
LEMMA PickMember ==
  ASSUME NEW d, NEW u \in Units(d), NEW g \in Group, NEW results \in Seq(Result), GroupInv(d, u, g, results),
         g.state \in {"awaiting", "ready"}, ~g.stop, g.state = "ready" => ~g.failed,
         NEW w \in Nat, g.state = "awaiting" => w > g.last, g.state = "ready" => g.worker = w,
         NEW k, k = IF MayBeginWave(g, w) THEN BeginWave(d, u, g, w) ELSE g,
         NEW h, h = MemberActive(k)
  PROVE  k.state = "ready" /\ k.worker = w /\ MemberPicked(d, u, g, h, k.cursor, w)
<1> DEFINE last == LastMember(d, u)
<1>1. last \in Nat /\ u \in Nat /\ u <= last /\ \A t : t \in Members(d, u) <=> t \in u .. last
  BY MemberFacts
<1>2. CASE g.state = "ready"
  <2>1. k = g
    BY <1>2 DEF MayBeginWave
  <2>2. /\ h.state = "active" /\ h.cursor = g.cursor + 1 /\ h.worker = w /\ h.excluded = g.excluded
        /\ h.failed = g.failed /\ h.stop = g.stop /\ h.last = g.last
    BY <1>2, <2>1 DEF MemberActive, Group
  <2>3. g.cursor \in Members(d, u) \ g.excluded /\ g.cursor >= g.cursor
    BY <1>1, <1>2 DEF GroupInv
  <2>4. ASSUME NEW t \in Members(d, u), t >= g.cursor PROVE g.cursor <= t
    BY <1>1, <2>3, <2>4
  <2> QED  BY <1>2, <2>1, <2>2, <2>3, <2>4 DEF MemberPicked
<1>3. CASE g.state = "awaiting"
  <2>1. MayBeginWave(g, w) /\ k = BeginWave(d, u, g, w)
    BY <1>3 DEF MayBeginWave
  <2> DEFINE f == [g EXCEPT !.cursor = u]
             b == SkipExcluded(d, u, f)
  <2>2. f \in Group /\ f.cursor = u /\ f.excluded = g.excluded /\ f.cursor \in u .. last + 1 /\ f.stop = g.stop
    BY <1>1, SMTT(40) DEF Group
  <2>3. k = [b EXCEPT !.state = "ready", !.worker = w, !.last = w, !.failed = FALSE] /\ b = SkipExcluded(d, u, f)
    BY <2>1 DEF BeginWave
  <2> HIDE DEF f, b
  <2>4. PICK c \in f.cursor .. last + 1 :
          /\ b = [f EXCEPT !.cursor = c] /\ c \in u .. last + 1
          /\ c <= last => c \notin f.excluded
          /\ \A t \in f.cursor .. last : t \notin f.excluded => c <= t
    BY <2>2, <2>3, SkipFacts DEF last
  <2>5. /\ k.state = "ready" /\ k.worker = w /\ k.last = w /\ k.failed = FALSE /\ k.cursor = c
        /\ k.stop = g.stop /\ k.excluded = g.excluded /\ k \in Group
    <3>1. c \in Nat
      BY <1>1, <2>4
    <3>2. k = [f EXCEPT !.cursor = c, !.state = "ready", !.worker = w, !.last = w, !.failed = FALSE]
      BY <2>2, <2>3, <2>4 DEF Group
    <3> QED  BY <2>2, <3>1, <3>2, SMTT(40), ZenonT(60) DEF Group
  <2>6. /\ h.state = "active" /\ h.cursor = c + 1 /\ h.worker = w /\ h.excluded = g.excluded
        /\ h.failed = FALSE /\ h.stop = g.stop /\ h.last = w
    BY <2>5 DEF MemberActive, Group
  <2>7. PICK m \in Members(d, u) : m \notin g.excluded
    BY <1>3 DEF GroupInv
  <2>8. m \in u .. last
    BY <1>1
  <2>9. c <= m
    BY <2>2, <2>4, <2>7, <2>8
  <2>10. c \in u .. last
    BY <1>1, <2>4, <2>8, <2>9
  <2>11. c \in Members(d, u) \ g.excluded
    BY <1>1, <2>2, <2>4, <2>10
  <2>12. ASSUME NEW t \in Members(d, u), t \notin g.excluded PROVE c <= t
    BY <1>1, <2>2, <2>4, <2>12
  <2> QED  BY <1>3, <2>5, <2>6, <2>11, <2>12 DEF MemberPicked
<1> QED  BY <1>2, <1>3

(* The next attempt: the head of the queue, or the first member ahead in   *)
(* the current group.                                                      *)
Picks(d, p, q, w) ==
  LET t == q.active.test
      u == Unit(d, t)
  IN /\ t \in Tests /\ q.active # NoAttempt /\ u = Current(p) /\ Remaining(p) # {}
     /\ q.decl = d /\ q.again = p.again /\ q.retiring = p.retiring /\ q.failures = p.failures /\ q.stop = p.stop
     /\ IF IsSerial(d, u)
        THEN /\ q.queue = p.queue /\ MemberPicked(d, u, p.group[u], q.group[u], t, w)
             /\ \A v \in SerialUnits(d) : v # u => q.group[v] = p.group[v]
        ELSE q.group = p.group /\ p.queue # <<>> /\ q.active = Head(p.queue) /\ q.queue = Tail(p.queue)

(* Next finds an attempt, unless the plan is done or waits for an exit, if *)
(* the worker is one that the current group may use.                       *)
LEMMA NextPicks ==
  ASSUME NEW d, NEW p, PlanInv(d, p), OrderInv(p), FenceInv(p), p.active = NoAttempt,
         ~NeedsWorkerRetirement(p), ~Stopped(p), Remaining(p) # {}, NEW w \in Nat,
         \A u \in SerialUnits(d) :
           /\ p.group[u].state = "awaiting" => w > p.group[u].last
           /\ p.group[u].state = "ready" => p.group[u].worker = w,
         NEW q, q = NextAttempt(p, w)
  PROVE  Picks(d, p, q, w)
<1> DEFINE u == Current(p)
           g == p.group[u]
           k == IF MayBeginWave(g, w) THEN BeginWave(d, u, g, w) ELSE g
           h == MemberActive(k)
<1>0. /\ p \in PlanOf(d) /\ p.decl = d /\ p.queue \in Seq(Attempts) /\ p.group \in [SerialUnits(d) -> Group]
      /\ p.results \in Seq(Result)
  BY PlanFields
<1>1. u \in Units(d) /\ ~UnitDone(p, u) /\ p.retiring = 0
  BY <1>0, CurrentFacts DEF NeedsWorkerRetirement
<1>2. CASE ~IsSerial(d, u)
  <2>1. q = [p EXCEPT !.active = Head(p.queue), !.queue = Tail(@), !.amended = FALSE]
    BY <1>0, <1>2 DEF NextAttempt
  <2>2. PICK i \in DOMAIN p.queue : Unit(d, p.queue[i].test) = u
    <3>1. u # 0
      BY <1>1, MemberFacts
    <3> QED  BY <1>0, <1>1, <1>2, <3>1 DEF UnitDone
  <2>3. p.queue # <<>> /\ Head(p.queue) = p.queue[1] /\ 1 \in 1 .. Len(p.queue) /\ p.queue[1] \in Attempts
    BY <1>0, <2>2
  <2>4. /\ q.active = Head(p.queue) /\ q.queue = Tail(p.queue) /\ q.group = p.group /\ q.decl = d /\ q.again = p.again
        /\ q.retiring = p.retiring /\ q.failures = p.failures /\ q.stop = p.stop
    BY <1>0, <2>1 DEF PlanOf
  <2>5. q.active.test \in Tests /\ q.active # NoAttempt
    BY <2>3, <2>4, TestNumbers DEF Attempts, NoAttempt, Attempt
  <2>6. Unit(d, q.active.test) = u
    <3> DEFINE first == p.queue[1].test
    <3>1. /\ first \in Tests /\ p.queue[i].test \in Tests /\ Unit(d, first) \in Units(d) /\ Unit(d, first) \in Nat
          /\ u \in Nat /\ first \in Nat /\ p.queue[i].test \in Nat
      <4>1. p.queue[i] \in Attempts
        BY <1>0
      <4>2. first \in Tests /\ p.queue[i].test \in Tests
        BY <2>3, <4>1 DEF Attempts
      <4> QED  BY <1>1, <4>2, UnitOfTest, MemberFacts, TestNumbers
    <3>2. ~(Unit(d, first) < u)
      <4>1. ~IsSerial(d, Unit(d, first))
        BY <1>0, <2>3 DEF PlanInv, QueueInv, Waits
      <4>2. 1 \in DOMAIN p.queue
        BY <1>0, <2>3
      <4>3. ~UnitDone(p, Unit(d, first))
        BY <1>0, <4>1, <4>2 DEF UnitDone
      <4> QED  BY <1>0, <3>1, <4>3, CurrentFacts
    <3>3. ~(u < Unit(d, first))
      <4>1. i \in 1 .. Len(p.queue) /\ (i = 1 \/ 1 < i)
        BY <1>0
      <4>2. first <= p.queue[i].test
        BY <2>3, <3>1, <4>1 DEF OrderInv
      <4>3. Unit(d, p.queue[i].test) < Unit(d, first) => p.queue[i].test < first
        BY <3>1, UnitsOrdered
      <4> HIDE DEF u, first
      <4> QED  BY <2>2, <3>1, <4>2, <4>3
    <3> QED  BY <2>3, <2>4, <3>1, <3>2, <3>3
  <2> QED  BY <1>2, <2>3, <2>4, <2>5, <2>6 DEF Picks
<1>3. CASE IsSerial(d, u)
  <2>1. u \in SerialUnits(d) /\ g \in Group /\ GroupInv(d, u, g, p.results)
    BY <1>0, <1>1, <1>3 DEF SerialUnits, PlanInv, GroupsInv
  <2>2. g.state \in {"awaiting", "ready"} /\ ~g.stop /\ (g.state = "ready" => ~g.failed)
    <3>1. ~Over(g) /\ g.state # "retiring"
      BY <1>0, <1>1, <1>3 DEF UnitDone, NeedsWorkerRetirement
    <3>2. g.state # "active"
      BY <1>0, <2>1 DEF FenceInv
    <3>3. g.state \in {"awaiting", "ready"}
      BY <2>1, <3>1, <3>2 DEF Group, Over
    <3> QED  BY <1>0, <2>1, <3>3 DEF FenceInv
  <2>3. k = (IF MayBeginWave(g, w) THEN BeginWave(d, u, g, w) ELSE g) /\ h = MemberActive(k)
    OBVIOUS
  <2>4. /\ g.state = "awaiting" => w > g.last
        /\ g.state = "ready" => g.worker = w
    BY <2>1
  <2>5. q = IF k.state # "ready" \/ k.worker # w THEN p
            ELSE [p EXCEPT !.active = Attempt(k.cursor, k.retry), !.amended = FALSE, !.group[u] = h]
    BY <1>0, <1>3 DEF NextAttempt, MemberActive
  <2> HIDE DEF u, g, k, h
  <2>6. k.state = "ready" /\ k.worker = w /\ MemberPicked(d, u, g, h, k.cursor, w)
    BY ONLY <1>0, <1>1, <2>1, <2>2, <2>3, <2>4, w \in Nat, PickMember
  <2> DEFINE a == Attempt(k.cursor, k.retry)
  <2>7. a.test = k.cursor /\ a.test \in Tests /\ Unit(d, a.test) = u
    <3>1. k.cursor \in Members(d, u)
      BY <2>6 DEF MemberPicked
    <3> QED  BY <1>1, <3>1, MemberFacts DEF Attempt
  <2>8. q = [p EXCEPT !.active = a, !.amended = FALSE, !.group[u] = h]
    BY <2>5, <2>6
  <2> HIDE DEF a
  <2>9. /\ q.active = a /\ q.queue = p.queue /\ q.group = [p.group EXCEPT ![u] = h] /\ q.decl = d /\ q.again = p.again
        /\ q.retiring = p.retiring /\ q.failures = p.failures /\ q.stop = p.stop
    BY <1>0, <2>8 DEF PlanOf
  <2>10. q.group[u] = h /\ \A v \in SerialUnits(d) : v # u => q.group[v] = p.group[v]
    BY <1>0, <2>1, <2>9
  <2>11. a # NoAttempt
    BY <2>7, TestNumbers DEF NoAttempt, Attempt
  <2> QED  BY <1>3, <2>6, <2>7, <2>9, <2>10, <2>11 DEF Picks, u, g
<1> QED  BY <1>2, <1>3

(* A test that is queued or open is of no unit that is done.               *)
LEMMA NotDone ==
  ASSUME NEW d, NEW p, PlanInv(d, p), NEW t \in Tests, InQueue(p, t) \/ Open(p, t)
  PROVE  /\ Remaining(p) # {} /\ ~(Unit(d, t) < Current(p))
         /\ InQueue(p, t) => ~IsSerial(d, Unit(d, t))
         /\ Open(p, t) => IsSerial(d, Unit(d, t))
<1>0. p.decl = d /\ p.queue \in Seq(Attempts)
  BY PlanFields
<1>1. Unit(d, t) \in Units(d)
  BY UnitOfTest
<1>2. InQueue(p, t) => ~IsSerial(d, Unit(d, t))
  BY <1>0 DEF InQueue, PlanInv, QueueInv, Waits
<1>3. Open(p, t) => IsSerial(d, Unit(d, t))
  BY <1>0 DEF Open
<1>4. ~UnitDone(p, Unit(d, t))
  <2>1. CASE Open(p, t)
    BY <1>0, <2>1 DEF Open, UnitDone
  <2>2. CASE InQueue(p, t)
    <3>1. PICK k \in 1 .. Len(p.queue) : p.queue[k].test = t
      BY <2>2 DEF InQueue
    <3>2. k \in DOMAIN p.queue
      BY <1>0
    <3> QED  BY <1>0, <1>2, <2>2, <3>1, <3>2 DEF UnitDone
  <2> QED  BY <2>1, <2>2
<1>5. Unit(d, t) \in Remaining(p)
  BY <1>0, <1>1, <1>4 DEF Remaining
<1> QED  BY <1>0, <1>1, <1>2, <1>3, <1>4, <1>5, CurrentFacts

(* What the next attempt leaves to come.                                   *)
TurnsTo(p, q) ==
  LET t == q.active.test
  IN /\ t \in Coming(p) /\ \A s \in Coming(p) : t <= s
     /\ Coming(q) = Coming(p) \ {t}
     /\ Unsettled(q) = Unsettled(p)

(* The next attempt is of the first test that is to come.                  *)
LEMMA PicksFirst ==
  ASSUME NEW d, NEW p, PlanInv(d, p), OrderInv(p), p.active = NoAttempt, NEW w, NEW q, PlanInv(d, q), Picks(d, p, q, w)
  PROVE  TurnsTo(p, q)
<1> DEFINE t == q.active.test
           u == Unit(d, t)
<1>0. /\ p.decl = d /\ q.decl = d /\ p.queue \in Seq(Attempts) /\ Len(p.queue) \in Nat
      /\ p.group \in [SerialUnits(d) -> Group] /\ NoAttempt.test = 0 /\ 0 \notin Tests
  BY PlanFields, TestNumbers
<1>1. /\ t \in Tests /\ t \in Nat /\ u \in Units(d) /\ u \in Nat /\ u = Current(p) /\ Remaining(p) # {}
      /\ q.again = p.again
  BY UnitOfTest, MemberFacts, TestNumbers DEF Picks
<1>2. ASSUME NEW s \in Tests, InQueue(p, s) \/ Open(p, s), Unit(d, s) # u PROVE t < s
  <2>1. ~(Unit(d, s) < u) /\ Unit(d, s) \in Units(d)
    BY <1>1, <1>2, NotDone, UnitOfTest
  <2>2. Unit(d, s) \in Nat
    BY <2>1, MemberFacts
  <2>3. Unit(d, t) < Unit(d, s)
    BY <1>1, <1>2, <2>1, <2>2
  <2> QED  BY <1>1, <2>3, UnitsOrdered
<1>3. CASE ~IsSerial(d, u)
  <2>1. /\ q.group = p.group /\ p.queue # <<>> /\ q.active = Head(p.queue) /\ q.queue = Tail(p.queue)
    BY <1>3 DEF Picks
  <2>2. /\ Len(p.queue) \in Nat \ {0} /\ Len(q.queue) = Len(p.queue) - 1 /\ q.active = p.queue[1]
        /\ \A i \in 1 .. Len(q.queue) : q.queue[i] = p.queue[i + 1]
    BY <1>0, <2>1, PopFrontElements
  <2>3. \A i \in 1 .. Len(p.queue) : i = 1 \/ (t < p.queue[i].test /\ i - 1 \in 1 .. Len(q.queue) /\ i = (i - 1) + 1)
    <3>1. ASSUME NEW i \in 1 .. Len(p.queue), i # 1 PROVE t < p.queue[i].test
      <4>1. 1 \in 1 .. Len(p.queue) /\ 1 < i
        BY <2>2, <3>1
      <4> QED  BY <2>2, <4>1 DEF OrderInv
    <3> QED  BY <2>2, <3>1
  <2>4. InQueue(p, t)
    <3>1. 1 \in 1 .. Len(p.queue)
      BY <2>2
    <3> QED  BY <2>2, <3>1 DEF InQueue
  <2>5. ASSUME NEW s \in Tests
        PROVE  /\ InQueue(q, s) <=> InQueue(p, s) /\ s # t
               /\ InQueue(p, s) => t <= s
    <3>1. ASSUME InQueue(q, s) PROVE InQueue(p, s) /\ s # t
      <4>1. PICK i \in 1 .. Len(q.queue) : q.queue[i].test = s
        BY <3>1 DEF InQueue
      <4>2. i + 1 \in 1 .. Len(p.queue) /\ i + 1 # 1 /\ p.queue[i + 1].test = s
        BY <2>2, <4>1
      <4>3. t < s
        BY <2>3, <4>2
      <4> QED  BY <1>1, <4>2, <4>3 DEF InQueue
    <3>2. ASSUME InQueue(p, s) PROVE t <= s /\ (s # t => InQueue(q, s))
      <4>1. PICK i \in 1 .. Len(p.queue) : p.queue[i].test = s
        BY <3>2 DEF InQueue
      <4>2. CASE i = 1
        BY <1>1, <2>2, <4>1, <4>2
      <4>3. CASE i # 1
        <5>1. t < s /\ i - 1 \in 1 .. Len(q.queue) /\ p.queue[(i - 1) + 1].test = s
          BY <2>3, <4>1, <4>3
        <5>2. q.queue[i - 1].test = s
          BY <2>2, <5>1
        <5>3. s \in Nat
          BY TestNumbers
        <5> QED  BY <1>1, <5>1, <5>2, <5>3 DEF InQueue
      <4> QED  BY <4>2, <4>3
    <3> QED  BY <3>1, <3>2
  <2>6. ASSUME NEW s \in Tests
        PROVE  (Open(q, s) <=> Open(p, s)) /\ (Ahead(q, s) <=> Ahead(p, s)) /\ (Ahead(p, s) => Open(p, s))
    BY <1>0, <2>1 DEF Open, Ahead
  <2>7. ASSUME NEW s \in Tests, Open(p, s) PROVE t < s
    <3>1. Unit(d, s) # u
      BY <1>0, <1>3, <2>7 DEF Open
    <3> QED  BY <1>2, <2>7, <3>1
  <2>8. t \in Coming(p) /\ \A s \in Coming(p) : t <= s
    <3>1. ASSUME NEW s \in Coming(p) PROVE t <= s
      <4>1. s \in Tests /\ (InQueue(p, s) \/ Ahead(p, s))
        BY DEF Coming
      <4>2. s \in Nat
        BY <4>1, TestNumbers
      <4> QED  BY <1>1, <2>5, <2>6, <2>7, <4>1, <4>2
    <3> QED  BY <1>1, <2>4, <3>1 DEF Coming
  <2>9. ASSUME NEW s \in Tests PROVE s \in Coming(q) <=> s \in Coming(p) /\ s # t
    <3>1. ~Ahead(p, t)
      BY <1>0, <1>3 DEF Ahead, Open
    <3> QED  BY <2>5, <2>6, <3>1 DEF Coming
  <2>10. ASSUME NEW s \in Tests PROVE s \in Unsettled(q) <=> s \in Unsettled(p)
    BY <1>0, <1>1, <2>4, <2>5, <2>6 DEF Unsettled
  <2> QED  BY <2>8, <2>9, <2>10 DEF TurnsTo, Coming, Unsettled
<1>4. CASE IsSerial(d, u)
  <2>1. /\ q.queue = p.queue /\ MemberPicked(d, u, p.group[u], q.group[u], t, w)
        /\ \A v \in SerialUnits(d) : v # u => q.group[v] = p.group[v]
    BY <1>4 DEF Picks
  <2>2. \A s : InQueue(q, s) <=> InQueue(p, s)
    BY <2>1 DEF InQueue
  <2>3. ~Over(p.group[u]) /\ p.group[u].cursor \in Nat
    <3>1. u \in SerialUnits(d) /\ ~UnitDone(p, u)
      BY <1>0, <1>1, <1>4, CurrentFacts DEF SerialUnits
    <3> QED  BY <1>0, <1>4, <3>1 DEF UnitDone, Group
  <2>4. ASSUME NEW s \in Tests, Unit(d, s) # u
        PROVE  (Open(q, s) <=> Open(p, s)) /\ (Ahead(q, s) <=> Ahead(p, s)) /\ s # t
    <3>1. IsSerial(d, Unit(d, s)) => q.group[Unit(d, s)] = p.group[Unit(d, s)]
      BY <2>1, <2>4, UnitOfTest
    <3> QED  BY <1>0, <2>4, <3>1 DEF Open, Ahead
  <2>5. ASSUME NEW s \in Tests, Unit(d, s) = u
        PROVE  /\ Open(q, s) <=> Open(p, s)
               /\ Ahead(q, s) <=> Ahead(p, s) /\ s # t
               /\ Ahead(p, s) => t <= s
    <3>1. s \in Members(d, u) /\ s \in Nat
      BY <2>5, UnitOfTest, TestNumbers, SMTT(40)
    <3>2. /\ t \in Members(d, u) \ p.group[u].excluded /\ q.group[u].cursor = t + 1 /\ q.group[u].state = "active"
          /\ q.group[u].excluded = p.group[u].excluded
          /\ p.group[u].state = "awaiting" \/ t >= p.group[u].cursor
          /\ s \notin p.group[u].excluded /\ (p.group[u].state = "awaiting" \/ s >= p.group[u].cursor) => t <= s
      BY <2>1, <3>1 DEF MemberPicked
    <3>3. /\ Open(q, s) <=> s \notin p.group[u].excluded
          /\ Open(p, s) <=> s \notin p.group[u].excluded
      BY <1>0, <1>4, <2>3, <2>5, <3>2 DEF Open, Over
    <3>4. /\ Ahead(q, s) <=> s \notin p.group[u].excluded /\ s >= t + 1
          /\ Ahead(p, s) <=> s \notin p.group[u].excluded /\ (p.group[u].state = "awaiting" \/ s >= p.group[u].cursor)
      BY <1>0, <2>5, <3>2, <3>3 DEF Ahead
    <3>5. s >= t + 1 <=> t <= s /\ s # t
      BY <1>1, <3>1
    <3>6. s >= t + 1 => (p.group[u].state = "awaiting" \/ s >= p.group[u].cursor)
      BY <1>1, <2>3, <3>1, <3>2
    <3> HIDE DEF u, t
    <3> QED  BY <3>2, <3>3, <3>4, <3>5, <3>6
  <2>6. t \in Coming(p) /\ Open(p, t) /\ ~InQueue(p, t)
    <3>1. /\ t \in Members(d, u) \ p.group[u].excluded
          /\ p.group[u].state = "awaiting" \/ t >= p.group[u].cursor
      BY <2>1 DEF MemberPicked
    <3>2. Open(p, t)
      BY <1>0, <1>4, <2>3, <3>1 DEF Open
    <3>3. Ahead(p, t)
      BY <1>0, <3>1, <3>2 DEF Ahead
    <3>4. ~InQueue(p, t)
      BY <1>1, <1>4, NotDone
    <3> QED  BY <1>1, <3>2, <3>3, <3>4, SMTT(40) DEF Coming
  <2>7. ASSUME NEW s \in Coming(p) PROVE t <= s
    <3>1. s \in Tests /\ (InQueue(p, s) \/ Ahead(p, s)) /\ s \in Nat
      BY TestNumbers DEF Coming
    <3>2. InQueue(p, s) => Unit(d, s) # u
      BY <1>4, <3>1, NotDone
    <3>3. Ahead(p, s) => Open(p, s)
      BY DEF Ahead
    <3>4. CASE Unit(d, s) = u
      BY <2>5, <3>1, <3>2, <3>4
    <3>5. CASE Unit(d, s) # u
      <4>1. t < s
        BY <1>2, <3>1, <3>3, <3>5
      <4> HIDE DEF t
      <4> QED  BY <1>1, <3>1, <4>1
    <3> QED  BY <3>4, <3>5
  <2>8. ASSUME NEW s \in Tests PROVE s \in Coming(q) <=> s \in Coming(p) /\ s # t
    BY <2>2, <2>4, <2>5, <2>6 DEF Coming
  <2>9. ASSUME NEW s \in Tests PROVE s \in Unsettled(q) <=> s \in Unsettled(p)
    BY <1>0, <1>1, <2>2, <2>4, <2>5, <2>6 DEF Unsettled
  <2> QED  BY <2>6, <2>7, <2>8, <2>9 DEF TurnsTo, Coming, Unsettled
<1> QED  BY <1>3, <1>4

(* The next attempt keeps the order.                                       *)
LEMMA PicksTurn ==
  ASSUME NEW d, NEW p, PlanInv(d, p), TurnInv(p), p.active = NoAttempt, ~NeedsWorkerRetirement(p),
         NEW w, NEW q, PlanInv(d, q), Picks(d, p, q, w)
  PROVE  TurnInv(q)
<1> DEFINE t == q.active.test
           u == Unit(d, t)
<1>0. /\ p.decl = d /\ q.decl = d /\ p.queue \in Seq(Attempts) /\ Len(p.queue) \in Nat
  BY PlanFields
<1>1. /\ t \in Tests /\ q.active # NoAttempt /\ u \in Units(d) /\ q.again = p.again /\ q.retiring = p.retiring
      /\ q.failures = p.failures
  BY UnitOfTest DEF Picks
<1>2. p.retiring = 0
  BY DEF NeedsWorkerRetirement
<1>3. CASE ~IsSerial(d, u)
  <2>1. /\ q.group = p.group /\ p.queue # <<>> /\ q.active = Head(p.queue) /\ q.queue = Tail(p.queue)
    BY <1>3 DEF Picks
  <2>2. /\ Len(p.queue) \in Nat \ {0} /\ Len(q.queue) = Len(p.queue) - 1 /\ q.active = p.queue[1]
        /\ \A i \in 1 .. Len(q.queue) : q.queue[i] = p.queue[i + 1]
    BY <1>0, <2>1, PopFrontElements
  <2>3. OrderInv(q)
    <3>1. ASSUME NEW k \in 1 .. Len(q.queue), NEW l \in 1 .. Len(q.queue), k < l PROVE q.queue[k].test < q.queue[l].test
      <4>1. k + 1 \in 1 .. Len(p.queue) /\ l + 1 \in 1 .. Len(p.queue) /\ k + 1 < l + 1
        BY <2>2, <3>1
      <4> QED  BY <2>2, <4>1 DEF TurnInv, OrderInv
    <3>2. ASSUME NEW k \in 1 .. Len(q.queue)
          PROVE  q.active.test < q.queue[k].test /\ (q.again # NoAttempt => q.again.test < q.queue[k].test)
      <4>1. 1 \in 1 .. Len(p.queue) /\ k + 1 \in 1 .. Len(p.queue) /\ 1 < k + 1
        BY <2>2
      <4> QED  BY <1>1, <2>2, <4>1 DEF TurnInv, OrderInv
    <3> QED  BY <3>1, <3>2 DEF OrderInv
  <2>4. FenceInv(q)
    BY <1>0, <1>1, <2>1 DEF TurnInv, FenceInv
  <2>5. LimitInv(q)
    <3>1. FailureLimitReached(q) <=> FailureLimitReached(p)
      BY <1>0, <1>1 DEF FailureLimitReached
    <3> QED  BY <1>0, <2>1, <3>1 DEF TurnInv, LimitInv
  <2> QED  BY <2>3, <2>4, <2>5 DEF TurnInv
<1>4. CASE IsSerial(d, u)
  <2>1. /\ q.queue = p.queue /\ MemberPicked(d, u, p.group[u], q.group[u], t, w)
        /\ \A v \in SerialUnits(d) : v # u => q.group[v] = p.group[v]
    BY <1>4 DEF Picks
  <2>2. OrderInv(q)
    BY <1>0, <1>1, <1>4, <2>1 DEF TurnInv, OrderInv
  <2>3. FenceInv(q)
    <3>1. ASSUME NEW v \in SerialUnits(d)
          PROVE  LET g == q.group[v]
                 IN /\ Started(g) => q.retiring = 0
                    /\ g.state = "active" => q.active # NoAttempt /\ g.cursor = q.active.test + 1
                    /\ g.state \in {"awaiting", "ready", "active"} => ~g.stop
                    /\ g.state \in {"ready", "active"} => ~g.failed
      <4>1. CASE v = u
        BY <1>1, <1>2, <2>1, <4>1 DEF MemberPicked
      <4>2. CASE v # u
        BY <1>0, <1>1, <1>2, <2>1, <4>2 DEF TurnInv, FenceInv
      <4> QED  BY <4>1, <4>2, SMTT(40)
    <3> QED  BY <1>0, <3>1 DEF FenceInv
  <2>4. ~Legacy(d)
    BY <1>1, <1>4, UnitOfTest
  <2> QED  BY <1>0, <2>2, <2>3, <2>4 DEF TurnInv, LimitInv
<1> QED  BY <1>3, <1>4

(* A member has ended: the cursor passes nothing that is not excluded, and *)
(* an end that is as expected retires the worker only after the last.      *)
MemberEnds(d, u, g, h, outcome, expected) ==
  /\ h.state \in {"ready", "retiring"} /\ h.excluded = g.excluded /\ h.worker = g.worker /\ h.last = g.last
  /\ h.state = "ready" => ~h.failed /\ ~h.stop
  /\ h.state = "retiring" /\ expected /\ outcome # "interrupted" => h.cursor > LastMember(d, u)
  /\ \A t \in Members(d, u) : t \notin g.excluded => (t >= h.cursor <=> t >= g.cursor)

(* FinishMember does that, if the wave went well so far.                   *)
LEMMA FinishMemberEnds ==
  ASSUME NEW d, NEW u \in Units(d), NEW g \in Group, NEW results, GroupInv(d, u, g, results), ~g.failed, ~g.stop,
         NEW outcome, NEW expected \in BOOLEAN, NEW h, h = FinishMember(d, u, g, outcome, expected)
  PROVE  MemberEnds(d, u, g, h, outcome, expected)
<1> DEFINE f == [g EXCEPT !.failed = @ \/ ~expected, !.stop = @ \/ outcome = "interrupted"]
           k == SkipExcluded(d, u, f)
           last == LastMember(d, u)
<1>1. last \in Nat /\ u \in Nat /\ u <= last /\ g.cursor \in u .. last + 1 /\ \A t : t \in Members(d, u) <=> t \in u .. last
  BY MemberFacts DEF GroupInv
<1>2. /\ f \in Group /\ f.cursor = g.cursor /\ f.excluded = g.excluded /\ f.worker = g.worker /\ f.last = g.last
      /\ (f.failed <=> ~expected) /\ (f.stop <=> outcome = "interrupted")
  BY <1>1 DEF Group
<1>3. h = [k EXCEPT !.state = IF k.failed \/ k.stop \/ k.cursor > last THEN "retiring" ELSE "ready"]
      /\ k = SkipExcluded(d, u, f)
  BY DEF FinishMember
<1> HIDE DEF f, k
<1>4. PICK c \in f.cursor .. last + 1 :
        /\ k = [f EXCEPT !.cursor = c] /\ c \in u .. last + 1
        /\ \A t \in f.cursor .. last : t \notin f.excluded => c <= t
  BY <1>1, <1>2, <1>3, SkipFacts DEF last
<1>5. /\ k.cursor = c /\ k.failed = f.failed /\ k.stop = f.stop /\ k.excluded = f.excluded /\ k.worker = f.worker
      /\ k.last = f.last /\ k \in Group
  <2>1. c \in Nat
    BY <1>1, <1>4
  <2> QED  BY <1>2, <1>4, <2>1 DEF Group
<1>6. /\ h.cursor = c /\ h.failed = k.failed /\ h.stop = k.stop /\ h.excluded = k.excluded /\ h.worker = k.worker
      /\ h.last = k.last /\ h.state = IF k.failed \/ k.stop \/ c > last THEN "retiring" ELSE "ready"
  BY <1>3, <1>5 DEF Group
<1>7. ASSUME NEW t \in Members(d, u), t \notin g.excluded PROVE t >= c <=> t >= g.cursor
  <2>1. t \in Nat /\ t \in u .. last /\ c \in Nat /\ g.cursor \in Nat /\ g.cursor <= c
    BY <1>1, <1>2, <1>4
  <2>2. t >= g.cursor => c <= t
    BY <1>2, <1>4, <1>7, <2>1
  <2> QED  BY <2>1, <2>2
<1> HIDE DEF last
<1> QED  BY <1>2, <1>5, <1>6, <1>7 DEF MemberEnds, last

(* What Finish counts and stops.                                           *)
Counts(d, p, q, outcome, infrastructure) ==
  LET ordinary == ~IsSerial(d, Unit(d, p.active.test))
      cause == ~Expected(p, outcome, infrastructure) /\ ~Retried(p, outcome, infrastructure) /\ outcome # "interrupted"
  IN /\ q.decl = d /\ q.stop = p.stop
     /\ q.failures = IF ordinary /\ cause THEN p.failures + 1 ELSE p.failures
     /\ q.queue = IF ordinary /\ cause /\ Legacy(d) /\ FailureLimitReached(q) THEN <<>> ELSE p.queue

(* Finish counts a failure, and without serial groups the last one that    *)
(* --max-failures admits empties the queue.                                *)
LEMMA FinishCounts ==
  ASSUME NEW d, NEW p, PlanInv(d, p), p.active # NoAttempt, NEW w \in Nat, NEW outcome \in Outcomes,
         NEW infrastructure \in BOOLEAN, NEW q, q = Finish(p, w, outcome, infrastructure)
  PROVE  Counts(d, p, q, outcome, infrastructure)
<1> DEFINE a == p.active
           u == Unit(d, a.test)
           expected == Expected(p, outcome, infrastructure)
           retried == Retried(p, outcome, infrastructure)
           cause == ~expected /\ ~retried /\ outcome # "interrupted"
           more == Append(p.results, [test |-> a.test, retry |-> a.retry, worker |-> w,
                                      outcome |-> outcome, expected |-> expected])
           retiring == IF expected THEN p.retiring ELSE u
           again == IF retried THEN Attempt(a.test, a.retry + 1) ELSE p.again
           failures == IF cause THEN p.failures + 1 ELSE p.failures
           final == IF retried \/ Legacy(d) THEN p.finalized ELSE p.finalized \cup {a.test}
           r == [p EXCEPT !.active = NoAttempt, !.amended = FALSE, !.results = more, !.retiring = retiring,
                          !.again = again, !.failures = failures, !.finalized = final]
<1>0. p \in PlanOf(d) /\ p.decl = d
  BY PlanFields
<1>1. CASE IsSerial(d, u)
  <2>1. q.decl = d /\ q.stop = p.stop /\ q.failures = p.failures /\ q.queue = p.queue
    BY <1>0, <1>1 DEF Finish, PlanOf
  <2> QED  BY <1>1, <2>1 DEF Counts
<1>2. CASE ~IsSerial(d, u)
  <2>1. retried <=> ~expected /\ a.retry < p.decl.retries[a.test] /\ outcome # "interrupted"
    BY DEF Retried
  <2>2. q = IF Legacy(d) /\ cause /\ FailureLimitReached(r) THEN [r EXCEPT !.queue = <<>>] ELSE r
    <3> HIDE DEF retried
    <3> QED  BY <1>0, <1>2, <2>1, SMTT(40), ZenonT(60) DEF Finish, RetiringAfter, PlanOf
  <2> HIDE DEF more, retiring, again, failures, final, retried, expected
  <2>3. r.decl = d /\ r.stop = p.stop /\ r.failures = failures /\ r.queue = p.queue
    BY <1>0 DEF PlanOf
  <2>4. DOMAIN r = DOMAIN p /\ "queue" \in DOMAIN r /\ "queue" # "failures"
    BY <1>0 DEF PlanOf
  <2> HIDE DEF r, cause
  <2>5. CASE Legacy(d) /\ cause /\ FailureLimitReached(r)
    <3>1. q = [r EXCEPT !.queue = <<>>]
      BY <2>2, <2>5
    <3>2. q.decl = d /\ q.stop = p.stop /\ q.failures = failures /\ q.queue = <<>>
      BY <2>3, <2>4, <3>1
    <3>3. FailureLimitReached(q)
      BY <2>3, <2>5, <3>2 DEF FailureLimitReached
    <3> QED  BY <1>2, <2>5, <3>2, <3>3 DEF Counts, failures, cause, expected, retried
  <2>6. CASE ~(Legacy(d) /\ cause /\ FailureLimitReached(r))
    <3>1. q = r
      BY <2>2, <2>6
    <3> QED  BY <1>2, <2>3, <2>6, <3>1 DEF Counts, failures, cause, expected, retried
  <2> QED  BY <2>5, <2>6
<1> QED  BY <1>1, <1>2

(* What a result leaves to come: nothing else changes, but that            *)
(* --max-failures may empty the queue.                                     *)
EndsTurn(d, p, q, outcome, infrastructure) ==
  LET t == p.active.test
      u == Unit(d, t)
      settled == ~IsSerial(d, u) /\ ~Retried(p, outcome, infrastructure)
      full == Legacy(d) /\ FailureLimitReached(q)
  IN /\ TurnInv(q) /\ (full \/ Coming(q) = Coming(p))
     /\ \A s \in Tests :
          /\ s \in Unsettled(q) => s \in Unsettled(p) /\ ~(settled /\ s = t)
          /\ s \in Unsettled(p) /\ ~(settled /\ s = t) => full \/ s \in Unsettled(q)
     /\ \A v \in SerialUnits(d) :
          /\ q.group[v].worker = p.group[v].worker /\ q.group[v].last = p.group[v].last
          /\ q.group[v].state = "awaiting" => p.group[v].state = "awaiting"
          /\ Started(q.group[v]) => Started(p.group[v])
          /\ Over(q.group[v]) <=> Over(p.group[v])
     /\ q.stop = p.stop
     /\ FailureLimitReached(q) =>
          FailureLimitReached(p) \/ (~IsSerial(d, u) /\ ~Expected(p, outcome, infrastructure))
     /\ Expected(p, outcome, infrastructure) => q.retiring = 0
     /\ /\ IsSerial(d, u) /\ Expected(p, outcome, infrastructure) /\ outcome # "interrupted"
        /\ q.group[u].state = "retiring"
        => LastInSerialGroup(p, t)

(* Finish for an ordinary test.                                            *)
LEMMA OrdinaryEndsTurn ==
  ASSUME NEW d, NEW p, PlanInv(d, p), TurnInv(p), p.active # NoAttempt, NEW q, NEW w, NEW outcome, NEW infrastructure,
         ~IsSerial(d, Unit(d, p.active.test)),
         FinishesOrdinary(d, p, q, w, outcome, infrastructure), Counts(d, p, q, outcome, infrastructure)
  PROVE  EndsTurn(d, p, q, outcome, infrastructure)
<1> DEFINE t == p.active.test
           u == Unit(d, t)
           full == Legacy(d) /\ FailureLimitReached(q)
           expected == Expected(p, outcome, infrastructure)
           retried == Retried(p, outcome, infrastructure)
<1>0. /\ p.decl = d /\ q.decl = d /\ t \in Tests /\ Len(p.queue) \in Nat /\ p.failures \in Nat /\ 0 \notin Tests
      /\ NoAttempt.test = 0
  BY PlanFields, TestNumbers DEF Counts
<1>1. /\ q.active = NoAttempt /\ q.group = p.group /\ q.retiring = (IF expected THEN p.retiring ELSE u)
      /\ q.again = IF retried THEN Attempt(t, p.active.retry + 1) ELSE p.again
  BY DEF FinishesOrdinary
<1>2. p.retiring = 0 /\ p.again = NoAttempt
  BY DEF PlanInv, ActiveInv
<1>3. \A v \in SerialUnits(d) : ~Started(p.group[v])
  BY <1>0 DEF PlanInv, StartedInv, SerialUnits
<1>4. /\ q.stop = p.stop /\ q.queue \in {p.queue, <<>>} /\ (q.queue # p.queue => full /\ ~retried)
      /\ q.failures = p.failures \/ (q.failures = p.failures + 1 /\ ~expected /\ ~retried)
      /\ full /\ q.failures # p.failures => q.queue = <<>>
  BY DEF Counts
<1>5. full => q.failures # p.failures
  <2>1. ~(Legacy(d) /\ FailureLimitReached(p))
    BY <1>0 DEF TurnInv, LimitInv
  <2> QED  BY <1>0, <2>1 DEF FailureLimitReached
<1>6. retried => q.again.test = t
  BY <1>1 DEF Attempt
<1> HIDE DEF t, u, full, expected, retried
<1>7. OrderInv(q)
  <2>1. CASE q.queue = <<>>
    BY <2>1 DEF OrderInv
  <2>2. CASE q.queue = p.queue
    <3>1. \A k \in 1 .. Len(p.queue) : t < p.queue[k].test
      BY <1>0 DEF TurnInv, OrderInv, t, u
    <3> QED  BY <1>1, <1>2, <1>6, <2>2, <3>1 DEF TurnInv, OrderInv
  <2> QED  BY <1>4, <2>1, <2>2
<1>8. FenceInv(q)
  <2>1. ASSUME NEW v \in SerialUnits(d)
        PROVE  ~Started(q.group[v]) /\ (q.group[v].state = "awaiting" => ~q.group[v].stop)
    BY <1>0, <1>1, <1>3 DEF TurnInv, FenceInv
  <2> QED  BY <1>0, <2>1 DEF FenceInv, Started
<1>9. LimitInv(q)
  BY <1>0, <1>1, <1>2, <1>4, <1>5 DEF LimitInv, full
<1>10. ASSUME NEW s \in Tests
       PROVE  /\ (Open(q, s) <=> Open(p, s)) /\ (Ahead(q, s) <=> Ahead(p, s))
              /\ InQueue(q, s) => InQueue(p, s)
              /\ InQueue(p, s) => full \/ InQueue(q, s)
  <2>1. (Open(q, s) <=> Open(p, s)) /\ (Ahead(q, s) <=> Ahead(p, s))
    BY <1>0, <1>1 DEF Open, Ahead
  <2>2. CASE q.queue = p.queue
    BY <2>1, <2>2 DEF InQueue
  <2>3. CASE q.queue # p.queue
    <3>1. q.queue = <<>> /\ full
      BY <1>4, <2>3
    <3>2. ~InQueue(q, s)
      BY <3>1 DEF InQueue
    <3> QED  BY <2>1, <3>1, <3>2
  <2> QED  BY <2>2, <2>3
<1>11. full \/ Coming(q) = Coming(p)
  BY <1>10 DEF Coming
<1>12. ~InQueue(p, t) /\ ~Open(p, t)
  <2>1. ~InQueue(p, t)
    BY <1>0 DEF InQueue, PlanInv, QueueInv, Waits, t
  <2> QED  BY <1>0, <2>1 DEF Open, t
<1>13. ASSUME NEW s \in Tests
       PROVE  /\ s \in Unsettled(q) => s \in Unsettled(p) /\ ~(~retried /\ s = t)
              /\ s \in Unsettled(p) /\ ~(~retried /\ s = t) => full \/ s \in Unsettled(q)
  <2>1. s \in Unsettled(p) <=> InQueue(p, s) \/ Open(p, s) \/ s = t
    BY <1>0, <1>2 DEF Unsettled, t
  <2>2. s \in Unsettled(q) <=> InQueue(q, s) \/ Open(q, s) \/ (retried /\ s = t)
    BY <1>0, <1>1, <1>2, <1>6 DEF Unsettled
  <2> QED  BY <1>10, <1>12, <2>1, <2>2
<1>14. FailureLimitReached(q) => FailureLimitReached(p) \/ ~expected
  BY <1>0, <1>4 DEF FailureLimitReached
<1>15. TurnInv(q)
  BY <1>7, <1>8, <1>9, SMTT(40) DEF TurnInv
<1> QED  BY <1>1, <1>2, <1>4, <1>11, <1>13, <1>14, <1>15 DEF EndsTurn, t, u, full, expected, retried

(* Finish for a member of a group.                                         *)
LEMMA SerialEndsTurn ==
  ASSUME NEW d, NEW p, PlanInv(d, p), TurnInv(p), p.active # NoAttempt, NEW q, NEW outcome, NEW infrastructure,
         NEW u, u = Unit(d, p.active.test), u \in SerialUnits(d), NEW h,
         MemberEnds(d, u, p.group[u], h, outcome, Expected(p, outcome, infrastructure)), h \in Group,
         q.active = NoAttempt, q.group = [p.group EXCEPT ![u] = h],
         q.retiring = p.retiring, q.again = p.again, q.queue = p.queue, Counts(d, p, q, outcome, infrastructure)
  PROVE  EndsTurn(d, p, q, outcome, infrastructure)
<1> DEFINE t == p.active.test
           expected == Expected(p, outcome, infrastructure)
<1>0. /\ p.decl = d /\ q.decl = d /\ t \in Tests /\ p.failures \in Nat /\ 0 \notin Tests
      /\ NoAttempt.test = 0 /\ p.group \in [SerialUnits(d) -> Group] /\ IsSerial(d, u)
  <2>1. q.decl = d
    BY DEF Counts
  <2>2. IsSerial(d, u)
    BY DEF SerialUnits
  <2> QED  BY <2>1, <2>2, PlanFields, TestNumbers
<1>1. q.group[u] = h /\ \A v \in SerialUnits(d) : v # u => q.group[v] = p.group[v]
  BY <1>0
<1>2. /\ p.retiring = 0 /\ p.again = NoAttempt /\ p.group[u].state = "active" /\ t \notin p.group[u].excluded
  BY <1>0 DEF PlanInv, ActiveInv
<1>3. /\ q.stop = p.stop /\ q.failures = p.failures
  BY <1>0 DEF Counts
<1>4. ~Legacy(d)
  BY <1>0, UnitOfTest
<1>5. /\ h.state \in {"ready", "retiring"} /\ h.excluded = p.group[u].excluded /\ h.worker = p.group[u].worker
      /\ h.last = p.group[u].last
      /\ h.state = "ready" => ~h.failed /\ ~h.stop
      /\ h.state = "retiring" /\ expected /\ outcome # "interrupted" => h.cursor > LastMember(d, u)
  BY DEF MemberEnds
<1>a. \A s \in Members(d, u) : s \notin p.group[u].excluded => (s >= h.cursor <=> s >= p.group[u].cursor)
  BY DEF MemberEnds
<1> HIDE DEF t, expected
<1>6. OrderInv(q)
  BY <1>0 DEF TurnInv, OrderInv
<1>7. FenceInv(q)
  <2>1. ASSUME NEW v \in SerialUnits(d)
        PROVE  LET g == q.group[v]
               IN /\ Started(g) => q.retiring = 0
                  /\ g.state = "active" => q.active # NoAttempt /\ g.cursor = q.active.test + 1
                  /\ g.state \in {"awaiting", "ready", "active"} => ~g.stop
                  /\ g.state \in {"ready", "active"} => ~g.failed
    <3>1. CASE v = u
      BY <1>1, <1>2, <1>5, <3>1
    <3>2. CASE v # u
      <4>1. ~Started(p.group[v])
        BY <1>0, <3>2 DEF PlanInv, StartedInv, t
      <4> QED  BY <1>0, <1>1, <1>2, <3>2, <4>1 DEF TurnInv, FenceInv, Started
    <3> QED  BY <3>1, <3>2
  <2> QED  BY <1>0, <2>1 DEF FenceInv
<1>8. TurnInv(q)
  BY <1>0, <1>4, <1>6, <1>7 DEF TurnInv, LimitInv
<1>9. ASSUME NEW s \in Tests
      PROVE  (Open(q, s) <=> Open(p, s)) /\ (Ahead(q, s) <=> Ahead(p, s)) /\ (InQueue(q, s) <=> InQueue(p, s))
  <2>1. InQueue(q, s) <=> InQueue(p, s)
    BY DEF InQueue
  <2>2. CASE Unit(d, s) = u
    <3>1. s \in Members(d, u)
      BY <2>2, UnitOfTest
    <3>2. Open(q, s) <=> Open(p, s)
      BY <1>0, <1>1, <1>2, <1>5, <2>2 DEF Open, Over
    <3>3. Open(p, s) => s \notin p.group[u].excluded
      BY <1>0, <2>2 DEF Open
    <3>4. h.state # "awaiting" /\ p.group[u].state # "awaiting"
      BY <1>2, <1>5
    <3> QED  BY <1>0, <1>1, <1>a, <2>1, <2>2, <3>1, <3>2, <3>3, <3>4 DEF Ahead
  <2>3. CASE Unit(d, s) # u
    <3>1. IsSerial(d, Unit(d, s)) => q.group[Unit(d, s)] = p.group[Unit(d, s)]
      BY <1>1, <2>3, UnitOfTest
    <3> QED  BY <1>0, <2>1, <3>1 DEF Open, Ahead
  <2> QED  BY <2>2, <2>3
<1>10. Coming(q) = Coming(p)
  BY <1>9 DEF Coming
<1>11. Open(p, t)
  BY <1>0, <1>2 DEF Open, Over, t
<1>12. ASSUME NEW s \in Tests PROVE s \in Unsettled(q) <=> s \in Unsettled(p)
  BY <1>0, <1>9, <1>11 DEF Unsettled, t
<1>13. FailureLimitReached(q) => FailureLimitReached(p)
  BY <1>0, <1>3 DEF FailureLimitReached
<1>14. ASSUME NEW v \in SerialUnits(d)
       PROVE  /\ q.group[v].worker = p.group[v].worker /\ q.group[v].last = p.group[v].last
              /\ q.group[v].state = "awaiting" => p.group[v].state = "awaiting"
              /\ Started(q.group[v]) => Started(p.group[v])
  <2>1. CASE v = u
    BY <1>1, <1>2, <1>5, <2>1 DEF Started
  <2>2. CASE v # u
    BY <1>1, <2>2, SMTT(40)
  <2> QED  BY <2>1, <2>2
<1>15. ASSUME h.state = "retiring", expected, outcome # "interrupted" PROVE LastInSerialGroup(p, t)
  <2> DEFINE selected == Members(d, u) \ p.group[u].excluded
  <2>1. /\ u \in Units(d) /\ LastMember(d, u) \in Nat /\ IsFiniteSet(Members(d, u)) /\ u \in Nat
        /\ \A m : m \in Members(d, u) <=> m \in u .. LastMember(d, u)
    BY MemberFacts DEF SerialUnits
  <2>2. t \in selected /\ t \in Nat
    BY <1>0, <1>2, UnitOfTest, TestNumbers DEF t
  <2>3. p.group[u].cursor = t + 1
    BY <1>0, <1>2 DEF TurnInv, FenceInv, t
  <2>4. h.cursor > LastMember(d, u) /\ h.cursor \in Int
    BY <1>5, <1>15 DEF Group
  <2>5. ASSUME NEW m \in selected PROVE m \in Nat /\ m <= t
    <3>1. m \in Nat /\ m <= LastMember(d, u)
      BY <2>1
    <3>2. ~(m >= h.cursor)
      BY <2>1, <2>4, <3>1
    <3>3. ~(m >= t + 1)
      BY <1>a, <2>3, <3>2
    <3> QED  BY <2>2, <3>1, <3>3
  <2>6. t = Max(selected)
    <3>1. selected \subseteq Nat /\ IsFiniteSet(selected) /\ selected # {}
      BY <2>1, <2>2, <2>5, FS_Subset
    <3> HIDE DEF selected
    <3>2. Max(selected) \in selected /\ t <= Max(selected)
      BY <2>2, <3>1, MaxIsMember
    <3>3. Max(selected) \in Nat /\ Max(selected) <= t
      BY <2>5, <3>2
    <3> QED  BY <2>2, <3>2, <3>3
  <2> QED  BY <1>0, <2>2, <2>6 DEF LastInSerialGroup, t
<1>16. \A v \in SerialUnits(d) : Over(q.group[v]) <=> Over(p.group[v])
  <2>1. ~Over(p.group[u]) /\ ~Over(h)
    BY <1>2, <1>5 DEF Over
  <2> QED  BY <1>1, <2>1
<1> QED  BY <1>0, <1>1, <1>2, <1>3, <1>5, <1>8, <1>10, <1>12, <1>13, <1>14, <1>15, <1>16 DEF EndsTurn, t, expected

(* Finish leaves to come what was to come.                                 *)
LEMMA FinishTurn ==
  ASSUME NEW d, NEW p, PlanInv(d, p), TurnInv(p), p.active # NoAttempt, NEW w \in Nat, NEW outcome \in Outcomes,
         NEW infrastructure \in BOOLEAN, NEW q, q = Finish(p, w, outcome, infrastructure)
  PROVE  EndsTurn(d, p, q, outcome, infrastructure)
<1> DEFINE u == Unit(d, p.active.test)
           g == p.group[u]
           expected == Expected(p, outcome, infrastructure)
           h == FinishMember(d, u, g, outcome, expected)
           r == ResultOf(p, w, outcome, infrastructure)
           more == Append(p.results, r)
<1>0. /\ p.decl = d /\ p.active.test \in Tests /\ p.group \in [SerialUnits(d) -> Group] /\ p.results \in Seq(Result)
      /\ p.active \in Attempts
  BY PlanFields
<1>1. Counts(d, p, q, outcome, infrastructure)
  BY FinishCounts
<1>2. CASE ~IsSerial(d, u)
  <2>1. FinishesOrdinary(d, p, q, w, outcome, infrastructure)
    BY <1>2, FinishOrdinary
  <2> QED  BY <1>1, <1>2, <2>1, OrdinaryEndsTurn
<1>3. CASE IsSerial(d, u)
  <2>1. u \in SerialUnits(d) /\ u \in Units(d) /\ g \in Group /\ GroupInv(d, u, g, p.results)
    BY <1>0, <1>3, UnitOfTest DEF PlanInv, GroupsInv
  <2>2. g.state = "active" /\ p.active.retry = g.retry /\ p.active.test < g.cursor
    BY <1>0, <1>3 DEF PlanInv, ActiveInv
  <2>3. ~g.failed /\ ~g.stop
    BY <1>0, <2>1, <2>2 DEF TurnInv, FenceInv
  <2>4. expected \in BOOLEAN
    BY DEF Expected
  <2>5. r \in Result /\ r.retry = g.retry /\ r.test < g.cursor /\ r.outcome = outcome /\ r.expected = expected
    BY <1>0, <2>2, <2>4 DEF ResultOf, Result, Attempts
  <2>6. h = FinishMember(d, u, g, outcome, expected) /\ more = Append(p.results, r) /\ g = p.group[u]
        /\ expected = Expected(p, outcome, infrastructure) /\ u = Unit(d, p.active.test)
    OBVIOUS
  <2> HIDE DEF u, g, h, r, more, expected
  <2>7. MemberEnds(d, u, g, h, outcome, expected)
    BY <2>1, <2>3, <2>4, <2>6, FinishMemberEnds
  <2>8. h \in Group
    <3>1. MemberFinished(d, u, g, r, more, h)
      BY <1>0, <2>1, <2>2, <2>5, <2>6, FinishMemberKeeps
    <3> QED  BY <3>1 DEF MemberFinished
  <2>9. /\ q.active = NoAttempt /\ q.group = [p.group EXCEPT ![u] = h]
        /\ q.retiring = p.retiring /\ q.again = p.again /\ q.queue = p.queue
    <3>1. h = FinishMember(d, u, p.group[u], outcome, Expected(p, outcome, infrastructure))
      BY <2>6
    <3> QED  BY <1>3, <2>6, <2>8, <3>1, FinishSerial
  <2>10. MemberEnds(d, u, p.group[u], h, outcome, Expected(p, outcome, infrastructure))
    BY <2>6, <2>7
  <2> QED  BY <1>1, <2>1, <2>6, <2>8, <2>9, <2>10, SerialEndsTurn
<1> QED  BY <1>2, <1>3

(* Members are excluded: the cursor passes no other.                       *)
MembersGo(d, u, g, h, ids) ==
  /\ h.excluded = g.excluded \cup (ids \cap Members(d, u)) /\ h.worker = g.worker /\ h.last = g.last
  /\ h.stop = g.stop /\ h.failed = g.failed
  /\ h.state \in {"awaiting", "ready", "active"} => h.state = g.state
  /\ g.state = "awaiting" => h.state = "awaiting" \/ h.excluded = Members(d, u)
  /\ Over(g) => Over(h)
  /\ Over(h) => Over(g) \/ (g.state = "awaiting" /\ h.excluded = Members(d, u))
  /\ Started(h) => Started(g)
  /\ h.state = "retiring" => g.state = "retiring" \/ ids # {}
  /\ \A t \in Members(d, u) : t \notin h.excluded => (t >= h.cursor <=> t >= g.cursor)

(* ExcludeMembers does that.                                               *)
LEMMA ExcludeMembersGo ==
  ASSUME NEW d, NEW u \in Units(d), NEW g \in Group, NEW results, GroupInv(d, u, g, results), NEW ids \in SUBSET Tests,
         NEW h, h = ExcludeMembers(d, u, g, ids)
  PROVE  MembersGo(d, u, g, h, ids)
<1> DEFINE last == LastMember(d, u)
           e == g.excluded \cup (ids \cap Members(d, u))
           f == [g EXCEPT !.excluded = e]
           k == SkipExcluded(d, u, f)
           state == IF g.state = "ready" /\ k.cursor > last THEN "retiring"
                    ELSE IF g.state = "awaiting" /\ e = Members(d, u) THEN "passed" ELSE g.state
<1>1. last \in Nat /\ u \in Nat /\ u <= last /\ g.cursor \in u .. last + 1 /\ \A t : t \in Members(d, u) <=> t \in u .. last
  BY MemberFacts DEF GroupInv
<1>2. e \subseteq Members(d, u) /\ e \in SUBSET Tests
  BY MemberFacts DEF GroupInv
<1>3. /\ f \in Group /\ f.cursor = g.cursor /\ f.excluded = e /\ f.worker = g.worker /\ f.last = g.last
      /\ f.state = g.state /\ f.stop = g.stop /\ f.failed = g.failed
  <2> HIDE DEF e
  <2> QED  BY <1>2 DEF Group
<1>4. h = [k EXCEPT !.state = IF @ = "ready" /\ k.cursor > last THEN "retiring"
                              ELSE IF @ = "awaiting" /\ k.excluded = Members(d, u) THEN "passed" ELSE @]
      /\ k = SkipExcluded(d, u, f)
  BY DEF ExcludeMembers
<1> HIDE DEF e, f, k
<1>5. PICK c \in f.cursor .. last + 1 :
        /\ k = [f EXCEPT !.cursor = c] /\ c \in u .. last + 1
        /\ \A t \in f.cursor .. last : t \notin f.excluded => c <= t
  BY <1>1, <1>3, <1>4, SkipFacts DEF last
<1>6. c \in Nat /\ g.cursor \in Nat /\ g.cursor <= c
  BY <1>1, <1>3, <1>5
<1>7. /\ k \in Group /\ k.cursor = c /\ k.excluded = e /\ k.state = g.state /\ k.worker = g.worker /\ k.last = g.last
      /\ k.stop = g.stop /\ k.failed = g.failed
  BY <1>3, <1>5, <1>6 DEF Group
<1>8. h = [k EXCEPT !.state = state]
  BY <1>4, <1>7 DEF Group
<1>9. /\ state \in {"awaiting", "ready", "active"} => state = g.state
      /\ g.state = "awaiting" => state = "awaiting" \/ e = Members(d, u)
      /\ g.state \in {"passed", "failed", "stopped"} => state = g.state
      /\ state \in {"passed", "failed", "stopped"} => state = g.state \/ (g.state = "awaiting" /\ e = Members(d, u))
      /\ state \in {"ready", "active", "retiring"} => g.state \in {"ready", "active", "retiring"}
      /\ state = "retiring" => g.state = "retiring" \/ (g.state = "ready" /\ c > last)
  <2>1. g.state \in {"awaiting", "ready", "active", "retiring", "passed", "failed", "stopped"}
    BY DEF Group
  <2> QED  BY <1>7, <2>1
<1> HIDE DEF state
<1>10. /\ h.state = state /\ h.cursor = c /\ h.excluded = e /\ h.worker = g.worker /\ h.last = g.last
       /\ h.stop = g.stop /\ h.failed = g.failed
  BY <1>7, <1>8 DEF Group
<1>11. ASSUME NEW t \in Members(d, u), t \notin e PROVE t >= c <=> t >= g.cursor
  <2>1. t \in Nat /\ t \in u .. last
    BY <1>1
  <2>2. t >= g.cursor => c <= t
    BY <1>3, <1>5, <1>6, <1>11, <2>1
  <2> QED  BY <1>6, <2>1, <2>2
<1>12. state = "retiring" => g.state = "retiring" \/ ids # {}
  <2> SUFFICES ASSUME g.state = "ready", c > last, ids = {} PROVE FALSE
    BY <1>9
  <2>1. e = g.excluded
    BY DEF e
  <2>2. g.cursor <= last /\ g.cursor \notin g.excluded
    BY DEF GroupInv, last
  <2>3. g.cursor \in Members(d, u)
    BY <1>1, <2>2
  <2>4. g.cursor >= c
    BY <1>6, <1>11, <2>1, <2>2, <2>3
  <2> HIDE DEF last
  <2> QED  BY <1>1, <1>6, <2>2, <2>4
<1> HIDE DEF last
<1>13. h.excluded = g.excluded \cup (ids \cap Members(d, u))
  BY <1>10 DEF e
<1>14. \A t \in Members(d, u) : t \notin h.excluded => (t >= h.cursor <=> t >= g.cursor)
  BY <1>10, <1>11
<1>15. /\ h.state \in {"awaiting", "ready", "active"} => h.state = g.state
       /\ g.state = "awaiting" => h.state = "awaiting" \/ h.excluded = Members(d, u)
       /\ Over(g) => Over(h)
       /\ Over(h) => Over(g) \/ (g.state = "awaiting" /\ h.excluded = Members(d, u))
       /\ Started(h) => Started(g)
       /\ h.state = "retiring" => g.state = "retiring" \/ ids # {}
  BY <1>9, <1>10, <1>12 DEF Over, Started
<1> QED  BY <1>10, <1>13, <1>14, <1>15 DEF MembersGo

(* What excluding tests leaves to come.                                    *)
LosesTests(d, p, q, ids) ==
  /\ TurnInv(q) /\ Coming(q) = Coming(p) \ ids /\ Unsettled(q) = Unsettled(p) \ ids
  /\ q.stop = p.stop /\ q.failures = p.failures /\ q.retiring = p.retiring
  /\ \A v \in SerialUnits(d) : MembersGo(d, v, p.group[v], q.group[v], ids)

(* ExcludeQueued takes the tests from all that is to come.                 *)
LEMMA ExcludeTurn ==
  ASSUME NEW d, NEW p, PlanInv(d, p), TurnInv(p), p.active = NoAttempt, NEW ids \in SUBSET Tests,
         NEW q, q = ExcludeQueued(p, ids)
  PROVE  LosesTests(d, p, q, ids)
<1> DEFINE places == {i \in DOMAIN p.queue : p.queue[i].test \notin ids}
           queue == Kept(p.queue, places)
           again == IF p.again.test \in ids THEN NoAttempt ELSE p.again
           groups == [u \in DOMAIN p.group |-> ExcludeMembers(p.decl, u, p.group[u], ids)]
           final == IF Legacy(d) THEN p.finalized ELSE p.finalized \cup ids
<1>0. /\ p \in PlanOf(d) /\ p.decl = d /\ p.queue \in Seq(Attempts) /\ p.group \in [SerialUnits(d) -> Group]
      /\ p.results \in Seq(Result) /\ NoAttempt.test = 0 /\ p.again \in MaybeAttempt
      /\ Len(p.queue) \in Nat /\ DOMAIN p.queue = 1 .. Len(p.queue) /\ 0 \notin Tests
  BY PlanFields, TestNumbers
<1>1. q = [p EXCEPT !.queue = queue, !.again = again, !.group = groups, !.finalized = final]
  BY <1>0 DEF ExcludeQueued, PlanOf
<1>2. queue \in Seq(Attempts) /\ \E from : KeptFrom(p.queue, places, queue, from)
  <2>1. places \in SUBSET (1 .. Len(p.queue))
    BY <1>0
  <2>2. queue = Kept(p.queue, places)
    OBVIOUS
  <2> HIDE DEF places, queue
  <2> QED  BY <1>0, <2>1, <2>2, KeptPlaces
<1>3. ASSUME NEW v \in SerialUnits(d) PROVE MembersGo(d, v, p.group[v], groups[v], ids)
  <2>1. v \in Units(d) /\ p.group[v] \in Group /\ GroupInv(d, v, p.group[v], p.results)
    BY <1>0 DEF SerialUnits, PlanInv, GroupsInv
  <2>2. groups[v] = ExcludeMembers(d, v, p.group[v], ids)
    BY <1>0
  <2> HIDE DEF groups
  <2> QED  BY <2>1, <2>2, ExcludeMembersGo
<1> HIDE DEF queue, again, groups, final
<1>4. /\ q.decl = d /\ q.queue = queue /\ q.again = again /\ q.group = groups /\ q.active = NoAttempt
      /\ q.stop = p.stop /\ q.failures = p.failures /\ q.retiring = p.retiring
  BY <1>0, <1>1 DEF PlanOf
<1>5. PICK from : KeptFrom(p.queue, places, queue, from)
  BY <1>2
<1>6. /\ \A k \in 1 .. Len(queue) :
           from[k] \in 1 .. Len(p.queue) /\ queue[k] = p.queue[from[k]] /\ p.queue[from[k]].test \notin ids
      /\ \A k, l \in 1 .. Len(queue) : k < l => from[k] < from[l]
      /\ \A i \in 1 .. Len(p.queue) : p.queue[i].test \notin ids => \E k \in 1 .. Len(queue) : from[k] = i
  BY <1>0, <1>5 DEF KeptFrom, places
<1>7. ASSUME NEW s \in Tests PROVE InQueue(q, s) <=> InQueue(p, s) /\ s \notin ids
  <2>1. ASSUME InQueue(q, s) PROVE InQueue(p, s) /\ s \notin ids
    BY <1>4, <1>6, <2>1 DEF InQueue
  <2>2. ASSUME InQueue(p, s), s \notin ids PROVE InQueue(q, s)
    <3>1. PICK i \in 1 .. Len(p.queue) : p.queue[i].test = s
      BY <2>2 DEF InQueue
    <3>2. PICK k \in 1 .. Len(queue) : from[k] = i
      BY <1>6, <2>2, <3>1
    <3> QED  BY <1>4, <1>6, <3>1, <3>2 DEF InQueue
  <2> QED  BY <2>1, <2>2
<1>8. ASSUME NEW s \in Tests
      PROVE  (Open(q, s) <=> Open(p, s) /\ s \notin ids) /\ (Ahead(q, s) <=> Ahead(p, s) /\ s \notin ids)
  <2> DEFINE v == Unit(d, s)
             g == p.group[v]
             h == q.group[v]
  <2>1. CASE ~IsSerial(d, v)
    BY <1>0, <1>4, <2>1 DEF Open, Ahead
  <2>2. CASE IsSerial(d, v)
    <3>1. s \in Members(d, v) /\ v \in SerialUnits(d)
      BY <2>2, UnitOfTest
    <3>2. MembersGo(d, v, g, h, ids)
      BY <1>3, <1>4, <3>1
    <3>3. /\ Open(q, s) <=> ~Over(h) /\ s \notin h.excluded
          /\ Open(p, s) <=> ~Over(g) /\ s \notin g.excluded
          /\ Ahead(q, s) <=> Open(q, s) /\ (h.state = "awaiting" \/ s >= h.cursor)
          /\ Ahead(p, s) <=> Open(p, s) /\ (g.state = "awaiting" \/ s >= g.cursor)
      BY <1>0, <1>4, <2>2 DEF Open, Ahead
    <3> HIDE DEF v, g, h
    <3>4. /\ h.excluded = g.excluded \cup (ids \cap Members(d, v))
          /\ g.state = "awaiting" => h.state = "awaiting" \/ h.excluded = Members(d, v)
          /\ h.state = "awaiting" => h.state = g.state
          /\ Over(g) => Over(h)
          /\ Over(h) => Over(g) \/ h.excluded = Members(d, v)
          /\ s \notin h.excluded => (s >= h.cursor <=> s >= g.cursor)
      BY <3>1, <3>2 DEF MembersGo
    <3>5. s \notin h.excluded <=> s \notin g.excluded /\ s \notin ids
      BY <3>1, <3>4
    <3>6. Open(q, s) <=> Open(p, s) /\ s \notin ids
      BY <3>1, <3>3, <3>4, <3>5
    <3> QED  BY <3>1, <3>3, <3>4, <3>5, <3>6
  <2> QED  BY <2>1, <2>2
<1>9. ASSUME NEW s \in Tests PROVE s = q.again.test <=> s = p.again.test /\ s \notin ids
  BY <1>0, <1>4 DEF again
<1>10. Coming(q) = Coming(p) \ ids
  BY <1>7, <1>8 DEF Coming
<1>11. Unsettled(q) = Unsettled(p) \ ids
  <2>1. ASSUME NEW s \in Tests PROVE s \in Unsettled(q) <=> s \in Unsettled(p) /\ s \notin ids
    BY <1>0, <1>4, <1>7, <1>8, <1>9 DEF Unsettled
  <2> QED  BY <2>1 DEF Unsettled
<1>12. OrderInv(q)
  <2>1. ASSUME NEW k \in 1 .. Len(queue), NEW l \in 1 .. Len(queue), k < l PROVE queue[k].test < queue[l].test
    <3>1. \A i, j \in 1 .. Len(p.queue) : i < j => p.queue[i].test < p.queue[j].test
      BY DEF TurnInv, OrderInv
    <3>2. from[k] \in 1 .. Len(p.queue) /\ from[l] \in 1 .. Len(p.queue) /\ from[k] < from[l]
      BY <1>6, <2>1
    <3>3. p.queue[from[k]].test < p.queue[from[l]].test
      BY <3>1, <3>2
    <3> QED  BY <1>6, <2>1, <3>3
  <2>2. ASSUME NEW k \in 1 .. Len(queue), q.again # NoAttempt PROVE q.again.test < queue[k].test
    <3>1. q.again = p.again /\ p.again # NoAttempt
      BY <1>4, <2>2 DEF again
    <3> QED  BY <1>6, <3>1 DEF TurnInv, OrderInv
  <2> QED  BY <1>4, <2>1, <2>2 DEF OrderInv
<1>13. FenceInv(q)
  <2>1. ASSUME NEW v \in SerialUnits(d)
        PROVE  LET g == q.group[v]
               IN /\ Started(g) => q.retiring = 0
                  /\ g.state = "active" => q.active # NoAttempt /\ g.cursor = q.active.test + 1
                  /\ g.state \in {"awaiting", "ready", "active"} => ~g.stop
                  /\ g.state \in {"ready", "active"} => ~g.failed
    <3>1. MembersGo(d, v, p.group[v], q.group[v], ids)
      BY <1>3, <1>4
    <3> QED  BY <1>0, <1>4, <3>1 DEF MembersGo, TurnInv, FenceInv
  <2> QED  BY <1>4, <2>1 DEF FenceInv
<1>14. LimitInv(q)
  <2>1. FailureLimitReached(q) => FailureLimitReached(p)
    BY <1>0, <1>4 DEF FailureLimitReached
  <2>2. p.queue = <<>> => queue = <<>>
    <3>1. p.queue = <<>> => \A k \in 1 .. Len(queue) : FALSE
      BY <1>6
    <3> QED  BY <1>2, <3>1, EmptySeq
  <2>3. p.again = NoAttempt => again = NoAttempt
    BY DEF again
  <2> QED  BY <1>0, <1>4, <2>1, <2>2, <2>3 DEF TurnInv, LimitInv
<1> QED  BY <1>3, <1>4, <1>10, <1>11, <1>12, <1>13, <1>14 DEF LosesTests, TurnInv

(* What an exit of the worker leaves: a wave ends or a retry is queued.    *)
ExitsTo(d, p, q) ==
  /\ PlanInv(d, q) /\ TurnInv(q) /\ q.active = NoAttempt
  /\ \A t \in Tests :
       /\ t \in Unsettled(q) => t \in Unsettled(p)
       /\ t \in Unsettled(p) => t \in Unsettled(q) \/ (IsSerial(d, Unit(d, t)) /\ Over(q.group[Unit(d, t)]))
  /\ \A v \in SerialUnits(d) :
       /\ q.group[v].last = p.group[v].last
       /\ Over(p.group[v]) => Over(q.group[v])
       /\ Started(q.group[v]) => Started(p.group[v])
  /\ Legacy(d) => (FailureLimitReached(q) <=> FailureLimitReached(p))

(* Two such steps are one.                                                 *)
LEMMA ExitsTwice ==
  ASSUME NEW d, NEW p, NEW q, NEW r, ExitsTo(d, p, q), ExitsTo(d, q, r)
  PROVE  ExitsTo(d, p, r)
<1>1. ASSUME NEW t \in Tests, t \in Unsettled(p)
      PROVE  t \in Unsettled(r) \/ (IsSerial(d, Unit(d, t)) /\ Over(r.group[Unit(d, t)]))
  BY <1>1, UnitOfTest DEF ExitsTo
<1> QED  BY <1>1 DEF ExitsTo

(* No group has begun and none waits for an exit.                          *)
AtRest(d, p) == p.retiring = 0 /\ \A v \in SerialUnits(d) : ~Started(p.group[v])

(* Then all that is not settled is to come in the next worker.             *)
LEMMA RestComes ==
  ASSUME NEW d, NEW p, PlanInv(d, p), p.active = NoAttempt, AtRest(d, p)
  PROVE  Coming(p) = Unsettled(p) /\ ~NeedsWorkerRetirement(p)
<1>1. p.decl = d /\ NoAttempt.test = 0 /\ 0 \notin Tests /\ p.group \in [SerialUnits(d) -> Group]
  BY PlanFields, TestNumbers
<1>2. p.again = NoAttempt
  <2>1. CASE p.again # NoAttempt
    <3>1. p.again.test \in Tests
      BY <2>1, PlanFields
    <3>2. p.retiring = Unit(d, p.again.test)
      BY <1>1, <2>1 DEF PlanInv, AgainInv
    <3> QED  BY <3>1, <3>2, UnitOfTest DEF AtRest
  <2> QED  BY <2>1
<1>3. ASSUME NEW t \in Tests, Open(p, t) PROVE Ahead(p, t)
  <2>1. Unit(d, t) \in SerialUnits(d)
    BY <1>1, <1>3, UnitOfTest DEF Open
  <2>2. p.group[Unit(d, t)].state = "awaiting"
    BY <1>1, <1>3, <2>1 DEF Open, Over, AtRest, Started, Group
  <2> QED  BY <1>1, <1>3, <2>2 DEF Ahead
<1>4. ASSUME NEW t \in Tests PROVE t \in Coming(p) <=> t \in Unsettled(p)
  BY <1>1, <1>2, <1>3 DEF Coming, Unsettled, Ahead
<1>5. ~NeedsWorkerRetirement(p)
  <2>1. Remaining(p) # {} /\ IsSerial(d, Current(p)) => Current(p) \in SerialUnits(d)
    BY <1>1, CurrentFacts DEF SerialUnits
  <2> QED  BY <1>1, <2>1 DEF NeedsWorkerRetirement, AtRest, Started
<1> QED  BY <1>4, <1>5 DEF Coming, Unsettled

(* WorkerExited leaves no group that is to retire.                         *)
LeavesTurn(d, p, q) ==
  /\ ExitsTo(d, p, q) /\ q.retiring = 0
  /\ \A v \in SerialUnits(d) : Started(q.group[v]) => p.group[v].state = "ready" /\ q.group[v].state = "ready"

(* The retry waits no more.                                                *)
LEMMA RetryLeaves ==
  ASSUME NEW d, NEW p, PlanInv(d, p), TurnInv(p), p.active = NoAttempt, p.retiring # 0, NEW q, q = WorkerExited(p)
  PROVE  LeavesTurn(d, p, q)
<1>0. /\ p \in PlanOf(d) /\ p.decl = d /\ p.queue \in Seq(Attempts) /\ p.again \in MaybeAttempt
      /\ NoAttempt.test = 0 /\ Len(p.queue) \in Nat /\ 0 \notin Tests /\ DOMAIN p.queue = 1 .. Len(p.queue)
      /\ p.again # NoAttempt => p.again \in Attempts /\ p.again.test \in Tests
  BY PlanFields, TestNumbers
<1>1. /\ Leaves(d, p, q) /\ PlanInv(d, q) /\ q.active = NoAttempt /\ q.again = NoAttempt
      /\ IF p.again = NoAttempt THEN q.queue = p.queue ELSE q.queue = <<p.again>> \o p.queue
  <2>1. Leaves(d, p, q)
    BY WorkerExitedKeeps
  <2> QED  BY <2>1 DEF Leaves
<1>2. q.decl = d /\ q.retiring = 0 /\ q.group = p.group /\ q.failures = p.failures
  BY <1>0 DEF WorkerExited, PlanOf
<1>3. ASSUME NEW v \in SerialUnits(d) PROVE ~Started(p.group[v])
  BY <1>0 DEF TurnInv, FenceInv
<1>4. ASSUME p.again # NoAttempt
      PROVE  /\ Len(q.queue) = Len(p.queue) + 1 /\ q.queue[1] = p.again
             /\ \A k \in 1 .. Len(p.queue) : q.queue[k + 1] = p.queue[k]
             /\ \A k \in 2 .. Len(p.queue) + 1 : q.queue[k] = p.queue[k - 1]
  <2>1. q.queue = <<p.again>> \o p.queue /\ <<p.again>> \in Seq(Attempts) /\ Len(<<p.again>>) = 1 /\ <<p.again>>[1] = p.again
    BY <1>0, <1>1, <1>4
  <2> DEFINE one == <<p.again>>
  <2>2. q.queue = one \o p.queue /\ one \in Seq(Attempts) /\ Len(one) = 1 /\ one[1] = p.again
    BY <2>1
  <2> HIDE DEF one
  <2>3. /\ Len(q.queue) = Len(one) + Len(p.queue)
        /\ \A k \in 1 .. Len(one) + Len(p.queue) : q.queue[k] = IF k <= Len(one) THEN one[k] ELSE p.queue[k - Len(one)]
    <3>1. q.queue = one \o p.queue /\ one \in Seq(Attempts)
      BY <2>2
    <3>2. p.queue \in Seq(Attempts)
      BY <1>0
    <3> QED  BY ONLY <3>1, <3>2, ConcatElements
  <2>4. ASSUME NEW k \in 1 .. Len(p.queue) PROVE q.queue[k + 1] = p.queue[k]
    <3>1. k + 1 \in 1 .. Len(one) + Len(p.queue) /\ ~(k + 1 <= 1) /\ k + 1 - 1 = k
      BY <1>0, <2>2
    <3> QED  BY <2>2, <2>3, <3>1
  <2>5. ASSUME NEW k \in 2 .. Len(p.queue) + 1 PROVE q.queue[k] = p.queue[k - 1]
    <3>1. k \in 1 .. Len(one) + Len(p.queue) /\ ~(k <= 1)
      BY <1>0, <2>2
    <3> QED  BY <2>2, <2>3, <3>1
  <2> QED  BY <1>0, <2>2, <2>3, <2>4, <2>5
<1>5. ASSUME NEW t \in Tests PROVE InQueue(q, t) <=> InQueue(p, t) \/ t = p.again.test
  <2>1. CASE p.again = NoAttempt
    BY <1>0, <1>1, <2>1 DEF InQueue
  <2>2. CASE p.again # NoAttempt
    <3>1. ASSUME NEW k \in 1 .. Len(q.queue), q.queue[k].test = t PROVE InQueue(p, t) \/ t = p.again.test
      <4>1. CASE k = 1
        BY <1>4, <2>2, <3>1, <4>1
      <4>2. CASE k # 1
        <5>1. k \in 2 .. Len(p.queue) + 1 /\ k - 1 \in 1 .. Len(p.queue)
          BY <1>0, <1>4, <2>2, <4>2
        <5> QED  BY <1>4, <2>2, <3>1, <5>1 DEF InQueue
      <4> QED  BY <4>1, <4>2
    <3>2. ASSUME NEW k \in 1 .. Len(p.queue), p.queue[k].test = t PROVE InQueue(q, t)
      <4>1. k + 1 \in 1 .. Len(q.queue)
        BY <1>0, <1>4, <2>2
      <4> QED  BY <1>4, <2>2, <3>2, <4>1 DEF InQueue
    <3>3. ASSUME t = p.again.test PROVE InQueue(q, t)
      <4>1. 1 \in 1 .. Len(q.queue)
        BY <1>0, <1>4, <2>2
      <4> QED  BY <1>4, <2>2, <3>3, <4>1 DEF InQueue
    <3> QED  BY <3>1, <3>2, <3>3 DEF InQueue
  <2> QED  BY <2>1, <2>2
<1>6. ASSUME NEW t \in Tests PROVE t \in Unsettled(q) <=> t \in Unsettled(p)
  <2>1. Open(q, t) <=> Open(p, t)
    BY <1>0, <1>2 DEF Open
  <2> QED  BY <1>0, <1>1, <1>5, <2>1 DEF Unsettled
<1>7. OrderInv(q)
  <2>1. /\ \A k, l \in 1 .. Len(p.queue) : k < l => p.queue[k].test < p.queue[l].test
        /\ \A k \in 1 .. Len(p.queue) : p.again # NoAttempt => p.again.test < p.queue[k].test
    BY DEF TurnInv, OrderInv
  <2>2. CASE p.again = NoAttempt
    BY <1>1, <2>1, <2>2 DEF OrderInv
  <2>3. CASE p.again # NoAttempt
    <3>1. ASSUME NEW k \in 1 .. Len(q.queue), NEW l \in 1 .. Len(q.queue), k < l
          PROVE  q.queue[k].test < q.queue[l].test
      <4>1. l \in 2 .. Len(p.queue) + 1 /\ l - 1 \in 1 .. Len(p.queue) /\ k \in Nat /\ l \in Nat
        BY <1>0, <1>4, <2>3, <3>1
      <4>2. q.queue[l] = p.queue[l - 1]
        BY <1>4, <2>3, <4>1
      <4>3. CASE k = 1
        BY <1>4, <2>1, <2>3, <4>1, <4>2, <4>3
      <4>4. CASE k # 1
        <5>1. k \in 2 .. Len(p.queue) + 1 /\ k - 1 \in 1 .. Len(p.queue) /\ k - 1 < l - 1
          BY <1>0, <1>4, <2>3, <3>1, <4>1, <4>4
        <5>2. q.queue[k] = p.queue[k - 1]
          BY <1>4, <2>3, <5>1
        <5> QED  BY <2>1, <4>1, <4>2, <5>1, <5>2
      <4> QED  BY <4>3, <4>4
    <3> QED  BY <1>1, <3>1 DEF OrderInv
  <2> QED  BY <2>2, <2>3
<1>8. FenceInv(q)
  BY <1>0, <1>1, <1>2, <1>3 DEF FenceInv, TurnInv
<1>9. FailureLimitReached(q) <=> FailureLimitReached(p)
  BY <1>0, <1>2 DEF FailureLimitReached
<1>10. LimitInv(q)
  BY <1>0, <1>1, <1>2, <1>9 DEF LimitInv, TurnInv
<1> QED  BY <1>1, <1>2, <1>3, <1>6, <1>7, <1>8, <1>9, <1>10 DEF LeavesTurn, ExitsTo, TurnInv

(* The wave's worker has gone: the group is over or awaits the next wave.  *)
WaveEnds(g, h) ==
  /\ Over(h) \/ (h.state = "awaiting" /\ ~h.stop)
  /\ h.last = g.last /\ h.excluded = g.excluded

(* Retired does that.                                                      *)
LEMMA RetiredEnds ==
  ASSUME NEW d, NEW u, NEW g \in Group, NEW h, h = Retired(d, u, g)
  PROVE  WaveEnds(g, h)
BY DEF Retired, WaveEnds, Group, Over

(* What a change of one group that was not over leaves unsettled.          *)
LEMMA GroupChanges ==
  ASSUME NEW d, NEW p, NEW q, p.decl = d, q.decl = d, p.group \in [SerialUnits(d) -> Group],
         q.queue = p.queue, q.active = p.active, q.again = p.again,
         NEW u \in SerialUnits(d), NEW h, q.group = [p.group EXCEPT ![u] = h], h.excluded = p.group[u].excluded,
         ~Over(p.group[u]), NEW t \in Tests
  PROVE  /\ t \in Unsettled(q) => t \in Unsettled(p)
         /\ t \in Unsettled(p) => t \in Unsettled(q) \/ (IsSerial(d, Unit(d, t)) /\ Over(q.group[Unit(d, t)]))
<1>1. InQueue(q, t) <=> InQueue(p, t)
  BY DEF InQueue
<1>2. Open(q, t) => Open(p, t)
  BY UnitOfTest DEF Open
<1>3. Open(p, t) => Open(q, t) \/ (IsSerial(d, Unit(d, t)) /\ Over(q.group[Unit(d, t)]))
  BY UnitOfTest DEF Open
<1> QED  BY <1>1, <1>2, <1>3 DEF Unsettled

(* A wave ends.                                                            *)
LEMMA WaveLeaves ==
  ASSUME NEW d, NEW p, PlanInv(d, p), TurnInv(p), p.active = NoAttempt, p.retiring = 0,
         NeedsWorkerRetirement(p), NEW q, q = WorkerExited(p)
  PROVE  LeavesTurn(d, p, q)
<1> DEFINE u == Current(p)
           h == Retired(d, u, p.group[u])
<1>0. /\ p \in PlanOf(d) /\ p.decl = d /\ p.group \in [SerialUnits(d) -> Group] /\ p.failures \in Nat
  BY PlanFields
<1>1. PlanInv(d, q) /\ q.active = NoAttempt /\ q.again = NoAttempt
  <2>1. Leaves(d, p, q)
    BY WorkerExitedKeeps
  <2> QED  BY <2>1 DEF Leaves
<1>2. u \in SerialUnits(d) /\ p.group[u].state = "retiring" /\ p.group[u] \in Group
  BY <1>0, CurrentFacts DEF NeedsWorkerRetirement, SerialUnits
<1>3. q.decl = d /\ q.retiring = 0 /\ q.queue = p.queue /\ q.group = [p.group EXCEPT ![u] = h]
  <2>1. q = Account([p EXCEPT !.group[u] = Retired(d, u, @)], u)
    BY <1>0 DEF WorkerExited
  <2> DEFINE r == [p EXCEPT !.group[u] = Retired(d, u, @)]
  <2>3. r.decl = d /\ r.retiring = 0 /\ r.queue = p.queue /\ r.group = [p.group EXCEPT ![u] = h]
    BY <1>0 DEF PlanOf
  <2>4. DOMAIN r = DOMAIN p /\ DOMAIN p = {"decl", "queue", "active", "again", "retiring", "amended", "group", "failures", "stop", "finalized", "results"}
    BY <1>0 DEF PlanOf
  <2> HIDE DEF r, h
  <2> QED  BY <2>1, <2>3, <2>4 DEF Account, r
<1>4. WaveEnds(p.group[u], h)
  BY <1>2, RetiredEnds
<1> HIDE DEF h
<1>5. p.again = NoAttempt
  BY <1>0, PlanFields, UnitOfTest DEF PlanInv, AgainInv
<1>6. ASSUME NEW v \in SerialUnits(d) PROVE q.group[v] = IF v = u THEN h ELSE p.group[v]
  BY <1>0, <1>3
<1>7. ASSUME NEW v \in SerialUnits(d), v # u PROVE ~Started(q.group[v])
  <2>1. ~Started(p.group[v])
    BY <1>7, StartedIsCurrent DEF u
  <2> QED  BY <1>6, <1>7, <2>1
<1>8. ~Started(h)
  BY <1>4 DEF WaveEnds, Over, Started
<1>9. ASSUME NEW t \in Tests
      PROVE  /\ t \in Unsettled(q) => t \in Unsettled(p)
             /\ t \in Unsettled(p) => t \in Unsettled(q) \/ (IsSerial(d, Unit(d, t)) /\ Over(q.group[Unit(d, t)]))
  <2>1. ~Over(p.group[u]) /\ h.excluded = p.group[u].excluded
    BY <1>2, <1>4 DEF Over, WaveEnds
  <2> HIDE DEF u
  <2> QED  BY <1>0, <1>1, <1>2, <1>3, <1>5, <2>1, GroupChanges
<1>10. ASSUME NEW v \in SerialUnits(d)
       PROVE  /\ q.group[v].last = p.group[v].last /\ ~Started(q.group[v])
              /\ Over(p.group[v]) => Over(q.group[v])
  BY <1>2, <1>4, <1>6, <1>7, <1>8 DEF WaveEnds, Over
<1>11. OrderInv(q)
  BY <1>1, <1>3, <1>5 DEF OrderInv, TurnInv
<1>12. FenceInv(q)
  <2>1. ASSUME NEW v \in SerialUnits(d), q.group[v].state \in {"awaiting", "ready", "active"} PROVE ~q.group[v].stop
    <3>1. CASE v = u
      BY <1>4, <1>6, <1>8, <2>1, <3>1 DEF WaveEnds, Over
    <3>2. CASE v # u
      BY <1>0, <1>6, <2>1, <3>2 DEF TurnInv, FenceInv
    <3> QED  BY <3>1, <3>2
  <2> QED  BY <1>3, <1>10, <2>1 DEF FenceInv, Started
<1>13. ~Legacy(d)
  <2>1. u \in Tests
    BY <1>2, MemberFacts DEF SerialUnits
  <2> QED  BY <1>2, <2>1 DEF SerialUnits, IsSerial, Legacy
<1> QED  BY <1>1, <1>3, <1>9, <1>10, <1>11, <1>12, <1>13 DEF LeavesTurn, ExitsTo, TurnInv, LimitInv

(* WorkerExited.                                                           *)
LEMMA WorkerExitedTurn ==
  ASSUME NEW d, NEW p, PlanInv(d, p), TurnInv(p), p.active = NoAttempt, NEW q, q = WorkerExited(p)
  PROVE  LeavesTurn(d, p, q)
<1>1. CASE p.retiring = 0 /\ ~NeedsWorkerRetirement(p)
  <2>1. q = p
    BY <1>1 DEF WorkerExited
  <2>2. p.decl = d /\ p.group \in [SerialUnits(d) -> Group]
    BY PlanFields
  <2>3. ExitsTo(d, p, p)
    BY DEF ExitsTo
  <2>4. ASSUME NEW v \in SerialUnits(d), Started(p.group[v]) PROVE p.group[v].state = "ready"
    <3>1. p.group[v].state # "retiring"
      BY <1>1, RetiringIsNoticed
    <3>2. p.group[v].state # "active"
      BY <2>2 DEF TurnInv, FenceInv
    <3> QED  BY <2>4, <3>1, <3>2 DEF Started
  <2> QED  BY <1>1, <2>1, <2>3, <2>4 DEF LeavesTurn
<1> QED  BY <1>1, RetryLeaves, WaveLeaves

(* A wave with members to come is stopped.                                 *)
LEMMA StoppedTurn ==
  ASSUME NEW d, NEW p, PlanInv(d, p), TurnInv(p), p.active = NoAttempt,
         NEW u \in SerialUnits(d), p.group[u].state = "ready", NEW q, q = GroupStopped(p, u)
  PROVE  ExitsTo(d, p, q) /\ q.decl = d /\ \A v \in SerialUnits(d) : q.group[v].state # "ready"
<1> DEFINE h == StopGroup(p.group[u])
<1>0. /\ p \in PlanOf(d) /\ p.decl = d /\ p.group \in [SerialUnits(d) -> Group]
  BY PlanFields
<1>1. PlanInv(d, q) /\ q.active = NoAttempt /\ q.again = p.again /\ q.queue = p.queue
  <2>1. Stops(d, p, q)
    BY StopCurrentKeeps
  <2> QED  BY <2>1 DEF Stops
<1>2. q.decl = d /\ q.retiring = p.retiring /\ q.failures = p.failures /\ q.group = [p.group EXCEPT ![u] = h]
  BY <1>0 DEF GroupStopped, PlanOf
<1>3. h.state = "retiring" /\ h.excluded = p.group[u].excluded /\ h.last = p.group[u].last
  BY <1>0 DEF StopGroup, Group
<1> HIDE DEF h
<1>4. ASSUME NEW v \in SerialUnits(d) PROVE q.group[v] = IF v = u THEN h ELSE p.group[v]
  BY <1>0, <1>2
<1>5. ASSUME NEW v \in SerialUnits(d) PROVE q.group[v].state # "ready"
  <2>1. v # u => ~Started(p.group[v])
    BY StartedIsCurrent DEF Started
  <2> QED  BY <1>3, <1>4, <2>1 DEF Started
<1>6. ASSUME NEW t \in Tests
      PROVE  /\ t \in Unsettled(q) => t \in Unsettled(p)
             /\ t \in Unsettled(p) => t \in Unsettled(q) \/ (IsSerial(d, Unit(d, t)) /\ Over(q.group[Unit(d, t)]))
  <2>1. ~Over(p.group[u])
    BY DEF Over
  <2> QED  BY <1>0, <1>1, <1>2, <1>3, <2>1, GroupChanges, SMTT(40), ZenonT(60)
<1>7. ASSUME NEW v \in SerialUnits(d)
      PROVE  /\ q.group[v].last = p.group[v].last
             /\ Over(p.group[v]) => Over(q.group[v])
             /\ Started(q.group[v]) => Started(p.group[v])
  BY <1>3, <1>4 DEF Over, Started
<1>8. OrderInv(q)
  BY <1>1 DEF OrderInv, TurnInv
<1>9. FenceInv(q)
  BY <1>0, <1>1, <1>2, <1>3, <1>4 DEF FenceInv, TurnInv, Started
<1>10. ~Legacy(d)
  <2>1. u \in Tests
    BY MemberFacts DEF SerialUnits
  <2> QED  BY <2>1 DEF SerialUnits, IsSerial, Legacy
<1> QED  BY <1>1, <1>2, <1>5, <1>6, <1>7, <1>8, <1>9, <1>10 DEF ExitsTo, TurnInv, LimitInv

(* The worker goes: no group has begun, and the plan waits for no exit.    *)
LEMMA ExitTurn ==
  ASSUME NEW d, NEW p, PlanInv(d, p), TurnInv(p), p.active = NoAttempt, NEW w \in Nat,
         \A v \in SerialUnits(d) : Started(p.group[v]) => p.group[v].worker = w,
         NEW r, r = ActualWorkerExited(p, w),
         NEW q, q = IF NeedsWorkerRetirement(r) THEN WorkerExited(r) ELSE r
  PROVE  ExitsTo(d, p, q) /\ AtRest(d, q)
<1>0. p.decl = d /\ p.group \in [SerialUnits(d) -> Group] /\ ExitsTo(d, p, p)
  BY PlanFields DEF ExitsTo
<1>1. CASE ~\E v \in SerialUnits(d) : Started(p.group[v])
  <2>1. r = p \/ r = WorkerExited(p)
    <3>1. ~Legacy(d) /\ Remaining(p) # {} /\ IsSerial(d, Current(p)) => p.group[Current(p)].state # "ready"
      BY <1>0, <1>1, CurrentFacts DEF SerialUnits, Started
    <3> QED  BY <1>0, <3>1 DEF ActualWorkerExited
  <2>2. ASSUME NEW b, ExitsTo(d, p, b) PROVE ~\E v \in SerialUnits(d) : Started(b.group[v])
    BY <1>1, <2>2 DEF ExitsTo
  <2>3. CASE r = p
    <3>1. CASE NeedsWorkerRetirement(p)
      <4>1. LeavesTurn(d, p, q)
        BY <2>3, <3>1, WorkerExitedTurn
      <4> QED  BY <2>2, <4>1 DEF LeavesTurn, AtRest
    <3>2. CASE ~NeedsWorkerRetirement(p)
      <4>1. q = p /\ p.retiring = 0
        BY <2>3, <3>2 DEF NeedsWorkerRetirement
      <4> QED  BY <1>0, <1>1, <4>1 DEF AtRest
    <3> QED  BY <3>1, <3>2
  <2>4. CASE r = WorkerExited(p)
    <3>1. LeavesTurn(d, p, r)
      BY <2>4, WorkerExitedTurn
    <3>2. ExitsTo(d, p, r) /\ AtRest(d, r) /\ PlanInv(d, r) /\ r.active = NoAttempt
      BY <2>2, <3>1 DEF LeavesTurn, AtRest, ExitsTo
    <3>3. q = r
      BY <3>2, RestComes
    <3> QED  BY <3>2, <3>3
  <2> QED  BY <2>1, <2>3, <2>4
<1>2. CASE \E v \in SerialUnits(d) : Started(p.group[v])
  <2>1. PICK u \in SerialUnits(d) : Started(p.group[u])
    BY <1>2
  <2>2. Remaining(p) # {} /\ Current(p) = u /\ IsSerial(d, u) /\ p.group[u].worker = w
    BY <2>1, StartedIsCurrent DEF SerialUnits
  <2>3. ~Legacy(d)
    <3>1. u \in Tests
      BY MemberFacts DEF SerialUnits
    <3> QED  BY <2>2, <3>1 DEF IsSerial, Legacy
  <2> DEFINE b == IF p.group[u].state # "ready" THEN p ELSE GroupStopped(p, u)
  <2>4. r = WorkerExited(b)
    BY <1>0, <2>2, <2>3 DEF ActualWorkerExited, GroupStopped
  <2>5. ExitsTo(d, p, b) /\ \A v \in SerialUnits(d) : b.group[v].state # "ready"
    <3>1. CASE p.group[u].state = "ready"
      <4>1. b = GroupStopped(p, u)
        BY <3>1
      <4> HIDE DEF b
      <4> QED  BY <3>1, <4>1, StoppedTurn
    <3>2. CASE p.group[u].state # "ready"
      <4>1. b = p
        BY <3>2
      <4>2. ASSUME NEW v \in SerialUnits(d), p.group[v].state = "ready" PROVE FALSE
        <5>1. Current(p) = v
          BY <4>2, StartedIsCurrent DEF Started
        <5> QED  BY <2>2, <3>2, <4>2, <5>1
      <4> QED  BY <1>0, <4>1, <4>2
    <3> QED  BY <3>1, <3>2
  <2> HIDE DEF b
  <2>6. LeavesTurn(d, b, r)
    <3>1. PlanInv(d, b) /\ TurnInv(b) /\ b.active = NoAttempt
      BY <2>5 DEF ExitsTo
    <3> QED  BY <2>4, <3>1, WorkerExitedTurn
  <2>7. ExitsTo(d, b, r) /\ AtRest(d, r) /\ PlanInv(d, r) /\ r.active = NoAttempt
    BY <2>5, <2>6 DEF LeavesTurn, AtRest, ExitsTo
  <2>8. q = r
    BY <2>7, RestComes
  <2>9. ExitsTo(d, p, r)
    BY <2>5, <2>7, ExitsTwice
  <2> QED  BY <2>7, <2>8, <2>9
<1> QED  BY <1>1, <1>2

(* The plan that the constructor makes.                                    *)
LEMMA InitTurn ==
  ASSUME NEW d, d.limit \in Nat, NEW p, p = InitPlan(d)
  PROVE  /\ TurnInv(p) /\ AtRest(d, p) /\ Unsettled(p) = Tests
         /\ p.retiring = 0 /\ \A v \in SerialUnits(d) : p.group[v].last = 0
<1> DEFINE all == [t \in Tests |-> Attempt(t, 0)]
           ordinary == {t \in Tests : GroupSuite(d, t) = 0}
<1>0. Tests = 1 .. Cardinality(Tests) /\ Cardinality(Tests) \in Nat /\ 0 \notin Tests
  BY RetryPlanAssumption, TestNumbers, FS_CardinalityType
<1>1. /\ p.decl = d /\ p.queue = Kept(all, ordinary) /\ p.active = NoAttempt /\ p.again = NoAttempt
      /\ p.retiring = 0 /\ p.group = [u \in SerialUnits(d) |-> InitGroup(u)] /\ p.failures = 0
  BY DEF InitPlan, SerialUnits
<1>2. /\ all \in Seq(Attempts) /\ Len(all) = Cardinality(Tests) /\ ordinary \in SUBSET (1 .. Len(all))
      /\ \A t \in Tests : all[t].test = t
  <2>1. \A t \in Tests : Attempt(t, 0) \in Attempts /\ Attempt(t, 0).test = t
    BY DEF Attempt, Attempts
  <2> DEFINE n == Cardinality(Tests)
  <2>2. Tests = 1 .. n /\ n \in Nat
    BY <1>0
  <2> HIDE DEF n
  <2>3. all \in [1 .. n -> Attempts]
    BY <2>1, <2>2
  <2>4. all \in Seq(Attempts) /\ Len(all) = n
    <3> HIDE DEF all
    <3> QED  BY <2>2, <2>3
  <2>5. n = Cardinality(Tests)
    BY DEF n
  <2> QED  BY <2>1, <2>2, <2>4, <2>5
<1>3. PICK from : KeptFrom(all, ordinary, p.queue, from)
  <2> HIDE DEF all, ordinary
  <2> QED  BY <1>1, <1>2, KeptPlaces
<1> HIDE DEF all
<1>4. /\ \A k \in 1 .. Len(p.queue) : from[k] \in ordinary /\ p.queue[k].test = from[k]
      /\ \A k, l \in 1 .. Len(p.queue) : k < l => from[k] < from[l]
      /\ \A t \in ordinary : \E k \in 1 .. Len(p.queue) : from[k] = t
  <2> HIDE DEF ordinary
  <2>1. ordinary \subseteq Tests
    BY DEF ordinary
  <2> QED  BY <1>0, <1>2, <1>3, <2>1 DEF KeptFrom
<1>5. OrderInv(p)
  BY <1>1, <1>4 DEF OrderInv
<1>6. \A v \in SerialUnits(d) : p.group[v].state = "awaiting" /\ ~p.group[v].stop /\ p.group[v].last = 0 /\ p.group[v].excluded = {}
  BY <1>1 DEF InitGroup
<1>7. FenceInv(p) /\ AtRest(d, p)
  BY <1>1, <1>6 DEF FenceInv, Started, AtRest
<1>8. LimitInv(p)
  BY <1>1 DEF LimitInv, FailureLimitReached
<1>9. ASSUME NEW t \in Tests PROVE InQueue(p, t) \/ Open(p, t)
  <2>1. CASE GroupSuite(d, t) = 0
    BY <1>4, <2>1 DEF InQueue
  <2>2. CASE GroupSuite(d, t) # 0
    <3>1. IsSerial(d, Unit(d, t)) /\ Unit(d, t) \in SerialUnits(d)
      BY <2>2, UnitFacts, UnitOfTest DEF IsSerial
    <3> QED  BY <1>1, <1>6, <3>1 DEF Open, Over
  <2> QED  BY <2>1, <2>2
<1> QED  BY <1>1, <1>5, <1>6, <1>7, <1>8, <1>9 DEF TurnInv, Unsettled

(* What is to come does not depend on the rest of the plan.                *)
LEMMA SameTurn ==
  ASSUME NEW p, NEW q, q.decl = p.decl, q.queue = p.queue, q.active = p.active, q.again = p.again,
         q.group = p.group, q.retiring = p.retiring, q.failures = p.failures, q.stop = p.stop
  PROVE  /\ TurnInv(p) => TurnInv(q)
         /\ Coming(q) = Coming(p) /\ Unsettled(q) = Unsettled(p)
         /\ Remaining(q) = Remaining(p) /\ (Stopped(q) <=> Stopped(p))
         /\ (NeedsWorkerRetirement(q) <=> NeedsWorkerRetirement(p)) /\ (FailureLimitReached(q) <=> FailureLimitReached(p))
<1>1. \A t \in Tests : (InQueue(q, t) <=> InQueue(p, t)) /\ (Open(q, t) <=> Open(p, t)) /\ (Ahead(q, t) <=> Ahead(p, t))
  BY DEF InQueue, Open, Ahead
<1>2. FailureLimitReached(q) <=> FailureLimitReached(p)
  BY DEF FailureLimitReached
<1>3. TurnInv(p) => TurnInv(q)
  BY <1>2 DEF TurnInv, OrderInv, FenceInv, LimitInv
<1>4. Coming(q) = Coming(p) /\ Unsettled(q) = Unsettled(p)
  BY <1>1 DEF Coming, Unsettled
<1>5. Remaining(q) = Remaining(p)
  BY DEF Remaining, UnitDone
<1>6. Stopped(q) <=> Stopped(p)
  BY <1>2 DEF Stopped
<1>7. NeedsWorkerRetirement(q) <=> NeedsWorkerRetirement(p)
  BY <1>5 DEF NeedsWorkerRetirement, Current
<1> QED  BY <1>2, <1>3, <1>4, <1>5, <1>6, <1>7

-----------------------------------------------------------------------------
(* What is counted.                                                        *)

(* An ordinary test has failed in its last retry; a test has failed. *)
Spent(d, results, t) ==
  \E i \in 1 .. Len(results) :
    /\ results[i].test = t /\ ~results[i].expected /\ results[i].outcome # "interrupted"
    /\ results[i].retry = d.retries[t]
Fails(p, t) ==
  LET u == Unit(p.decl, t)
  IN IF IsSerial(p.decl, u) THEN Over(p.group[u]) /\ ClassifiedFailed(p, t) ELSE Spent(p.decl, p.results, t)

(* No ordinary test has more retries than it is allowed. *)
Allowed(d, a) == IsSerial(d, Unit(d, a.test)) \/ a.retry <= d.retries[a.test]
AllowedInv(p) ==
  /\ \A k \in 1 .. Len(p.queue) : Allowed(p.decl, p.queue[k])
  /\ p.again # NoAttempt => Allowed(p.decl, p.again)
  /\ p.active # NoAttempt => Allowed(p.decl, p.active)
  /\ \A i \in 1 .. Len(p.results) : Allowed(p.decl, p.results[i])

(* The failures counted are the tests that have failed for good.           *)
CountInv(p) == AllowedInv(p) /\ p.failures = Cardinality({t \in Tests : Fails(p, t)})

(* A group awaits another wave. *)
Replays(p, v) ==
  v \in SerialUnits(p.decl) /\ p.group[v].state = "awaiting"
  /\ \E i \in 1 .. Len(p.results) : Unit(p.decl, p.results[i].test) = v

(* What fails depends on the results and on the groups that are over.      *)
LEMMA SameFails ==
  ASSUME NEW d, NEW p, NEW q, p.decl = d, q.decl = d, q.results = p.results, q.failures = p.failures,
         \A v \in SerialUnits(d) : Over(q.group[v]) <=> Over(p.group[v]),
         p.failures = Cardinality({t \in Tests : Fails(p, t)})
  PROVE  q.failures = Cardinality({t \in Tests : Fails(q, t)})
<1>1. ASSUME NEW t \in Tests PROVE Fails(q, t) <=> Fails(p, t)
  <2>1. IsSerial(d, Unit(d, t)) => Unit(d, t) \in SerialUnits(d)
    BY UnitOfTest
  <2>2. ClassifiedFailed(q, t) <=> ClassifiedFailed(p, t)
    BY DEF ClassifiedFailed
  <2> QED  BY <2>1, <2>2 DEF Fails
<1>2. {t \in Tests : Fails(q, t)} = {t \in Tests : Fails(p, t)}
  BY <1>1
<1> QED  BY <1>2

(* The plan that the constructor makes.                                    *)
LEMMA InitCounts ==
  ASSUME NEW d, d.retries \in [Tests -> Nat], NEW p, p = InitPlan(d), PlanInv(d, p)
  PROVE  CountInv(p) /\ \A v : ~Replays(p, v)
<1>1. /\ p.decl = d /\ p.active = NoAttempt /\ p.again = NoAttempt /\ p.failures = 0 /\ p.results = <<>>
      /\ p.queue = Kept([t \in Tests |-> Attempt(t, 0)], {t \in Tests : GroupSuite(d, t) = 0})
  BY DEF InitPlan
<1>2. ASSUME NEW t \in Tests PROVE ~Fails(p, t)
  BY <1>1 DEF Fails, Spent, ClassifiedFailed, Range
<1>3. Cardinality({t \in Tests : Fails(p, t)}) = 0
  <2>1. {t \in Tests : Fails(p, t)} = {}
    BY <1>2
  <2> QED  BY <2>1, FS_EmptySet
<1>4. ASSUME NEW k \in 1 .. Len(p.queue) PROVE Allowed(d, p.queue[k])
  <2> DEFINE all == [t \in Tests |-> Attempt(t, 0)]
             places == {t \in Tests : GroupSuite(d, t) = 0}
  <2>1. Cardinality(Tests) \in Nat /\ Tests = 1 .. Cardinality(Tests)
    BY RetryPlanAssumption, FS_CardinalityType
  <2>2. all \in Seq(Attempts) /\ Len(all) = Cardinality(Tests) /\ places \in SUBSET (1 .. Len(all))
    <3>1. \A t \in Tests : Attempt(t, 0) \in Attempts
      BY DEF Attempts, Attempt
    <3>2. all \in [1 .. Cardinality(Tests) -> Attempts]
      BY <2>1, <3>1
    <3>3. all \in Seq(Attempts) /\ Len(all) = Cardinality(Tests)
      BY <2>1, <3>2
    <3>4. places \subseteq Tests
      OBVIOUS
    <3> HIDE DEF all, places
    <3> QED  BY <2>1, <3>3, <3>4
  <2>3. p.queue = Kept(all, places)
    BY <1>1
  <2>4. \A t \in Tests : all[t].test = t /\ all[t].retry = 0
    BY DEF Attempt
  <2> HIDE DEF all, places
  <2>5. PICK from : KeptFrom(all, places, p.queue, from)
    BY <2>2, <2>3, KeptPlaces
  <2>6. from[k] \in Tests /\ p.queue[k] = all[from[k]]
    BY <1>4, <2>1, <2>2, <2>5 DEF KeptFrom
  <2> QED  BY <2>4, <2>6 DEF Allowed
<1>5. AllowedInv(p)
  BY <1>1, <1>4 DEF AllowedInv
<1> QED  BY <1>1, <1>3, <1>5 DEF CountInv, Replays

(* The next attempt.                                                       *)
LEMMA PickCounts ==
  ASSUME NEW d, NEW p, PlanInv(d, p), CountInv(p), p.active = NoAttempt, NEW w, NEW q, PlanInv(d, q), Picks(d, p, q, w),
         q.results = p.results, \A v : Replays(p, v) => v = Current(p)
  PROVE  CountInv(q) /\ \A v : ~Replays(q, v)
<1> DEFINE u == Unit(d, q.active.test)
<1>0. /\ p.decl = d /\ q.decl = d /\ p.queue \in Seq(Attempts) /\ p.group \in [SerialUnits(d) -> Group]
      /\ q.group \in [SerialUnits(d) -> Group] /\ q.active.test \in Tests
  BY PlanFields DEF Picks
<1>1. u = Current(p) /\ Remaining(p) # {} /\ q.again = p.again /\ q.failures = p.failures
  BY DEF Picks
<1>2. ~UnitDone(p, u)
  BY <1>1, CurrentFacts
<1>3. IsSerial(d, u) => u \in SerialUnits(d)
  BY <1>0, UnitOfTest
<1>4. CASE IsSerial(d, u)
  <2>1. /\ q.queue = p.queue /\ q.group[u].state = "active" /\ \A v \in SerialUnits(d) : v # u => q.group[v] = p.group[v]
    BY <1>4 DEF Picks, MemberPicked
  <2>2. ~Over(p.group[u]) /\ ~Over(q.group[u])
    BY <1>0, <1>2, <1>4, <2>1 DEF UnitDone, Over
  <2>3. \A v \in SerialUnits(d) : Over(q.group[v]) <=> Over(p.group[v])
    BY <2>1, <2>2
  <2>4. AllowedInv(q)
    BY <1>0, <1>1, <1>4, <2>1 DEF AllowedInv, CountInv, Allowed
  <2>5. q.failures = Cardinality({t \in Tests : Fails(q, t)})
    <3>1. p.failures = Cardinality({t \in Tests : Fails(p, t)})
      BY DEF CountInv
    <3> QED  BY <1>0, <1>1, <2>3, <3>1, SameFails
  <2>6. ASSUME NEW v, Replays(q, v) PROVE FALSE
    <3>1. v \in SerialUnits(d) /\ q.group[v].state = "awaiting" /\ v # u
      BY <1>0, <2>1, <2>6 DEF Replays
    <3>2. Replays(p, v)
      BY <1>0, <2>1, <2>6, <3>1 DEF Replays
    <3> QED  BY <1>1, <3>1, <3>2
  <2> QED  BY <2>4, <2>5, <2>6 DEF CountInv
<1>5. CASE ~IsSerial(d, u)
  <2>1. q.group = p.group /\ p.queue # <<>> /\ q.active = Head(p.queue) /\ q.queue = Tail(p.queue)
    BY <1>5 DEF Picks
  <2>2. AllowedInv(q)
    <3>1. Len(p.queue) \in Nat /\ 1 \in 1 .. Len(p.queue) /\ Head(p.queue) = p.queue[1]
      BY <1>0, <2>1
    <3>2. ASSUME NEW k \in 1 .. Len(q.queue) PROVE k + 1 \in 1 .. Len(p.queue) /\ q.queue[k] = p.queue[k + 1]
      BY <1>0, <2>1, <3>2
    <3> QED  BY <1>0, <1>1, <2>1, <3>1, <3>2 DEF AllowedInv, CountInv
  <2>3. q.failures = Cardinality({t \in Tests : Fails(q, t)})
    <3>1. p.failures = Cardinality({t \in Tests : Fails(p, t)})
      BY DEF CountInv
    <3>2. \A v \in SerialUnits(d) : Over(q.group[v]) <=> Over(p.group[v])
      BY <2>1
    <3> QED  BY <1>0, <1>1, <3>1, <3>2, SameFails
  <2>4. ASSUME NEW v, Replays(q, v) PROVE FALSE
    <3>1. Replays(p, v) /\ v \in SerialUnits(d)
      BY <1>0, <2>1, <2>4 DEF Replays
    <3> QED  BY <1>1, <1>5, <3>1 DEF SerialUnits
  <2> QED  BY <2>2, <2>3, <2>4 DEF CountInv
<1> QED  BY <1>4, <1>5

(* A new result says nothing of the other tests.                           *)
LEMMA OtherSpent ==
  ASSUME NEW d, NEW s \in Seq(Result), NEW r \in Result, NEW more, more = Append(s, r), NEW t \in Tests, t # r.test
  PROVE  Spent(d, more, t) <=> Spent(d, s, t)
<1>1. /\ Len(s) \in Nat /\ Len(more) = Len(s) + 1
      /\ more[Len(s) + 1] = r /\ \A i \in 1 .. Len(s) : more[i] = s[i] /\ i \in 1 .. Len(more) /\ s[i] \in Result
      /\ \A i \in 1 .. Len(more) : i = Len(s) + 1 \/ i \in 1 .. Len(s)
  OBVIOUS
<1> QED  BY <1>1 DEF Spent

(* The new result of a test: what an ordinary one has come to.             *)
LEMMA NewSpent ==
  ASSUME NEW d, d.retries \in [Tests -> Nat], NEW s \in Seq(Result), NEW r \in Result, NEW more, more = Append(s, r),
         Newer(s, r), r.retry <= d.retries[r.test]
  PROVE  /\ ~Spent(d, s, r.test)
         /\ Spent(d, more, r.test) <=> ~r.expected /\ r.outcome # "interrupted" /\ ~(r.retry < d.retries[r.test])
<1>1. /\ Len(s) \in Nat /\ Len(more) = Len(s) + 1
      /\ more[Len(s) + 1] = r /\ \A i \in 1 .. Len(s) : more[i] = s[i] /\ i \in 1 .. Len(more) /\ s[i] \in Result
      /\ \A i \in 1 .. Len(more) : i = Len(s) + 1 \/ i \in 1 .. Len(s)
      /\ Len(s) + 1 \in 1 .. Len(more)
  OBVIOUS
<1>2. r.test \in Tests /\ r.retry \in Nat /\ d.retries[r.test] \in Nat
  BY DEF Result
<1>4. ~Spent(d, s, r.test)
  <2>1. ASSUME NEW i \in 1 .. Len(s), s[i].test = r.test PROVE s[i].retry # d.retries[r.test]
    <3>1. s[i].retry < r.retry /\ s[i].retry \in Nat
      BY <1>1, <2>1 DEF Newer, Result
    <3> QED  BY <1>2, <3>1
  <2> QED  BY <2>1 DEF Spent
<1>5. Spent(d, more, r.test) <=> ~r.expected /\ r.outcome # "interrupted" /\ r.retry = d.retries[r.test]
  BY <1>1, <1>4 DEF Spent
<1> QED  BY <1>2, <1>4, <1>5

(* Classification of a test that has no new result.                        *)
LEMMA SameClass ==
  ASSUME NEW p, NEW q, p.results \in Seq(Result), NEW r \in Result, q.results = Append(p.results, r),
         NEW t, t # r.test
  PROVE  ClassifiedFailed(q, t) <=> ClassifiedFailed(p, t)
<1> DEFINE s == p.results
<1>1. Range(q.results) = Range(s) \cup {r}
  <2>1. /\ DOMAIN s = 1 .. Len(s) /\ DOMAIN q.results = 1 .. Len(s) + 1 /\ Len(s) \in Nat
        /\ q.results[Len(s) + 1] = r /\ \A i \in 1 .. Len(s) : q.results[i] = s[i]
    OBVIOUS
  <2>2. ASSUME NEW x \in Range(q.results) PROVE x \in Range(s) \cup {r}
    <3>1. PICK i \in 1 .. Len(s) + 1 : x = q.results[i]
      BY <2>1, <2>2 DEF Range
    <3>2. i \in 1 .. Len(s) \/ i = Len(s) + 1
      BY <2>1
    <3> QED  BY <2>1, <3>1, <3>2 DEF Range
  <2>3. ASSUME NEW x \in Range(s) PROVE x \in Range(q.results)
    <3>1. PICK i \in 1 .. Len(s) : x = s[i]
      BY <2>1, <2>3 DEF Range
    <3>2. i \in 1 .. Len(s) + 1
      BY <2>1
    <3> QED  BY <2>1, <3>1, <3>2 DEF Range
  <2>4. r \in Range(q.results)
    <3>1. Len(s) + 1 \in 1 .. Len(s) + 1
      BY <2>1
    <3> QED  BY <2>1, <3>1 DEF Range
  <2> QED  BY <2>2, <2>3, <2>4
<1>2. {x \in Range(q.results) : x.test = t} = {x \in Range(p.results) : x.test = t}
  BY <1>1
<1> QED  BY <1>2 DEF ClassifiedFailed

(* Finish: a failure is counted for an ordinary test after its last retry. *)
LEMMA FinishCounted ==
  ASSUME NEW d, d.retries \in [Tests -> Nat], NEW p, PlanInv(d, p), CountInv(p), \A v : ~Replays(p, v),
         p.active # NoAttempt, NEW w, NEW outcome, NEW infrastructure, NEW q,
         Finishes(d, p, q, w, outcome, infrastructure), Counts(d, p, q, outcome, infrastructure),
         EndsTurn(d, p, q, outcome, infrastructure)
  PROVE  CountInv(q) /\ \A v : ~Replays(q, v)
<1> DEFINE r == ResultOf(p, w, outcome, infrastructure)
           t == p.active.test
           u == Unit(d, t)
<1>0. /\ p.decl = d /\ p.results \in Seq(Result) /\ p.failures \in Nat /\ t \in Tests /\ p.active \in Attempts
      /\ p.queue \in Seq(Attempts) /\ Len(p.queue) \in Nat
  BY PlanFields
<1>1. /\ q.decl = d /\ q.active = NoAttempt /\ q.results = Append(p.results, r) /\ r \in Result
      /\ q.queue \in {p.queue, <<>>}
      /\ q.again # NoAttempt => ~IsSerial(d, u) /\ Retried(p, outcome, infrastructure)
      /\ ~IsSerial(d, u) /\ Retried(p, outcome, infrastructure) => q.again = Attempt(t, p.active.retry + 1)
  BY DEF Finishes, Counts
<1>2. r.test = t /\ r.retry = p.active.retry /\ r.outcome = outcome /\ r.expected = Expected(p, outcome, infrastructure)
  BY DEF ResultOf
<1>3. p.active.retry \in Nat /\ d.retries[t] \in Nat /\ (IsSerial(d, u) \/ p.active.retry <= d.retries[t])
  BY <1>0 DEF CountInv, AllowedInv, Allowed, Attempts
<1>4. \A v \in SerialUnits(d) : (Over(q.group[v]) <=> Over(p.group[v])) /\ (q.group[v].state = "awaiting" => p.group[v].state = "awaiting")
  BY DEF EndsTurn
<1>5. IsSerial(d, u) => u \in SerialUnits(d) /\ p.group[u].state = "active" /\ ~Over(p.group[u])
  BY <1>0, UnitOfTest DEF PlanInv, ActiveInv, Over
<1> HIDE DEF r
<1>6. ASSUME NEW i \in 1 .. Len(q.results) PROVE q.results[i] = r \/ \E j \in 1 .. Len(p.results) : q.results[i] = p.results[j]
  <2>1. Len(p.results) \in Nat /\ (i = Len(p.results) + 1 \/ i \in 1 .. Len(p.results))
    BY <1>0, <1>1
  <2> QED  BY <1>0, <1>1, <2>1
<1>7. AllowedInv(q)
  <2>1. ASSUME q.again # NoAttempt PROVE Allowed(d, q.again)
    <3>1. q.again = Attempt(t, p.active.retry + 1) /\ p.active.retry < d.retries[t]
      BY <1>0, <1>1, <2>1 DEF Retried
    <3>2. q.again.test = t /\ q.again.retry = p.active.retry + 1
      BY <3>1 DEF Attempt
    <3> QED  BY <1>3, <3>1, <3>2 DEF Allowed
  <2>2. Allowed(d, r)
    BY <1>2, <1>3 DEF Allowed
  <2>3. \A k \in 1 .. Len(q.queue) : Allowed(d, q.queue[k])
    <3>1. \A k \in 1 .. Len(p.queue) : Allowed(d, p.queue[k])
      BY <1>0 DEF CountInv, AllowedInv
    <3>2. CASE q.queue = <<>>
      BY <3>2
    <3>3. CASE q.queue = p.queue
      BY <3>1, <3>3
    <3> QED  BY <1>1, <3>2, <3>3
  <2>4. \A i \in 1 .. Len(q.results) : Allowed(d, q.results[i])
    BY <1>0, <1>6, <2>2 DEF CountInv, AllowedInv
  <2> QED  BY <1>1, <2>1, <2>3, <2>4 DEF AllowedInv
<1>8. ASSUME NEW v, Replays(q, v) PROVE FALSE
  <2>1. v \in SerialUnits(d) /\ p.group[v].state = "awaiting"
    BY <1>1, <1>4, <1>8 DEF Replays
  <2>2. PICK i \in 1 .. Len(q.results) : Unit(d, q.results[i].test) = v
    BY <1>1, <1>8 DEF Replays
  <2>3. v # u
    BY <1>5, <2>1 DEF SerialUnits
  <2>4. PICK j \in 1 .. Len(p.results) : q.results[i] = p.results[j]
    BY <1>2, <1>6, <2>2, <2>3
  <2>5. Replays(p, v)
    BY <1>0, <2>1, <2>2, <2>4 DEF Replays
  <2> QED  BY <2>5
<1> DEFINE F == {x \in Tests : Fails(p, x)}
           G == {x \in Tests : Fails(q, x)}
           cause == ~IsSerial(d, u) /\ ~r.expected /\ r.outcome # "interrupted" /\ ~(r.retry < d.retries[t])
<1>9. ASSUME NEW x \in Tests, x # t PROVE Fails(q, x) <=> Fails(p, x)
  <2>1. ClassifiedFailed(q, x) <=> ClassifiedFailed(p, x)
    BY <1>0, <1>1, <1>2, <1>9, SameClass
  <2>2. ~IsSerial(d, Unit(d, x)) => (Spent(d, q.results, x) <=> Spent(d, p.results, x))
    BY <1>0, <1>1, <1>2, <1>9, OtherSpent
  <2>3. IsSerial(d, Unit(d, x)) => Unit(d, x) \in SerialUnits(d)
    BY UnitOfTest
  <2> QED  BY <1>0, <1>1, <1>4, <2>1, <2>2, <2>3 DEF Fails
<1>10. t \notin F /\ (t \in G <=> cause)
  <2>1. CASE IsSerial(d, u)
    BY <1>0, <1>1, <1>4, <1>5, <2>1 DEF Fails
  <2>2. CASE ~IsSerial(d, u)
    <3>1. Newer(p.results, r) /\ r.retry <= d.retries[r.test]
      BY <1>2, <1>3, <2>2 DEF PlanInv, ActiveInv, Newer
    <3>2. ~Spent(d, p.results, t) /\ (Spent(d, q.results, t) <=> ~r.expected /\ r.outcome # "interrupted" /\ ~(r.retry < d.retries[t]))
      BY <1>0, <1>1, <1>2, <3>1, NewSpent
    <3> QED  BY <1>0, <1>1, <2>2, <3>2 DEF Fails
  <2> QED  BY <2>1, <2>2
<1>11. p.failures = Cardinality(F) /\ IsFiniteSet(F)
  <2>1. F \subseteq Tests
    OBVIOUS
  <2> QED  BY <2>1, TestNumbers, FS_Subset DEF CountInv
<1>12. q.failures = IF cause THEN p.failures + 1 ELSE p.failures
  BY <1>0, <1>2 DEF Counts, Retried
<1>13. G = IF cause THEN F \cup {t} ELSE F
  BY <1>0, <1>9, <1>10
<1> HIDE DEF F, G, cause
<1>14. q.failures = Cardinality(G)
  BY <1>10, <1>11, <1>12, <1>13, FS_AddElement
<1> QED  BY <1>7, <1>8, <1>14 DEF CountInv, G

(* ExcludeQueued: a group that is over because all its members are         *)
(* excluded has no results, so that nothing is left uncounted.             *)
LEMMA ExcludeCounted ==
  ASSUME NEW d, NEW p, PlanInv(d, p), CountInv(p), \A v : ~Replays(p, v), p.active = NoAttempt,
         NEW ids \in SUBSET Tests, NEW q, q = ExcludeQueued(p, ids), Excludes(d, p, q, ids), LosesTests(d, p, q, ids)
  PROVE  CountInv(q) /\ \A v : ~Replays(q, v)
<1>0. /\ p \in PlanOf(d) /\ p.decl = d /\ p.queue \in Seq(Attempts) /\ p.results \in Seq(Result)
      /\ Len(p.queue) \in Nat /\ DOMAIN p.queue = 1 .. Len(p.queue) /\ DOMAIN p.results = 1 .. Len(p.results)
  BY PlanFields
<1>1. q.active = NoAttempt /\ q.results = p.results /\ q.failures = p.failures /\ q.again \in {p.again, NoAttempt} /\ q.decl = d
  BY PlanFields DEF Excludes, LosesTests
<1>2. ASSUME NEW v \in SerialUnits(d)
      PROVE  /\ Over(p.group[v]) => Over(q.group[v])
             /\ Over(q.group[v]) => Over(p.group[v]) \/ p.group[v].state = "awaiting"
             /\ q.group[v].state = "awaiting" => p.group[v].state = "awaiting"
  <2>1. MembersGo(d, v, p.group[v], q.group[v], ids)
    BY DEF LosesTests
  <2> QED  BY <2>1 DEF MembersGo
<1>3. ASSUME NEW k \in 1 .. Len(q.queue) PROVE \E j \in 1 .. Len(p.queue) : q.queue[k] = p.queue[j]
  <2> DEFINE places == {i \in DOMAIN p.queue : p.queue[i].test \notin ids}
  <2>1. places \in SUBSET (1 .. Len(p.queue)) /\ q.queue = Kept(p.queue, places)
    BY <1>0 DEF ExcludeQueued, PlanOf
  <2> HIDE DEF places
  <2>2. PICK from : KeptFrom(p.queue, places, q.queue, from)
    BY <1>0, <2>1, KeptPlaces
  <2> QED  BY <1>3, <2>1, <2>2 DEF KeptFrom
<1>4. AllowedInv(q)
  BY <1>0, <1>1, <1>3 DEF CountInv, AllowedInv
<1>5. ASSUME NEW v, Replays(q, v) PROVE FALSE
  BY <1>0, <1>1, <1>2, <1>5 DEF Replays
<1>6. ASSUME NEW t \in Tests PROVE Fails(q, t) <=> Fails(p, t)
  <2> DEFINE u == Unit(d, t)
  <2>1. ClassifiedFailed(q, t) <=> ClassifiedFailed(p, t)
    BY <1>1 DEF ClassifiedFailed
  <2>2. CASE ~IsSerial(d, u)
    BY <1>0, <1>1, <2>2 DEF Fails
  <2>3. CASE IsSerial(d, u)
    <3>1. u \in SerialUnits(d)
      BY <2>3, UnitOfTest
    <3>2. ASSUME ClassifiedFailed(p, t) PROVE \E i \in 1 .. Len(p.results) : Unit(d, p.results[i].test) = u
      <4>1. PICK r \in Range(p.results) : r.test = t
        BY <3>2 DEF ClassifiedFailed
      <4> QED  BY <1>0, <4>1 DEF Range
    <3>3. ClassifiedFailed(p, t) => p.group[u].state # "awaiting"
      BY <1>0, <3>1, <3>2 DEF Replays
    <3> QED  BY <1>0, <1>1, <1>2, <2>1, <2>3, <3>1, <3>3 DEF Fails
  <2> QED  BY <2>2, <2>3
<1>7. {t \in Tests : Fails(q, t)} = {t \in Tests : Fails(p, t)}
  BY <1>6
<1>8. q.failures = Cardinality({t \in Tests : Fails(q, t)})
  BY <1>1, <1>7 DEF CountInv
<1> QED  BY <1>4, <1>5, <1>8 DEF CountInv

(* The retry waits no more.                                                *)
LEMMA RetryCounted ==
  ASSUME NEW d, NEW p, PlanInv(d, p), CountInv(p), \A v : ~Replays(p, v), p.retiring # 0,
         NEW q, q = WorkerExited(p)
  PROVE  CountInv(q) /\ \A v : ~Replays(q, v)
<1>0. /\ p \in PlanOf(d) /\ p.decl = d /\ p.queue \in Seq(Attempts) /\ Len(p.queue) \in Nat
      /\ p.again # NoAttempt => p.again \in Attempts
  BY PlanFields
<1>1. q.results = p.results /\ q.active = p.active /\ q.again = NoAttempt
      /\ IF p.again = NoAttempt THEN q.queue = p.queue ELSE q.queue = <<p.again>> \o p.queue
  <2>1. Leaves(d, p, q)
    BY WorkerExitedKeeps
  <2> QED  BY <2>1 DEF Leaves
<1>2. q.decl = d /\ q.group = p.group /\ q.failures = p.failures
  BY <1>0 DEF WorkerExited, PlanOf
<1>3. \A k \in 1 .. Len(q.queue) : Allowed(d, q.queue[k])
  <2>1. CASE p.again = NoAttempt
    BY <1>0, <1>1, <2>1 DEF CountInv, AllowedInv
  <2>2. CASE p.again # NoAttempt
    <3>1. q.queue = <<p.again>> \o p.queue /\ p.again \in Attempts
      BY <1>0, <1>1, <2>2
    <3>2. Len(q.queue) = Len(p.queue) + 1 /\ \A k \in 1 .. Len(q.queue) : q.queue[k] = IF k = 1 THEN p.again ELSE p.queue[k - 1]
      BY <1>0, <3>1, PushFrontElements
    <3>3. \A k \in 1 .. Len(q.queue) : k = 1 \/ k - 1 \in 1 .. Len(p.queue)
      BY <1>0, <3>2
    <3>4. Allowed(d, p.again) /\ \A k \in 1 .. Len(p.queue) : Allowed(d, p.queue[k])
      BY <1>0, <2>2 DEF CountInv, AllowedInv
    <3> QED  BY <3>2, <3>3, <3>4
  <2> QED  BY <2>1, <2>2
<1>4. AllowedInv(q)
  BY <1>0, <1>1, <1>2, <1>3 DEF CountInv, AllowedInv
<1>5. q.failures = Cardinality({t \in Tests : Fails(q, t)})
  <2>1. p.failures = Cardinality({t \in Tests : Fails(p, t)}) /\ \A v \in SerialUnits(d) : Over(q.group[v]) <=> Over(p.group[v])
    BY <1>2 DEF CountInv
  <2> QED  BY <1>0, <1>1, <1>2, <2>1, SameFails, SMTT(40), ZenonT(60)
<1>6. \A v : ~Replays(q, v)
  BY <1>0, <1>1, <1>2 DEF Replays
<1> QED  BY <1>4, <1>5, <1>6 DEF CountInv

(* A wave ends: if it was the last, the group's failures are counted.      *)
LEMMA WaveCounted ==
  ASSUME NEW d, NEW p, PlanInv(d, p), CountInv(p), \A v : ~Replays(p, v), p.active = NoAttempt, p.retiring = 0,
         NeedsWorkerRetirement(p), NEW q, q = WorkerExited(p)
  PROVE  CountInv(q) /\ \A v : Replays(q, v) => v = Current(q)
<1> DEFINE u == Current(p)
           h == Retired(d, u, p.group[u])
           failed == {t \in Members(d, u) : ClassifiedFailed(p, t)}
<1>0. /\ p \in PlanOf(d) /\ p.decl = d /\ p.group \in [SerialUnits(d) -> Group] /\ p.failures \in Nat
  BY PlanFields
<1>1. /\ q.active = p.active /\ q.results = p.results /\ q.again = NoAttempt /\ PlanInv(d, q)
  <2>1. Leaves(d, p, q)
    BY WorkerExitedKeeps
  <2> QED  BY <2>1 DEF Leaves
<1>2. u \in SerialUnits(d) /\ p.group[u].state = "retiring" /\ p.group[u] \in Group /\ Remaining(p) # {}
  BY <1>0, CurrentFacts DEF NeedsWorkerRetirement, SerialUnits
<1>3. /\ q.decl = d /\ q.retiring = 0 /\ q.queue = p.queue /\ q.group = [p.group EXCEPT ![u] = h]
      /\ q.failures = IF Over(h) THEN p.failures + Cardinality(failed) ELSE p.failures
  <2>1. q = Account([p EXCEPT !.group[u] = Retired(d, u, @)], u)
    BY <1>0 DEF WorkerExited
  <2> DEFINE r == [p EXCEPT !.group[u] = Retired(d, u, @)]
  <2>2. /\ r.decl = d /\ r.retiring = 0 /\ r.queue = p.queue /\ r.group = [p.group EXCEPT ![u] = h]
        /\ r.failures = p.failures /\ r.results = p.results
    BY <1>0 DEF PlanOf
  <2>3. DOMAIN r = DOMAIN p /\ DOMAIN p = {"decl", "queue", "active", "again", "retiring", "amended", "group", "failures", "stop", "finalized", "results"}
    BY <1>0 DEF PlanOf
  <2>4. r.group[u] = h
    BY <1>0, <1>2, <2>2
  <2>5. q = Account(r, u)
    BY <2>1
  <2> HIDE DEF r, h, u
  <2>6. \A t : ClassifiedFailed(r, t) <=> ClassifiedFailed(p, t)
    BY <2>2 DEF ClassifiedFailed
  <2>7. {t \in Members(r.decl, u) : ClassifiedFailed(r, t)} = failed
    BY <2>2, <2>6
  <2> HIDE DEF failed
  <2>8. CASE ~Over(h)
    BY <2>2, <2>4, <2>5, <2>8 DEF Account
  <2>9. CASE Over(h)
    <3>1. q = [r EXCEPT !.failures = @ + Cardinality(failed)]
      BY <2>4, <2>5, <2>7, <2>9 DEF Account
    <3> QED  BY <2>2, <2>3, <2>9, <3>1
  <2> QED  BY <2>8, <2>9
<1>4. WaveEnds(p.group[u], h)
  BY <1>2, RetiredEnds
<1> HIDE DEF h
<1>5. ASSUME NEW v \in SerialUnits(d) PROVE q.group[v] = IF v = u THEN h ELSE p.group[v]
  BY <1>0, <1>3
<1>6. AllowedInv(q)
  BY <1>0, <1>1, <1>3 DEF CountInv, AllowedInv
<1>7. ASSUME NEW v, Replays(q, v) PROVE v = u /\ v \in SerialUnits(d) /\ h.state = "awaiting"
  <2>1. v \in SerialUnits(d) /\ q.group[v].state = "awaiting" /\ \E i \in 1 .. Len(p.results) : Unit(d, p.results[i].test) = v
    BY <1>1, <1>3, <1>7 DEF Replays
  <2>2. v = u
    BY <1>0, <1>5, <2>1 DEF Replays
  <2> QED  BY <1>5, <2>1, <2>2
<1>8. h.state = "awaiting" => u = Current(q)
  <2> SUFFICES ASSUME h.state = "awaiting" PROVE u = Current(q)
    OBVIOUS
  <2>1. ASSUME NEW v \in Units(d), UnitDone(p, v), v # u PROVE UnitDone(q, v)
    <3>1. CASE IsSerial(d, v)
      <4>1. v \in SerialUnits(d)
        BY <3>1 DEF SerialUnits
      <4> QED  BY <1>0, <1>3, <1>5, <2>1, <3>1, <4>1 DEF UnitDone
    <3>2. CASE ~IsSerial(d, v)
      BY <1>0, <1>1, <1>3, <2>1, <3>2 DEF UnitDone
    <3> QED  BY <3>1, <3>2
  <2>2. u \in Units(d) /\ ~UnitDone(q, u)
    BY <1>2, <1>3, <1>5 DEF UnitDone, Over, SerialUnits
  <2>3. Remaining(q) # {}
    BY <1>3, <2>2 DEF Remaining
  <2> DEFINE c == Current(q)
  <2>4. c \in Units(d) /\ ~UnitDone(q, c) /\ \A v \in Units(d) : v < c => UnitDone(q, v)
    BY <1>3, <2>3, CurrentFacts
  <2>5. \A v \in Units(d) : v < u => UnitDone(p, v)
    BY <1>0, <1>2, CurrentFacts
  <2>6. c \in Nat /\ u \in Nat
    BY <2>2, <2>4, MemberFacts
  <2> HIDE DEF u, c
  <2>7. ~(c < u) /\ ~(u < c)
    BY <2>1, <2>2, <2>4, <2>5, <2>6
  <2> QED  BY <2>6, <2>7 DEF c
<1> DEFINE F == {t \in Tests : Fails(p, t)}
           G == {t \in Tests : Fails(q, t)}
<1>9. ASSUME NEW t \in Tests
      PROVE  Fails(q, t) <=> Fails(p, t) \/ (Over(h) /\ t \in failed)
  <2>1. ClassifiedFailed(q, t) <=> ClassifiedFailed(p, t)
    BY <1>1 DEF ClassifiedFailed
  <2>2. t \in Members(d, u) <=> Unit(d, t) = u
    BY DEF Members
  <2>3. ~Over(p.group[u]) /\ IsSerial(d, u)
    BY <1>2 DEF Over, SerialUnits
  <2>4. IsSerial(d, Unit(d, t)) => Unit(d, t) \in SerialUnits(d)
    BY UnitOfTest
  <2>5. CASE ~IsSerial(d, Unit(d, t))
    BY <1>0, <1>1, <1>3, <2>2, <2>3, <2>5 DEF Fails
  <2>6. CASE IsSerial(d, Unit(d, t))
    <3>1. Fails(q, t) <=> Over(q.group[Unit(d, t)]) /\ ClassifiedFailed(p, t)
      BY <1>3, <2>1, <2>6 DEF Fails
    <3>2. Fails(p, t) <=> Over(p.group[Unit(d, t)]) /\ ClassifiedFailed(p, t)
      BY <1>0, <2>6 DEF Fails
    <3>3. q.group[Unit(d, t)] = IF Unit(d, t) = u THEN h ELSE p.group[Unit(d, t)]
      BY <1>5, <2>4, <2>6
    <3> QED  BY <2>2, <2>3, <3>1, <3>2, <3>3
  <2> QED  BY <2>5, <2>6
<1>10. failed \subseteq Tests /\ F \cap failed = {}
  <2>1. ~Over(p.group[u]) /\ IsSerial(d, u)
    BY <1>2 DEF Over, SerialUnits
  <2> QED  BY <1>0, <2>1 DEF Members, Fails
<1>11. p.failures = Cardinality(F) /\ IsFiniteSet(F) /\ IsFiniteSet(failed)
  <2>1. F \subseteq Tests /\ IsFiniteSet(Tests)
    BY TestNumbers
  <2> QED  BY <1>10, <2>1, FS_Subset DEF CountInv
<1>12. G = IF Over(h) THEN F \cup failed ELSE F
  BY <1>9, <1>10
<1> HIDE DEF F, G, failed
<1>13. q.failures = Cardinality(G)
  <2>1. CASE ~Over(h)
    BY <1>3, <1>11, <1>12, <2>1
  <2>2. CASE Over(h)
    <3>1. Cardinality(F \cup failed) = Cardinality(F) + Cardinality(failed) - Cardinality(F \cap failed)
      BY <1>11, FS_Union
    <3>2. Cardinality(F \cap failed) = 0 /\ Cardinality(F) \in Nat /\ Cardinality(failed) \in Nat
      BY <1>10, <1>11, FS_EmptySet, FS_CardinalityType
    <3> QED  BY <1>3, <1>11, <1>12, <2>2, <3>1, <3>2
  <2> QED  BY <2>1, <2>2
<1> QED  BY <1>6, <1>7, <1>8, <1>13 DEF CountInv, G

(* A wave with members to come is stopped.                                 *)
LEMMA StopCounted ==
  ASSUME NEW d, NEW p, PlanInv(d, p), CountInv(p), \A v : ~Replays(p, v),
         NEW u \in SerialUnits(d), p.group[u].state = "ready", NEW q, q = GroupStopped(p, u)
  PROVE  CountInv(q) /\ \A v : ~Replays(q, v)
<1> DEFINE h == StopGroup(p.group[u])
<1>0. /\ p \in PlanOf(d) /\ p.decl = d /\ p.group \in [SerialUnits(d) -> Group] /\ p.group[u] \in Group
  BY PlanFields
<1>1. q.active = p.active /\ q.again = p.again /\ q.queue = p.queue /\ q.results = p.results
  <2>1. Stops(d, p, q)
    BY StopCurrentKeeps
  <2> QED  BY <2>1 DEF Stops
<1>2. q.decl = d /\ q.failures = p.failures /\ q.group = [p.group EXCEPT ![u] = h]
  BY <1>0 DEF GroupStopped, PlanOf
<1>3. h.state = "retiring"
  BY <1>0 DEF StopGroup, Group
<1> HIDE DEF h
<1>4. ASSUME NEW v \in SerialUnits(d) PROVE q.group[v] = IF v = u THEN h ELSE p.group[v]
  BY <1>0, <1>2
<1>5. \A v \in SerialUnits(d) : (Over(q.group[v]) <=> Over(p.group[v])) /\ (q.group[v].state = "awaiting" => p.group[v].state = "awaiting")
  BY <1>3, <1>4 DEF Over
<1>6. AllowedInv(q)
  BY <1>0, <1>1, <1>2 DEF CountInv, AllowedInv
<1>7. q.failures = Cardinality({t \in Tests : Fails(q, t)})
  <2>1. p.failures = Cardinality({t \in Tests : Fails(p, t)})
    BY DEF CountInv
  <2> QED  BY <1>0, <1>1, <1>2, <1>5, <2>1, SameFails
<1>8. \A v : ~Replays(q, v)
  BY <1>0, <1>1, <1>2, <1>5 DEF Replays
<1> QED  BY <1>6, <1>7, <1>8 DEF CountInv

(* WorkerExited.                                                           *)
LEMMA WorkerExitedCounted ==
  ASSUME NEW d, NEW p, PlanInv(d, p), CountInv(p), \A v : ~Replays(p, v), p.active = NoAttempt, NEW q, q = WorkerExited(p)
  PROVE  CountInv(q) /\ \A v : Replays(q, v) => v = Current(q)
<1>1. CASE p.retiring # 0
  BY <1>1, RetryCounted
<1>2. CASE p.retiring = 0 /\ NeedsWorkerRetirement(p)
  BY <1>2, WaveCounted
<1>3. CASE p.retiring = 0 /\ ~NeedsWorkerRetirement(p)
  <2>1. q = p
    BY <1>3 DEF WorkerExited
  <2> QED  BY <2>1
<1> QED  BY <1>1, <1>2, <1>3

(* The worker goes: one WorkerExited, perhaps of a wave that is stopped.   *)
LEMMA ExitOnce ==
  ASSUME NEW d, NEW p, PlanInv(d, p), TurnInv(p), p.active = NoAttempt, NEW w \in Nat,
         \A v \in SerialUnits(d) : Started(p.group[v]) => p.group[v].worker = w,
         NEW r, r = ActualWorkerExited(p, w),
         NEW q, q = IF NeedsWorkerRetirement(r) THEN WorkerExited(r) ELSE r
  PROVE  \/ q = WorkerExited(p)
         \/ \E u \in SerialUnits(d) : p.group[u].state = "ready" /\ q = WorkerExited(GroupStopped(p, u))
<1>0. p.decl = d /\ p.group \in [SerialUnits(d) -> Group]
  BY PlanFields
<1>1. ASSUME NEW b, PlanInv(d, b), TurnInv(b), b.active = NoAttempt, r = WorkerExited(b),
             \A v \in SerialUnits(d) : b.group[v].state # "ready"
      PROVE  q = r
  <2>1. LeavesTurn(d, b, r)
    BY <1>1, WorkerExitedTurn
  <2>2. AtRest(d, r) /\ PlanInv(d, r) /\ r.active = NoAttempt
    BY <1>1, <2>1 DEF LeavesTurn, AtRest, ExitsTo
  <2> QED  BY <2>2, RestComes
<1>2. CASE ~\E v \in SerialUnits(d) : p.group[v].state = "ready"
  <2>1. r = p \/ r = WorkerExited(p)
    <3>1. Remaining(p) # {} /\ IsSerial(d, Current(p)) => p.group[Current(p)].state # "ready"
      BY <1>0, <1>2, CurrentFacts DEF SerialUnits
    <3> QED  BY <1>0, <3>1 DEF ActualWorkerExited
  <2>2. CASE r = p
    <3>1. ~NeedsWorkerRetirement(p) => WorkerExited(p) = p
      BY DEF WorkerExited, NeedsWorkerRetirement
    <3> QED  BY <2>2, <3>1
  <2>3. CASE r = WorkerExited(p)
    <3>1. q = r
      BY <1>1, <1>2, <2>3
    <3> QED  BY <2>3, <3>1
  <2> QED  BY <2>1, <2>2, <2>3
<1>3. CASE \E v \in SerialUnits(d) : p.group[v].state = "ready"
  <2>1. PICK u \in SerialUnits(d) : p.group[u].state = "ready"
    BY <1>3
  <2>2. Remaining(p) # {} /\ Current(p) = u /\ IsSerial(d, u) /\ p.group[u].worker = w
    BY <2>1, StartedIsCurrent DEF SerialUnits, Started
  <2>3. ~Legacy(d)
    <3>1. u \in Tests
      BY MemberFacts DEF SerialUnits
    <3> QED  BY <2>2, <3>1 DEF IsSerial, Legacy
  <2> DEFINE b == GroupStopped(p, u)
  <2>4. r = WorkerExited(b)
    BY <1>0, <2>1, <2>2, <2>3 DEF ActualWorkerExited, GroupStopped
  <2>5. ExitsTo(d, p, b) /\ \A v \in SerialUnits(d) : b.group[v].state # "ready"
    <3>1. b = GroupStopped(p, u)
      OBVIOUS
    <3> HIDE DEF b
    <3> QED  BY <2>1, <3>1, StoppedTurn
  <2>6. q = r
    <3> HIDE DEF b
    <3>1. PlanInv(d, b) /\ TurnInv(b) /\ b.active = NoAttempt
      BY <2>5 DEF ExitsTo
    <3> QED  BY <1>1, <2>4, <2>5, <3>1
  <2> QED  BY <2>1, <2>4, <2>6
<1> QED  BY <1>2, <1>3

(* The worker goes: a group that is over is counted, and only the current  *)
(* one awaits another wave.                                                *)
LEMMA ExitCounted ==
  ASSUME NEW d, NEW p, PlanInv(d, p), TurnInv(p), CountInv(p), \A v : ~Replays(p, v), p.active = NoAttempt, NEW w \in Nat,
         \A v \in SerialUnits(d) : Started(p.group[v]) => p.group[v].worker = w,
         NEW r, r = ActualWorkerExited(p, w),
         NEW q, q = IF NeedsWorkerRetirement(r) THEN WorkerExited(r) ELSE r
  PROVE  CountInv(q) /\ \A v : Replays(q, v) => v = Current(q)
<1>1. CASE q = WorkerExited(p)
  BY <1>1, WorkerExitedCounted
<1>2. ASSUME NEW u \in SerialUnits(d), p.group[u].state = "ready", q = WorkerExited(GroupStopped(p, u))
      PROVE  CountInv(q) /\ \A v : Replays(q, v) => v = Current(q)
  <2> DEFINE b == GroupStopped(p, u)
  <2>1. b = GroupStopped(p, u) /\ q = WorkerExited(b)
    BY <1>2
  <2> HIDE DEF b
  <2>2. PlanInv(d, b) /\ b.active = NoAttempt
    BY <1>2, <2>1, StoppedTurn DEF ExitsTo
  <2>3. CountInv(b) /\ \A v : ~Replays(b, v)
    BY <1>2, <2>1, StopCounted
  <2> QED  BY <2>1, <2>2, <2>3, WorkerExitedCounted
<1> QED  BY <1>1, <1>2, ExitOnce

(* What is counted does not depend on the rest of the plan.                *)
LEMMA SameCount ==
  ASSUME NEW p, NEW q, q.decl = p.decl, q.queue = p.queue, q.active = p.active, q.again = p.again,
         q.group = p.group, q.failures = p.failures, q.results = p.results, CountInv(p)
  PROVE  CountInv(q) /\ \A v : Replays(q, v) <=> Replays(p, v)
<1>1. p.failures = Cardinality({t \in Tests : Fails(p, t)})
  BY DEF CountInv
<1>2. q.failures = Cardinality({t \in Tests : Fails(q, t)})
  BY <1>1, SameFails
<1>3. AllowedInv(q)
  BY DEF CountInv, AllowedInv
<1> QED  BY <1>2, <1>3 DEF CountInv, Replays

-----------------------------------------------------------------------------
(* THE RUN.                                                                *)

-----------------------------------------------------------------------------
(* The suite plan.                                                         *)

RouteType == [test : Tests, ancestors : Seq(Suites), finish : Int]
SuitePlanWith(o) ==
  [routes : Seq(RouteType), index : Nat, active : Seq(Suites), pending : {o}, skip : Suites \cup {0},
   skipped : SUBSET Tests, closing : BOOLEAN, retire : BOOLEAN, exits : Int]

(* What is to come. *)
Later(s) == {s.routes[j].test : j \in s.index + 1 .. Len(s.routes)}

SuiteInv(s) ==
  /\ s \in SuitePlanWith(s.pending) /\ s.index \in 1 .. Len(s.routes) + 1
  /\ \A i, j \in 1 .. Len(s.routes) : i # j => s.routes[i].test # s.routes[j].test
  /\ s.closing => s.index <= Len(s.routes) \/ s.retire
  /\ s.pending.kind \in {"Test", "SkippedTest"} => s.index <= Len(s.routes)
  /\ \A j \in s.index .. Len(s.routes) : s.routes[j].test \notin s.skipped
  /\ s.skip = 0 => s.skipped = {}

(* The declarations' fields.                                               *)
LEMMA DeclFacts ==
  ASSUME NEW d \in Decls
  PROVE  /\ d.ancestors \in [Tests -> Seq(Suites)] /\ d.retries \in [Tests -> Nat] /\ d.expected \subseteq Tests
         /\ d.limit \in Nat
BY NestedRunAssumption

(* The routes of a fresh suite plan: the selected tests, in their order.   *)
RoutesOf(d, selected, routes) ==
  /\ routes \in Seq(RouteType)
  /\ \A k \in 1 .. Len(routes) : routes[k].test \in selected /\ routes[k] = Route(d, selected, routes[k].test)
  /\ \A k, l \in 1 .. Len(routes) : k < l => routes[k].test < routes[l].test
  /\ \A t \in selected : \E k \in 1 .. Len(routes) : routes[k].test = t

(* NativeSuiteTree::Plan routes every selected test once.                  *)
LEMMA FreshRoutes ==
  ASSUME NEW d \in Decls, NEW selected \in SUBSET Tests
  PROVE  RoutesOf(d, selected, Routes(d, selected))
<1> DEFINE all == [t \in DOMAIN d.ancestors |-> t]
           order == Kept(all, selected)
           routes == [i \in DOMAIN order |-> Route(d, selected, order[i])]
<1>0. Cardinality(Tests) \in Nat /\ Tests = 1 .. Cardinality(Tests) /\ DOMAIN d.ancestors = Tests
  BY DeclFacts, RetryPlanAssumption, FS_CardinalityType
<1>1. all \in Seq(Tests) /\ Len(all) = Cardinality(Tests)
  BY <1>0
<1>2. order \in Seq(Tests) /\ \E from : KeptFrom(all, selected, order, from)
  <2>1. selected \in SUBSET (1 .. Len(all)) /\ order = Kept(all, selected)
    BY <1>0, <1>1
  <2> HIDE DEF all, order, routes
  <2> QED  BY <1>1, <2>1, KeptPlaces
<1> HIDE DEF order
<1>3. PICK from : KeptFrom(all, selected, order, from)
  BY <1>2
<1>3a. /\ from \in [1 .. Len(order) -> selected]
       /\ \A k \in 1 .. Len(order) : order[k] = all[from[k]]
       /\ \A k, l \in 1 .. Len(order) : k < l => from[k] < from[l]
       /\ \A i \in selected : \E k \in 1 .. Len(order) : from[k] = i
  BY <1>3 DEF KeptFrom
<1>4. ASSUME NEW k \in 1 .. Len(order)
      PROVE  order[k] \in selected /\ order[k] \in Tests /\ order[k] \in Nat /\ order[k] = from[k]
  BY <1>0, <1>3a, TestNumbers
<1>5. ASSUME NEW t \in Tests PROVE Route(d, selected, t) \in RouteType /\ Route(d, selected, t).test = t
  <2> DEFINE finished == {i \in DOMAIN d.ancestors[t] :
                            \A later \in selected : later > t => d.ancestors[t][i] \notin Range(d.ancestors[later])}
  <2>1. d.ancestors[t] \in Seq(Suites)
    BY DeclFacts
  <2>2. DOMAIN d.ancestors[t] = 1 .. Len(d.ancestors[t]) /\ Len(d.ancestors[t]) \in Nat
    BY <2>1
  <2>3. Cardinality(finished) \in Nat
    <3>1. IsFiniteSet(1 .. Len(d.ancestors[t])) /\ finished \subseteq 1 .. Len(d.ancestors[t])
      BY <2>2, FS_Interval
    <3> QED  BY <3>1, FS_Subset, FS_CardinalityType
  <2>4. Route(d, selected, t) = [test |-> t, ancestors |-> d.ancestors[t], finish |-> Cardinality(finished)]
    BY DEF Route
  <2> HIDE DEF finished
  <2> QED  BY <2>1, <2>3, <2>4 DEF RouteType
<1>6. /\ routes \in Seq(RouteType) /\ Len(routes) = Len(order) /\ Len(order) \in Nat
      /\ \A k \in 1 .. Len(order) : routes[k].test = order[k] /\ routes[k] = Route(d, selected, order[k])
  <2>1. DOMAIN order = 1 .. Len(order) /\ Len(order) \in Nat
    BY <1>2
  <2>2. routes \in [1 .. Len(order) -> RouteType]
    BY <1>4, <1>5, <2>1
  <2>3. \A k \in 1 .. Len(order) : routes[k].test = order[k] /\ routes[k] = Route(d, selected, order[k])
    BY <1>4, <1>5, <2>1
  <2> HIDE DEF routes
  <2> QED  BY <2>1, <2>2, <2>3
<1>7. routes = Routes(d, selected)
  BY DEF Routes, order
<1> HIDE DEF routes, all
<1>8. \A k \in 1 .. Len(routes) : routes[k].test \in selected /\ routes[k] = Route(d, selected, routes[k].test)
  BY <1>4, <1>6
<1>9. ASSUME NEW k \in 1 .. Len(routes), NEW l \in 1 .. Len(routes), k < l PROVE routes[k].test < routes[l].test
  <2>1. routes[k].test = from[k] /\ routes[l].test = from[l] /\ from[k] < from[l]
    BY <1>3a, <1>4, <1>6, <1>9
  <2> QED  BY <2>1
<1>10. ASSUME NEW t \in selected PROVE \E k \in 1 .. Len(routes) : routes[k].test = t
  <2>1. PICK k \in 1 .. Len(order) : from[k] = t
    BY <1>3a
  <2> QED  BY <1>4, <1>6, <2>1
<1> QED  BY <1>6, <1>7, <1>8, <1>9, <1>10 DEF RoutesOf

(* A fresh suite plan routes every selected test once.                     *)
LEMMA FreshSuites ==
  ASSUME NEW d \in Decls, NEW selected \in SUBSET Tests, NEW s, s = InitSuitePlan(d, selected)
  PROVE  /\ SuiteInv(s) /\ Later(s) \subseteq selected /\ s.skipped = {} /\ s.skip = 0 /\ s.pending = NoOp
         /\ s.index = 1 /\ ~s.closing /\ ~s.retire
<1> DEFINE routes == Routes(d, selected)
<1>1. RoutesOf(d, selected, routes)
  BY FreshRoutes
<1>2. s = [routes |-> routes, index |-> 1, active |-> <<>>, pending |-> NoOp, skip |-> 0, skipped |-> {},
           closing |-> FALSE, retire |-> FALSE, exits |-> 0]
  BY DEF InitSuitePlan
<1> HIDE DEF routes
<1>3. /\ routes \in Seq(RouteType) /\ Len(routes) \in Nat
      /\ \A k \in 1 .. Len(routes) : routes[k].test \in selected /\ routes[k].test \in Nat
      /\ \A k, l \in 1 .. Len(routes) : k < l => routes[k].test < routes[l].test
  BY <1>1, TestNumbers DEF RoutesOf
<1>4. /\ s.routes = routes /\ s.index = 1 /\ s.pending = NoOp /\ s.skip = 0 /\ s.skipped = {}
      /\ s.closing = FALSE /\ s.retire = FALSE
  BY <1>2
<1>5. s \in SuitePlanWith(s.pending)
  <2>1. <<>> \in Seq(Suites) /\ 1 \in Nat /\ 0 \in Int /\ {} \in SUBSET Tests
    BY EmptySeq
  <2> QED  BY <1>2, <1>3, <1>4, <2>1 DEF SuitePlanWith
<1>6. ASSUME NEW i \in 1 .. Len(routes), NEW j \in 1 .. Len(routes), i # j PROVE routes[i].test # routes[j].test
  <2>1. i \in Nat /\ j \in Nat /\ (i < j \/ j < i)
    BY <1>3, <1>6
  <2> QED  BY <1>3, <2>1
<1>7. Later(s) \subseteq selected
  <2>1. ASSUME NEW j \in 2 .. Len(routes) PROVE routes[j].test \in selected
    BY <1>3
  <2> QED  BY <1>4, <2>1 DEF Later
<1>8. NoOp.kind = "none"
  BY DEF NoOp, Op
<1>9. SuiteInv(s)
  BY <1>3, <1>4, <1>5, <1>6, <1>8 DEF SuiteInv
<1> QED  BY <1>4, <1>7, <1>9

(* The fields of a suite plan.                                             *)
LEMMA SuiteFields ==
  ASSUME NEW s, SuiteInv(s)
  PROVE  /\ s \in SuitePlanWith(s.pending) /\ s.routes \in Seq(RouteType) /\ Len(s.routes) \in Nat
         /\ s.index \in Nat /\ s.index >= 1 /\ s.active \in Seq(Suites) /\ Len(s.active) \in Nat
         /\ s.skip \in Suites \cup {0} /\ s.skipped \subseteq Tests /\ s.closing \in BOOLEAN /\ s.retire \in BOOLEAN
         /\ s.exits \in Int
         /\ \A j \in 1 .. Len(s.routes) : s.routes[j] \in RouteType /\ s.routes[j].test \in Tests
                                          /\ s.routes[j].ancestors \in Seq(Suites) /\ s.routes[j].finish \in Int
<1>1. s \in SuitePlanWith(s.pending)
  BY DEF SuiteInv
<1>2. /\ s.routes \in Seq(RouteType)
      /\ s.index \in Nat /\ s.active \in Seq(Suites)
      /\ s.skip \in Suites \cup {0} /\ s.skipped \subseteq Tests /\ s.closing \in BOOLEAN /\ s.retire \in BOOLEAN
      /\ s.exits \in Int
  BY <1>1 DEF SuitePlanWith
<1>3. \A j \in 1 .. Len(s.routes) : s.routes[j] \in RouteType
  BY <1>2
<1>4. \A r \in RouteType : r.test \in Tests /\ r.ancestors \in Seq(Suites) /\ r.finish \in Int
  BY DEF RouteType
<1>5. s.index >= 1
  BY <1>2 DEF SuiteInv
<1> QED  BY <1>1, <1>2, <1>3, <1>4, <1>5

(* What the suite plan admits next.                                        *)
Offered(s, o) ==
  /\ o.kind \in {"BeforeAll", "Test", "SkippedTest"} =>
       /\ s.index \in 1 .. Len(s.routes) /\ o.test = s.routes[s.index].test /\ ~s.retire /\ s.pending = NoOp
  /\ o.kind = "BeforeAll" => o.suite \in Suites /\ s.skip = 0 /\ o.skipped = {}
  /\ o.kind = "Test" => s.skip = 0
  /\ o.kind \in {"Test", "SkippedTest"} => o.skipped = s.skipped
  /\ o.kind = "AfterAll" => s.closing

(* Next offers an operation of the current route, or an exit.              *)
LEMMA NextOpFacts ==
  ASSUME NEW s, SuiteInv(s), NEW o, o = NextOp(s)
  PROVE  Offered(s, o)
<1> DEFINE route == s.routes[s.index]
           rest == IF ~IsPrefix(s.active, route.ancestors) THEN Throws
                   ELSE IF s.skip # 0 THEN [Op("SkippedTest", Last(s.active), route.test) EXCEPT !.skipped = s.skipped]
                   ELSE IF Len(s.active) < Len(route.ancestors)
                        THEN Op("BeforeAll", route.ancestors[Len(s.active) + 1], route.test)
                   ELSE Op("Test", Last(route.ancestors), route.test)
<1>0. /\ s.index \in Nat /\ s.index >= 1 /\ Len(s.routes) \in Nat /\ Len(s.active) \in Nat
      /\ s.skip = 0 => s.skipped = {}
  BY SuiteFields DEF SuiteInv
<1>1. CASE s.pending # NoOp \/ (s.closing /\ s.active = <<>>)
  <2>1. o.kind = "throws"
    BY <1>1 DEF NextOp, Throws, Op
  <2> QED  BY <2>1 DEF Offered
<1>2. CASE s.pending = NoOp /\ s.closing /\ s.active # <<>>
  <2>1. o.kind = "AfterAll"
    BY <1>2 DEF NextOp, Op
  <2> QED  BY <1>2, <2>1 DEF Offered
<1>3. CASE s.pending = NoOp /\ ~s.closing /\ (s.retire \/ s.index > Len(s.routes))
  <2>1. o.kind = "none"
    BY <1>3 DEF NextOp, NoOp, Op
  <2> QED  BY <2>1 DEF Offered
<1>4. CASE s.pending = NoOp /\ ~s.closing /\ ~s.retire /\ ~(s.index > Len(s.routes))
  <2>1. o = rest
    BY <1>4 DEF NextOp
  <2>2. s.index \in 1 .. Len(s.routes)
    BY <1>0, <1>4
  <2> HIDE DEF route
  <2>3. CASE o = Throws
    <3>1. o.kind = "throws"
      BY <2>3, SMTT(40), ZenonT(60) DEF Throws, Op
    <3> QED  BY <3>1 DEF Offered
  <2>4. CASE s.skip # 0 /\ o = [Op("SkippedTest", Last(s.active), route.test) EXCEPT !.skipped = s.skipped]
    <3>1. o.kind = "SkippedTest" /\ o.test = route.test /\ o.skipped = s.skipped
      BY <2>4, SMTT(40) DEF Op
    <3> QED  BY <1>4, <2>2, <2>4, <3>1 DEF Offered, route
  <2>5. CASE /\ s.skip = 0 /\ Len(s.active) < Len(route.ancestors)
             /\ o = Op("BeforeAll", route.ancestors[Len(s.active) + 1], route.test)
    <3>1. o.kind = "BeforeAll" /\ o.test = route.test /\ o.skipped = {} /\ o.suite = route.ancestors[Len(s.active) + 1]
      BY <2>5 DEF Op
    <3>2. route.ancestors \in Seq(Suites)
      BY <2>2, SuiteFields DEF route
    <3>3. Len(s.active) + 1 \in 1 .. Len(route.ancestors)
      BY <1>0, <2>5, <3>2
    <3>4. o.suite \in Suites
      BY <3>1, <3>2, <3>3, SMTT(40)
    <3> QED  BY <1>4, <2>2, <2>5, <3>1, <3>4 DEF Offered, route
  <2>6. CASE s.skip = 0 /\ o = Op("Test", Last(route.ancestors), route.test)
    <3>1. o.kind = "Test" /\ o.test = route.test /\ o.skipped = {}
      BY <2>6 DEF Op
    <3> QED  BY <1>0, <1>4, <2>2, <2>6, <3>1 DEF Offered, route
  <2> QED  BY <2>1, <2>3, <2>4, <2>5, <2>6
<1> QED  BY <1>1, <1>2, <1>3, <1>4

(* The test of the current route does not come again.                      *)
LEMMA CurrentRoute ==
  ASSUME NEW s, SuiteInv(s), s.index \in 1 .. Len(s.routes)
  PROVE  s.routes[s.index].test \notin Later(s) \cup s.skipped
<1>1. s.index \in Nat /\ Len(s.routes) \in Nat
  BY SuiteFields
<1>2. \A j \in s.index + 1 .. Len(s.routes) : j \in 1 .. Len(s.routes) /\ j # s.index
  BY <1>1
<1>3. s.routes[s.index].test \notin Later(s)
  BY <1>2 DEF Later, SuiteInv
<1>4. s.index \in s.index .. Len(s.routes)
  BY <1>1
<1> QED  BY <1>3, <1>4 DEF SuiteInv

(* What an operation leaves alone, and that no test comes back.            *)
Goes(s, c) ==
  /\ SuiteInv(c) /\ Later(c) \subseteq Later(s) /\ (s.retire => c.retire)

(* A suite plan with another pending operation, or further on.             *)
LEMMA SameRoutes ==
  ASSUME NEW s, SuiteInv(s), NEW c, c \in SuitePlanWith(c.pending), c.routes = s.routes,
         c.index = s.index \/ (c.index = s.index + 1 /\ s.index <= Len(s.routes)),
         s.retire => c.retire,
         c.closing => c.index <= Len(s.routes) \/ c.retire,
         c.pending.kind \in {"Test", "SkippedTest"} => c.index <= Len(s.routes),
         (c.skipped = s.skipped /\ c.skip = s.skip) \/ c.skipped = {}
  PROVE  Goes(s, c)
<1>0. s.index \in Nat /\ Len(s.routes) \in Nat /\ s.index \in 1 .. Len(s.routes) + 1
  BY SuiteFields DEF SuiteInv
<1>1. c.index \in 1 .. Len(s.routes) + 1 /\ s.index <= c.index /\ c.index \in Nat
  BY <1>0
<1>2. Later(c) \subseteq Later(s)
  <2>1. c.index + 1 .. Len(s.routes) \subseteq s.index + 1 .. Len(s.routes)
    BY <1>0, <1>1
  <2> QED  BY <2>1 DEF Later
<1>3. ASSUME NEW j \in c.index .. Len(s.routes) PROVE s.routes[j].test \notin c.skipped
  <2>1. j \in s.index .. Len(s.routes)
    BY <1>0, <1>1
  <2> QED  BY <2>1 DEF SuiteInv
<1>4. c.skip = 0 => c.skipped = {}
  BY DEF SuiteInv
<1>5. SuiteInv(c)
  BY <1>1, <1>3, <1>4 DEF SuiteInv
<1> QED  BY <1>2, <1>5 DEF Goes

(* Next admits an operation.                                               *)
Admits(s, c) ==
  /\ Goes(s, c) /\ c.pending = NextOp(s) /\ c.routes = s.routes /\ c.index = s.index
  /\ c.skip = s.skip /\ c.skipped = s.skipped /\ c.retire = s.retire /\ c.closing = s.closing

(* An admitted operation changes nothing of the route.                     *)
LEMMA AdmittedKeeps ==
  ASSUME NEW s, SuiteInv(s), NEW c, c = Admitted(s)
  PROVE  Admits(s, c)
<1> DEFINE o == NextOp(s)
           active == IF o.kind = "BeforeAll" THEN Append(s.active, o.suite) ELSE s.active
<1>0. Offered(s, o)
  <2> HIDE DEF o
  <2> QED  BY NextOpFacts DEF o
<1>1. c = [s EXCEPT !.pending = o, !.active = active]
  BY SuiteFields DEF Admitted, SuitePlanWith
<1> HIDE DEF o
<1>2. s \in SuitePlanWith(s.pending) /\ s.active \in Seq(Suites)
  BY SuiteFields
<1>3. active \in Seq(Suites)
  BY <1>0, <1>2 DEF Offered
<1> HIDE DEF active
<1>4. c \in SuitePlanWith(o)
  BY <1>1, <1>2, <1>3 DEF SuitePlanWith
<1>5. /\ c.pending = o /\ c.routes = s.routes /\ c.index = s.index /\ c.skip = s.skip /\ c.skipped = s.skipped
      /\ c.retire = s.retire /\ c.closing = s.closing
  BY <1>1, <1>2 DEF SuitePlanWith
<1>6. /\ c.closing => c.index <= Len(s.routes) \/ c.retire
      /\ o.kind \in {"Test", "SkippedTest"} => c.index <= Len(s.routes)
  BY <1>0, <1>5, SuiteFields DEF Offered, SuiteInv
<1>7. Goes(s, c)
  BY <1>4, <1>5, <1>6, SameRoutes
<1> QED  BY <1>5, <1>7 DEF Admits, o

(* Complete ends the pending operation.                                    *)
Completes(s, c, ok) ==
  /\ Goes(s, c) /\ c.pending = NoOp /\ c.routes = s.routes /\ (c.retire <=> s.retire \/ ~ok)
  /\ s.pending.kind = "BeforeAll" => c.index = s.index /\ c.skip = s.skip /\ c.skipped = s.skipped
  /\ s.pending.kind \in {"Test", "SkippedTest"} => c.skipped = {}
  /\ s.pending.kind = "AfterAll" => c.skipped = s.skipped

(* Complete keeps the invariant of the suite plan.                         *)
LEMMA CompleteKeeps ==
  ASSUME NEW s, SuiteInv(s), s.pending.kind \in {"BeforeAll", "Test", "SkippedTest", "AfterAll"},
         s.pending.kind = "AfterAll" => s.closing, NEW ok \in BOOLEAN, NEW c, c = Complete(s, ok)
  PROVE  Completes(s, c, ok)
<1> DEFINE t == [s EXCEPT !.pending = NoOp, !.retire = @ \/ ~ok]
<1>0. /\ s \in SuitePlanWith(s.pending) /\ s.active \in Seq(Suites) /\ Len(s.active) \in Nat /\ s.retire \in BOOLEAN
      /\ s.index \in Nat /\ Len(s.routes) \in Nat /\ s.index >= 1 /\ s.exits \in Int
  BY SuiteFields
<1>1. /\ t \in SuitePlanWith(NoOp) /\ t.pending = NoOp /\ t.routes = s.routes /\ t.index = s.index /\ t.active = s.active
      /\ t.skip = s.skip /\ t.skipped = s.skipped /\ (t.retire <=> s.retire \/ ~ok) /\ t.closing = s.closing
      /\ t.exits = s.exits
  <2>1. t \in SuitePlanWith(NoOp)
    BY <1>0 DEF SuitePlanWith
  <2> QED  BY <1>0, <2>1 DEF SuitePlanWith
<1>2. NoOp.kind = "none"
  BY DEF NoOp, Op
<1>3. ASSUME NEW v \in SuitePlanWith(NoOp), v.routes = s.routes, v.index = s.index, v.retire = t.retire,
             (v.skipped = s.skipped /\ v.skip = s.skip) \/ v.skipped = {}, s.index <= Len(s.routes) \/ t.retire,
             NEW exits \in Int, c = Closing(v, exits)
      PROVE  Goes(s, c) /\ c.pending = NoOp /\ c.routes = s.routes /\ c.retire = t.retire /\ c.skipped = v.skipped
  <2> DEFINE index == IF exits = 0 /\ ~v.retire THEN v.index + 1 ELSE v.index
  <2>1. c = [v EXCEPT !.exits = exits, !.closing = exits # 0, !.index = index]
    BY <1>3 DEF Closing, SuitePlanWith
  <2>2. index \in Nat /\ (index = s.index \/ (index = s.index + 1 /\ exits = 0 /\ s.index <= Len(s.routes)))
    BY <1>0, <1>3
  <2> HIDE DEF index
  <2>3. c \in SuitePlanWith(NoOp)
    BY <1>3, <2>1, <2>2 DEF SuitePlanWith
  <2>4. /\ c.pending = NoOp /\ c.routes = v.routes /\ c.index = index /\ c.skip = v.skip /\ c.skipped = v.skipped
        /\ c.retire = v.retire /\ c.closing = (exits # 0)
    BY <1>3, <2>1 DEF SuitePlanWith
  <2>5. /\ c.closing => c.index <= Len(s.routes) \/ c.retire
        /\ s.retire => c.retire
    BY <1>1, <1>3, <2>2, <2>4
  <2>6. c \in SuitePlanWith(c.pending) /\ c.pending.kind \notin {"Test", "SkippedTest"}
    BY <1>2, <2>3, <2>4
  <2>7. Goes(s, c)
    BY <1>3, <2>2, <2>4, <2>5, <2>6, SameRoutes
  <2> QED  BY <1>3, <2>4, <2>7
<1>4. CASE s.pending.kind = "BeforeAll"
  <2>1. c = IF ok THEN t ELSE [t EXCEPT !.closing = TRUE, !.exits = Len(t.active)]
    BY <1>4 DEF Complete
  <2> HIDE DEF t
  <2>2. /\ c \in SuitePlanWith(NoOp) /\ c.pending = NoOp /\ c.routes = s.routes /\ c.index = s.index /\ c.skip = s.skip
        /\ c.skipped = s.skipped /\ c.retire = t.retire /\ (c.closing => s.closing \/ c.retire)
    <3>1. CASE ok
      BY <1>1, <2>1, <3>1
    <3>2. CASE ~ok
      <4>1. c = [t EXCEPT !.closing = TRUE, !.exits = Len(t.active)] /\ Len(t.active) \in Int
        BY <1>0, <1>1, <2>1, <3>2
      <4>2. c \in SuitePlanWith(NoOp)
        BY <1>1, <4>1 DEF SuitePlanWith
      <4>3. /\ c.pending = t.pending /\ c.routes = t.routes /\ c.index = t.index /\ c.skip = t.skip
            /\ c.skipped = t.skipped /\ c.retire = t.retire
        BY <1>1, <4>1 DEF SuitePlanWith
      <4> QED  BY <1>1, <3>2, <4>2, <4>3
    <3> QED  BY <3>1, <3>2
  <2>3. c.closing => c.index <= Len(s.routes) \/ c.retire
    BY <1>1, <2>2 DEF SuiteInv
  <2>4. c \in SuitePlanWith(c.pending) /\ c.pending.kind \notin {"Test", "SkippedTest"}
    BY <1>2, <2>2
  <2>5. Goes(s, c)
    BY <1>1, <2>2, <2>3, <2>4, SameRoutes
  <2> QED  BY <1>1, <1>4, <2>2, <2>5 DEF Completes
<1>5. CASE s.pending.kind \in {"Test", "SkippedTest"}
  <2> DEFINE v == [t EXCEPT !.skip = 0, !.skipped = {}]
             exits == IF t.retire THEN Len(t.active) ELSE t.routes[t.index].finish
  <2>1. c = Closing(v, exits)
    BY <1>5 DEF Complete
  <2> HIDE DEF t
  <2>2. v \in SuitePlanWith(NoOp)
    BY <1>1 DEF SuitePlanWith
  <2>3. v.routes = t.routes /\ v.index = t.index /\ v.retire = t.retire /\ v.skipped = {}
    BY <1>1 DEF SuitePlanWith
  <2>4. s.index \in 1 .. Len(s.routes)
    BY <1>0, <1>5 DEF SuiteInv
  <2>5. exits \in Int
    BY <1>0, <1>1, <2>4, SuiteFields
  <2> HIDE DEF v, exits
  <2>6. Goes(s, c) /\ c.pending = NoOp /\ c.routes = s.routes /\ c.retire = t.retire /\ c.skipped = {}
    BY <1>0, <1>1, <1>3, <2>1, <2>2, <2>3, <2>4, <2>5
  <2> QED  BY <1>1, <1>5, <2>6 DEF Completes
<1>6. CASE s.pending.kind = "AfterAll"
  <2> DEFINE v == [t EXCEPT !.active = Front(@)]
             exits == IF v.retire THEN Len(v.active) ELSE v.exits - 1
  <2>1. c = Closing(v, exits)
    BY <1>6 DEF Complete
  <2> HIDE DEF t
  <2>2. Front(t.active) \in Seq(Suites)
    <3>1. \A i \in 1 .. Len(s.active) - 1 : s.active[i] \in Suites
      BY <1>0
    <3> QED  BY <1>0, <1>1, <3>1, SubSeqProperties DEF Front
  <2>3. v \in SuitePlanWith(NoOp)
    BY <1>1, <2>2 DEF SuitePlanWith
  <2>4. /\ v.routes = t.routes /\ v.index = t.index /\ v.retire = t.retire /\ v.skipped = t.skipped
        /\ v.skip = t.skip /\ v.active = Front(t.active) /\ v.exits = t.exits
    BY <1>1 DEF SuitePlanWith
  <2>5. s.index <= Len(s.routes) \/ t.retire
    BY <1>1, <1>6 DEF SuiteInv
  <2>6. exits \in Int
    BY <1>0, <1>1, <2>2, <2>4
  <2> HIDE DEF v, exits
  <2>7. Goes(s, c) /\ c.pending = NoOp /\ c.routes = s.routes /\ c.retire = t.retire /\ c.skipped = s.skipped
    BY <1>1, <1>3, <2>1, <2>3, <2>4, <2>5, <2>6
  <2> QED  BY <1>1, <1>6, <2>7 DEF Completes
<1> QED  BY <1>4, <1>5, <1>6

(* What Complete leaves of a suite plan.                                   *)
Completed(s, c, ok) ==
  /\ c.routes = s.routes /\ c.pending = NoOp /\ (c.retire <=> s.retire \/ ~ok)
  /\ s.pending.kind = "BeforeAll" =>
       /\ c.index = s.index /\ c.active = s.active /\ c.skip = s.skip /\ c.skipped = s.skipped
       /\ (c.closing <=> s.closing \/ ~ok) /\ (ok => c.exits = s.exits)
  /\ s.pending.kind \in {"Test", "SkippedTest"} =>
       /\ c.active = s.active /\ c.skip = 0 /\ c.skipped = {}
       /\ c.exits = IF c.retire THEN Len(s.active) ELSE s.routes[s.index].finish
  /\ s.pending.kind = "AfterAll" =>
       /\ c.active = Front(s.active) /\ c.skip = s.skip /\ c.skipped = s.skipped
       /\ c.exits = IF c.retire THEN Len(Front(s.active)) ELSE s.exits - 1
  /\ s.pending.kind # "BeforeAll" =>
       /\ c.closing <=> c.exits # 0
       /\ c.index = IF c.exits = 0 /\ ~c.retire THEN s.index + 1 ELSE s.index

(* Complete, field by field.                                               *)
LEMMA CompleteFields ==
  ASSUME NEW s, s \in SuitePlanWith(s.pending), NEW ok \in BOOLEAN, NEW c, c = Complete(s, ok),
         s.pending.kind \in {"BeforeAll", "Test", "SkippedTest", "AfterAll"}
  PROVE  Completed(s, c, ok)
<1> DEFINE t == [s EXCEPT !.pending = NoOp, !.retire = @ \/ ~ok]
<1>0. s.retire \in BOOLEAN /\ s.closing \in BOOLEAN
  BY DEF SuitePlanWith
<1>2. /\ t.pending = NoOp /\ t.routes = s.routes /\ t.index = s.index /\ t.active = s.active
      /\ t.skip = s.skip /\ t.skipped = s.skipped /\ (t.retire <=> s.retire \/ ~ok) /\ t.closing = s.closing
      /\ t.exits = s.exits /\ t \in SuitePlanWith(NoOp) /\ t.retire \in BOOLEAN
  <2>1. t \in SuitePlanWith(NoOp)
    BY <1>0 DEF SuitePlanWith
  <2> QED  BY <1>0, <2>1 DEF SuitePlanWith
<1>4. CASE s.pending.kind = "BeforeAll"
  <2>1. c = IF ok THEN t ELSE [t EXCEPT !.closing = TRUE, !.exits = Len(t.active)]
    BY <1>4 DEF Complete
  <2> HIDE DEF t
  <2>2. CASE ok
    BY <1>0, <1>2, <1>4, <2>1, <2>2 DEF Completed
  <2>3. CASE ~ok
    <3>1. c = [t EXCEPT !.closing = TRUE, !.exits = Len(t.active)]
      BY <2>1, <2>3
    <3>2. /\ c.pending = t.pending /\ c.routes = t.routes /\ c.index = t.index /\ c.skip = t.skip
          /\ c.skipped = t.skipped /\ c.retire = t.retire /\ c.active = t.active /\ c.closing = TRUE
      BY <1>2, <3>1 DEF SuitePlanWith
    <3> QED  BY <1>2, <1>4, <2>3, <3>2 DEF Completed
  <2> QED  BY <2>2, <2>3
<1>5. ASSUME NEW v \in SuitePlanWith(NoOp), NEW exits, c = Closing(v, exits)
      PROVE  /\ c.pending = NoOp /\ c.routes = v.routes /\ c.active = v.active /\ c.retire = v.retire
             /\ c.skip = v.skip /\ c.skipped = v.skipped /\ c.exits = exits /\ c.closing = (exits # 0)
             /\ c.index = IF c.exits = 0 /\ ~c.retire THEN v.index + 1 ELSE v.index
  <2> DEFINE index == IF exits = 0 /\ ~v.retire THEN v.index + 1 ELSE v.index
  <2>1. c = [v EXCEPT !.exits = exits, !.closing = exits # 0, !.index = index]
    BY <1>5 DEF Closing, SuitePlanWith
  <2>2. /\ c.pending = NoOp /\ c.routes = v.routes /\ c.active = v.active /\ c.retire = v.retire
        /\ c.skip = v.skip /\ c.skipped = v.skipped /\ c.exits = exits /\ c.closing = (exits # 0) /\ c.index = index
    BY <2>1 DEF SuitePlanWith
  <2> QED  BY <2>2
<1>6. CASE s.pending.kind \in {"Test", "SkippedTest"}
  <2> DEFINE v == [t EXCEPT !.skip = 0, !.skipped = {}]
             exits == IF t.retire THEN Len(t.active) ELSE t.routes[t.index].finish
  <2>1. c = Closing(v, exits)
    BY <1>6 DEF Complete
  <2> HIDE DEF t
  <2>2. v \in SuitePlanWith(NoOp)
    BY <1>2 DEF SuitePlanWith
  <2>3. v.routes = t.routes /\ v.index = t.index /\ v.retire = t.retire /\ v.skipped = {} /\ v.skip = 0 /\ v.active = t.active
    BY <1>2 DEF SuitePlanWith
  <2> HIDE DEF v
  <2>4. /\ c.pending = NoOp /\ c.routes = v.routes /\ c.active = v.active /\ c.retire = v.retire
        /\ c.skip = v.skip /\ c.skipped = v.skipped /\ c.exits = exits /\ c.closing = (exits # 0)
        /\ c.index = IF c.exits = 0 /\ ~c.retire THEN v.index + 1 ELSE v.index
    <3> HIDE DEF exits
    <3> QED  BY <1>5, <2>1, <2>2
  <2>5. exits = IF c.retire THEN Len(s.active) ELSE s.routes[s.index].finish
    BY <1>2, <2>3, <2>4
  <2> HIDE DEF exits
  <2> QED  BY <1>2, <1>6, <2>3, <2>4, <2>5 DEF Completed
<1>7. CASE s.pending.kind = "AfterAll"
  <2> DEFINE v == [t EXCEPT !.active = Front(@)]
             exits == IF v.retire THEN Len(v.active) ELSE v.exits - 1
  <2>1. c = Closing(v, exits)
    BY <1>7 DEF Complete
  <2> HIDE DEF t
  <2>2. v \in SuitePlanWith(NoOp)
    <3>1. Front(t.active) \in Seq(Suites)
      <4>1. t.active \in Seq(Suites)
        BY <1>2 DEF SuitePlanWith
      <4> QED  BY <4>1, SubSeqProperties DEF Front
    <3> QED  BY <1>2, <3>1 DEF SuitePlanWith
  <2>3. /\ v.routes = t.routes /\ v.index = t.index /\ v.retire = t.retire /\ v.skipped = t.skipped /\ v.skip = t.skip
        /\ v.active = Front(t.active) /\ v.exits = t.exits
    BY <1>2 DEF SuitePlanWith
  <2> HIDE DEF v
  <2>4. /\ c.pending = NoOp /\ c.routes = v.routes /\ c.active = v.active /\ c.retire = v.retire
        /\ c.skip = v.skip /\ c.skipped = v.skipped /\ c.exits = exits /\ c.closing = (exits # 0)
        /\ c.index = IF c.exits = 0 /\ ~c.retire THEN v.index + 1 ELSE v.index
    <3> HIDE DEF exits
    <3> QED  BY <1>5, <2>1, <2>2
  <2>5. exits = IF c.retire THEN Len(Front(s.active)) ELSE s.exits - 1
    BY <1>2, <2>3, <2>4
  <2> HIDE DEF exits
  <2> QED  BY <1>2, <1>7, <2>3, <2>4, <2>5 DEF Completed
<1> QED  BY <1>4, <1>6, <1>7

(* RetireAfterCurrentTest leaves what is to come.                          *)
LEMMA RetireKeeps ==
  ASSUME NEW s, SuiteInv(s), NEW c, c = RetireAfterCurrentTest(s)
  PROVE  Goes(s, c) /\ c.retire /\ c.skipped = s.skipped /\ c.pending = s.pending
<1>0. s \in SuitePlanWith(s.pending) /\ Len(s.active) \in Int
  BY SuiteFields
<1>1. c = [s EXCEPT !.retire = TRUE, !.exits = Len(s.active), !.closing = s.active # <<>>]
  BY DEF RetireAfterCurrentTest
<1>2. c \in SuitePlanWith(s.pending)
  BY <1>0, <1>1 DEF SuitePlanWith
<1>3. /\ c.pending = s.pending /\ c.routes = s.routes /\ c.index = s.index /\ c.skip = s.skip /\ c.skipped = s.skipped
      /\ c.retire = TRUE
  BY <1>0, <1>1 DEF SuitePlanWith
<1>4. c.pending.kind \in {"Test", "SkippedTest"} => c.index <= Len(s.routes)
  BY <1>3 DEF SuiteInv
<1>5. Goes(s, c)
  BY <1>2, <1>3, <1>4, SameRoutes
<1> QED  BY <1>3, <1>5

(* The beforeAll skips its suite: later routes go, and the current test    *)
(* stays where it is.                                                      *)
Skips(s, c) ==
  /\ Goes(s, c) /\ c.pending = NoOp /\ c.index = s.index /\ c.skip = s.pending.suite
  /\ c.skipped \subseteq Later(s) /\ (c.retire <=> s.retire)

(* What SkipBeforeAll makes of the routes: the current test stays in the   *)
(* suites that were entered, and the later routes in the suite go.  from   *)
(* says which place a kept route had.                                      *)
SkipShape(s, c, from) ==
  LET suite == s.pending.suite
      here == s.index + 1 .. Len(c.routes)
      current == c.routes[s.index]
      common == {n \in 0 .. Len(s.active) : IsPrefix(SubSeq(s.active, 1, n), c.routes[s.index + 1].ancestors)}
  IN /\ c \in SuitePlanWith(NoOp) /\ c.index = s.index /\ c.skip = suite
     /\ c.active = s.active /\ c.closing = s.closing /\ (c.retire <=> s.retire)
     /\ Len(c.routes) >= s.index /\ \A k \in 1 .. s.index - 1 : c.routes[k] = s.routes[k]
     /\ current.test = s.pending.test /\ current.ancestors = s.active
     /\ current.finish = Len(s.active) - IF Len(c.routes) = s.index THEN 0 ELSE Max(common)
     /\ from \in [here -> s.index + 1 .. Len(s.routes)]
     /\ \A k \in here : c.routes[k] = s.routes[from[k]]
     /\ \A k, l \in here : k < l => from[k] < from[l]
     /\ \A j \in s.index + 1 .. Len(s.routes) :
          suite \notin Range(s.routes[j].ancestors) <=> \E k \in here : from[k] = j
     /\ c.skipped = {s.routes[j].test : j \in {i \in s.index + 1 .. Len(s.routes) : suite \in Range(s.routes[i].ancestors)}}

(* SkipBeforeAll, route by route.                                          *)
LEMMA SkipRoutes ==
  ASSUME NEW s, SuiteInv(s), s.pending.kind = "BeforeAll", s.pending.suite \in Suites,
         s.index \in 1 .. Len(s.routes), s.pending.test = s.routes[s.index].test,
         NEW c, c = SkipBeforeAll(s)
  PROVE  \E from : SkipShape(s, c, from)
<1> DEFINE suite == s.pending.suite
           before == SubSeq(s.routes, 1, s.index - 1)
           later == SubSeq(s.routes, s.index + 1, Len(s.routes))
           places == {i \in DOMAIN later : suite \notin Range(later[i].ancestors)}
           kept == Kept(later, places)
           common == {n \in 0 .. Len(s.active) : IsPrefix(SubSeq(s.active, 1, n), Head(kept).ancestors)}
           shared == IF kept = <<>> THEN 0 ELSE Max(common)
           current == [test |-> s.pending.test, ancestors |-> s.active, finish |-> Len(s.active) - shared]
           routes == before \o <<current>> \o kept
           gone == {r.test : r \in Range(later) \ Range(kept)}
           e == Complete(s, TRUE)
<1>0. /\ s.routes \in Seq(RouteType) /\ Len(s.routes) \in Nat /\ s.index \in Nat /\ s.index >= 1
      /\ s.active \in Seq(Suites) /\ Len(s.active) \in Nat
      /\ \A j \in 1 .. Len(s.routes) : s.routes[j] \in RouteType /\ s.routes[j].test \in Tests
  BY SuiteFields
<1>0a. s.index \in Nat /\ s.index >= 1 /\ Len(s.routes) \in Nat /\ s.index <= Len(s.routes)
  BY <1>0, SMTT(40)
<1>1. c = [e EXCEPT !.routes = routes, !.skip = suite, !.skipped = gone]
  BY DEF SkipBeforeAll
<1>2. Completed(s, e, TRUE) /\ Completes(s, e, TRUE)
  <2>1. e = Complete(s, TRUE) /\ TRUE \in BOOLEAN /\ s \in SuitePlanWith(s.pending)
    BY SuiteFields
  <2> HIDE DEF e
  <2> QED  BY <2>1, CompleteKeeps, CompleteFields
<1>3. /\ later \in Seq(RouteType) /\ Len(later) = Len(s.routes) - s.index
      /\ \A i \in 1 .. Len(later) : later[i] = s.routes[s.index + i]
  <2>1. \A i \in s.index + 1 .. Len(s.routes) : s.routes[i] \in RouteType
    BY <1>0
  <2>2. s.index + 1 \in Int /\ Len(s.routes) \in Int
    BY <1>0
  <2>3. /\ later \in Seq(RouteType)
        /\ Len(later) = IF s.index + 1 <= Len(s.routes) THEN Len(s.routes) - (s.index + 1) + 1 ELSE 0
        /\ \A i \in 1 .. Len(s.routes) - (s.index + 1) + 1 : later[i] = s.routes[s.index + 1 + i - 1]
    BY <2>1, <2>2, SubSeqProperties, SMTT(30)
  <2> HIDE DEF later
  <2>4. Len(later) = Len(s.routes) - s.index
    BY <1>0, <2>3
  <2>5. ASSUME NEW i \in 1 .. Len(later) PROVE later[i] = s.routes[s.index + i]
    <3>1. i \in Nat /\ i \in 1 .. Len(s.routes) - (s.index + 1) + 1 /\ s.index + 1 + i - 1 = s.index + i
      BY <1>0, <2>4, SMTT(30)
    <3> QED  BY <2>3, <3>1
  <2> QED  BY <2>3, <2>4, <2>5
<1>4. /\ before \in Seq(RouteType) /\ Len(before) = s.index - 1
      /\ \A i \in 1 .. Len(before) : before[i] = s.routes[i]
  <2>1. \A i \in 1 .. s.index - 1 : s.routes[i] \in RouteType
    BY <1>0
  <2>2. /\ before \in Seq(RouteType)
        /\ Len(before) = IF 1 <= s.index - 1 THEN (s.index - 1) - 1 + 1 ELSE 0
        /\ \A i \in 1 .. (s.index - 1) - 1 + 1 : before[i] = s.routes[1 + i - 1]
    BY <1>0, <2>1, SubSeqProperties
  <2> HIDE DEF before
  <2>3. Len(before) = s.index - 1
    BY <1>0, <2>2
  <2>4. ASSUME NEW i \in 1 .. Len(before) PROVE before[i] = s.routes[i]
    <3>1. i \in Nat /\ i \in 1 .. (s.index - 1) - 1 + 1 /\ 1 + i - 1 = i
      BY <1>0, <2>3
    <3> QED  BY <2>2, <3>1
  <2> QED  BY <2>2, <2>3, <2>4
<1> HIDE DEF before, later, e
<1>5. kept \in Seq(RouteType) /\ Len(kept) \in Nat /\ \E old : KeptFrom(later, places, kept, old)
  <2>1. places \in SUBSET (1 .. Len(later)) /\ kept = Kept(later, places)
    BY <1>3
  <2> HIDE DEF places, kept
  <2>2. kept \in Seq(RouteType) /\ \E old : KeptFrom(later, places, kept, old)
    BY ONLY <1>3, <2>1, KeptPlaces
  <2> QED  BY <2>2
<1>6. \A i : i \in places <=> i \in 1 .. Len(later) /\ suite \notin Range(later[i].ancestors)
  BY <1>3
<1> HIDE DEF places, kept
<1>7. PICK old : KeptFrom(later, places, kept, old)
  BY <1>5
<1>7a. /\ \A k \in 1 .. Len(kept) : old[k] \in places /\ kept[k] = later[old[k]]
       /\ \A k, l \in 1 .. Len(kept) : k < l => old[k] < old[l]
       /\ \A i \in places : \E k \in 1 .. Len(kept) : old[k] = i
  BY <1>7 DEF KeptFrom
<1>8. shared \in Int
  <2>1. CASE kept = <<>>
    BY <2>1
  <2>2. CASE kept # <<>>
    <3>1. IsFiniteSet(common) /\ \A n \in common : n \in Nat
      <4>0. common \subseteq 0 .. Len(s.active)
        OBVIOUS
      <4> HIDE DEF common
      <4>1. IsFiniteSet(0 .. Len(s.active))
        BY <1>0, FS_Interval
      <4>2. IsFiniteSet(common)
        BY <4>0, <4>1, FS_Subset
      <4>3. \A n \in common : n \in Nat
        BY <1>0, <4>0
      <4> QED  BY <4>2, <4>3
    <3>2. common # {}
      <4>1. Head(kept).ancestors \in Seq(Suites)
        <5>1. Head(kept) \in RouteType
          BY <1>5, <2>2
        <5> QED  BY <5>1 DEF RouteType
      <4>2. SubSeq(s.active, 1, 0) = <<>> /\ SubSeq(Head(kept).ancestors, 1, 0) = <<>> /\ SubSeq(<<>>, 1, 0) = <<>>
        BY SubSeqEmpty
      <4>3. Len(<<>>) = 0 /\ Len(Head(kept).ancestors) \in Nat
        BY <4>1
      <4>4. IsPrefix(SubSeq(s.active, 1, 0), Head(kept).ancestors)
        BY <4>2, <4>3 DEF IsPrefix
      <4>5. 0 \in 0 .. Len(s.active)
        BY <1>0
      <4> QED  BY <4>4, <4>5
    <3> HIDE DEF common
    <3>3. Max(common) \in Nat
      BY <3>1, <3>2, MaxIsMember
    <3> QED  BY <2>2, <3>3
  <2> QED  BY <2>1, <2>2
<1> HIDE DEF shared
<1>9. current \in RouteType /\ current.test = s.routes[s.index].test
  BY <1>0, <1>8 DEF RouteType
<1> HIDE DEF current
<1>10. /\ routes \in Seq(RouteType) /\ Len(routes) = s.index + Len(kept)
       /\ \A k \in 1 .. Len(routes) :
            routes[k] = IF k < s.index THEN s.routes[k] ELSE IF k = s.index THEN current ELSE kept[k - s.index]
  <2> DEFINE front == before \o <<current>>
  <2>1. <<current>> \in Seq(RouteType) /\ Len(<<current>>) = 1 /\ <<current>>[1] = current
    BY <1>9
  <2>2. /\ front \in Seq(RouteType) /\ Len(front) = Len(before) + 1
        /\ \A k \in 1 .. Len(before) + 1 : front[k] = IF k <= Len(before) THEN before[k] ELSE <<current>>[k - Len(before)]
    <3>1. before \in Seq(RouteType) /\ front = before \o <<current>>
      BY <1>4
    <3> HIDE DEF front
    <3> QED  BY ONLY <2>1, <3>1, ConcatElements
  <2> HIDE DEF front
  <2>3. routes = front \o kept
    BY DEF front
  <2> HIDE DEF routes
  <2>4. /\ routes \in Seq(RouteType) /\ Len(routes) = Len(front) + Len(kept)
        /\ \A k \in 1 .. Len(front) + Len(kept) : routes[k] = IF k <= Len(front) THEN front[k] ELSE kept[k - Len(front)]
    <3>1. kept \in Seq(RouteType)
      BY <1>5
    <3>2. front \in Seq(RouteType)
      BY <2>2
    <3> QED  BY ONLY <2>3, <3>1, <3>2, ConcatElements
  <2>5. Len(front) = s.index
    BY <1>0, <1>4, <2>2
  <2>6. ASSUME NEW k \in 1 .. Len(routes)
        PROVE  routes[k] = IF k < s.index THEN s.routes[k] ELSE IF k = s.index THEN current ELSE kept[k - s.index]
    <3>1. k \in Nat /\ k >= 1 /\ k \in 1 .. Len(front) + Len(kept)
      BY <1>0, <1>5, <2>4, <2>5
    <3>2. CASE k < s.index
      <4>1. k \in 1 .. Len(before) + 1 /\ k <= Len(before) /\ k <= Len(front) /\ k \in 1 .. Len(before)
        BY <1>0, <1>4, <2>5, <3>1, <3>2
      <4> QED  BY <1>4, <2>2, <2>4, <3>1, <3>2, <4>1
    <3>3. CASE k = s.index
      <4>1. k \in 1 .. Len(before) + 1 /\ ~(k <= Len(before)) /\ k <= Len(front) /\ k - Len(before) = 1
        BY <1>0, <1>4, <2>5, <3>1, <3>3, SMTT(40)
      <4> QED  BY <2>1, <2>2, <2>4, <3>1, <3>3, <4>1
    <3>4. CASE k > s.index
      <4>1. ~(k <= Len(front)) /\ ~(k < s.index) /\ k # s.index /\ k - Len(front) = k - s.index
        BY <1>0, <2>5, <3>1, <3>4
      <4> QED  BY <2>4, <3>1, <4>1
    <3> QED  BY <1>0, <3>1, <3>2, <3>3, <3>4
  <2> QED  BY <2>4, <2>5, <2>6
<1> HIDE DEF routes, suite
(* The place that a route had before. *)
<1> DEFINE here == s.index + 1 .. Len(routes)
           from == [k \in here |-> s.index + old[k - s.index]]
<1>11. ASSUME NEW k \in here
       PROVE  /\ k \in Nat /\ k > s.index /\ k - s.index \in 1 .. Len(kept) /\ k \in 1 .. Len(routes)
              /\ old[k - s.index] \in 1 .. Len(later) /\ old[k - s.index] \in Nat
              /\ from[k] = s.index + old[k - s.index] /\ from[k] \in s.index + 1 .. Len(s.routes)
              /\ routes[k] = s.routes[from[k]]
  <2>1. k \in Nat /\ k > s.index /\ k - s.index \in 1 .. Len(kept) /\ k \in 1 .. Len(routes)
    BY <1>0, <1>5, <1>10, SMTT(40), ZenonT(60)
  <2>2. old[k - s.index] \in 1 .. Len(later) /\ kept[k - s.index] = later[old[k - s.index]]
    BY <1>6, <1>7a, <2>1
  <2>3. old[k - s.index] \in Nat /\ old[k - s.index] >= 1 /\ old[k - s.index] <= Len(s.routes) - s.index
    BY <1>0, <1>3, <2>2
  <2>4. from[k] = s.index + old[k - s.index]
    OBVIOUS
  <2> HIDE DEF from
  <2>5. from[k] \in s.index + 1 .. Len(s.routes)
    BY <1>0a, <2>3, <2>4, SMTT(40)
  <2>6. routes[k] = kept[k - s.index]
    <3>1. ~(k < s.index) /\ k # s.index
      BY <1>0, <2>1, SMTT(40), ZenonT(60)
    <3>2. routes[k] = IF k < s.index THEN s.routes[k] ELSE IF k = s.index THEN current ELSE kept[k - s.index]
      BY ONLY <1>10, <2>1
    <3> QED  BY ONLY <3>1, <3>2
  <2> QED  BY <1>3, <2>1, <2>2, <2>3, <2>4, <2>5, <2>6
<1>12. ASSUME NEW k \in here, NEW l \in here, k < l PROVE from[k] < from[l]
  <2>1. old[k - s.index] < old[l - s.index]
    <3>1. k - s.index < l - s.index
      BY <1>0, <1>11, <1>12
    <3> QED  BY <1>7a, <1>11, <3>1
  <2>2. from[k] = s.index + old[k - s.index] /\ from[l] = s.index + old[l - s.index] /\ old[k - s.index] \in Nat /\ old[l - s.index] \in Nat
    BY <1>11
  <2> HIDE DEF from
  <2> QED  BY <1>0a, <2>1, <2>2
<1>13. ASSUME NEW j \in s.index + 1 .. Len(s.routes)
       PROVE  /\ suite \notin Range(s.routes[j].ancestors) <=> \E k \in here : from[k] = j
              /\ j - s.index \in 1 .. Len(later) /\ later[j - s.index] = s.routes[j]
  <2>0. Len(later) = Len(s.routes) - s.index
    BY <1>3
  <2>1. j \in Nat /\ j - s.index \in 1 .. Len(later) /\ s.index + (j - s.index) = j
    BY <1>0a, <2>0
  <2>2. later[j - s.index] = s.routes[j]
    BY <1>3, <2>1
  <2>3. ASSUME suite \notin Range(s.routes[j].ancestors) PROVE \E k \in here : from[k] = j
    <3>1. j - s.index \in places
      BY <1>6, <2>1, <2>2, <2>3
    <3>2. PICK m \in 1 .. Len(kept) : old[m] = j - s.index
      BY <1>7a, <3>1
    <3>3. s.index + m \in here /\ (s.index + m) - s.index = m
      <4>1. Len(routes) = s.index + Len(kept) /\ m \in Nat /\ Len(kept) \in Nat /\ m >= 1 /\ m <= Len(kept)
        BY <1>5, <1>10
      <4> QED  BY <1>0a, <4>1
    <3>4. from[s.index + m] = j
      BY <1>11, <2>1, <3>2, <3>3
    <3> QED  BY <3>3, <3>4
  <2>4. ASSUME NEW k \in here, from[k] = j PROVE suite \notin Range(s.routes[j].ancestors)
    <3>1. old[k - s.index] \in places /\ old[k - s.index] = j - s.index
      <4>1. old[k - s.index] \in places
        BY <1>7a, <1>11
      <4>2. s.index + old[k - s.index] = j /\ old[k - s.index] \in Nat
        BY <1>11, <2>4
      <4> QED  BY <1>0a, <2>1, <4>1, <4>2, SMTT(40), ZenonT(60)
    <3> QED  BY <1>6, <2>2, <3>1
  <2> HIDE DEF from
  <2> QED  BY <2>1, <2>2, <2>3, <2>4
<1>14. gone = {s.routes[j].test : j \in {i \in s.index + 1 .. Len(s.routes) : suite \in Range(s.routes[i].ancestors)}}
  <2> DEFINE G == {i \in s.index + 1 .. Len(s.routes) : suite \in Range(s.routes[i].ancestors)}
  <2>0. DOMAIN later = 1 .. Len(later) /\ DOMAIN kept = 1 .. Len(kept)
    BY <1>3, <1>5
  <2>1. ASSUME NEW r \in Range(later) \ Range(kept) PROVE \E j \in G : r.test = s.routes[j].test
    <3>1. PICK i \in 1 .. Len(later) : r = later[i]
      BY <2>0 DEF Range
    <3>2. s.index + i \in s.index + 1 .. Len(s.routes) /\ r = s.routes[s.index + i]
      BY <1>0, <1>3, <3>1, SMTT(40)
    <3>3. suite \in Range(r.ancestors)
      <4>1. SUFFICES ASSUME suite \notin Range(r.ancestors) PROVE FALSE
        OBVIOUS
      <4>2. PICK k \in 1 .. Len(kept) : old[k] = i
        BY <1>6, <1>7a, <3>1, <4>1
      <4>3. kept[k] = r
        BY <1>7a, <3>1, <4>2
      <4> QED  BY <2>0, <4>3 DEF Range
    <3>4. s.index + i \in G
      BY <3>2, <3>3
    <3> HIDE DEF G
    <3> QED  BY <3>2, <3>4
  <2>2. ASSUME NEW j \in G PROVE \E r \in Range(later) \ Range(kept) : s.routes[j].test = r.test
    <3>1. j \in s.index + 1 .. Len(s.routes) /\ suite \in Range(s.routes[j].ancestors)
      OBVIOUS
    <3>2. s.routes[j] = later[j - s.index] /\ j - s.index \in 1 .. Len(later)
      BY <1>13, <3>1
    <3>3. s.routes[j] \in Range(later)
      BY <2>0, <3>2 DEF Range
    <3>4. s.routes[j] \notin Range(kept)
      <4>1. SUFFICES ASSUME NEW k \in 1 .. Len(kept), s.routes[j] = kept[k] PROVE FALSE
        BY <2>0 DEF Range
      <4>2. suite \notin Range(kept[k].ancestors)
        BY <1>6, <1>7a
      <4> QED  BY <3>1, <4>1, <4>2
    <3> QED  BY <3>3, <3>4
  <2> HIDE DEF G
  <2>3. \A x : x \in gone <=> x \in {s.routes[j].test : j \in G}
    BY <2>1, <2>2
  <2> QED  BY <2>3 DEF G
<1>15. gone \subseteq Tests
  <2>1. \A i \in s.index + 1 .. Len(s.routes) : i \in 1 .. Len(s.routes)
    BY <1>0
  <2> QED  BY <1>0, <1>14, <2>1
<1> HIDE DEF gone, here, from
<1>17. /\ e \in SuitePlanWith(NoOp) /\ e.pending = NoOp /\ e.index = s.index /\ (e.retire <=> s.retire)
       /\ e.active = s.active /\ e.closing = s.closing
  <2>1. SuiteInv(e) /\ e.pending = NoOp /\ e.index = s.index /\ (e.retire <=> s.retire)
        /\ e.active = s.active /\ (e.closing <=> s.closing)
    BY <1>2 DEF Completes, Completed, Goes
  <2>2. e \in SuitePlanWith(e.pending) /\ e.closing \in BOOLEAN /\ s.closing \in BOOLEAN
    BY <2>1, SuiteFields
  <2> QED  BY <2>1, <2>2
<1>18. c \in SuitePlanWith(NoOp)
  BY <1>1, <1>10, <1>15, <1>17 DEF SuitePlanWith, suite
<1>19. /\ c.routes = routes /\ c.index = s.index /\ c.skip = suite /\ c.skipped = gone
       /\ c.retire = e.retire /\ c.active = e.active /\ c.closing = e.closing
  BY <1>1, <1>17 DEF SuitePlanWith
<1>20. s.index \in 1 .. Len(routes) /\ routes[s.index] = current /\ \A k \in 1 .. s.index - 1 : routes[k] = s.routes[k]
  <2>1. Len(routes) = s.index + Len(kept) /\ Len(kept) \in Nat
    BY <1>5, <1>10
  <2>2. s.index \in 1 .. Len(routes) /\ ~(s.index < s.index)
    BY <1>0a, <2>1
  <2>3. \A k \in 1 .. s.index - 1 : k \in 1 .. Len(routes) /\ k < s.index
    BY <1>0a, <2>1
  <2> QED  BY <1>10, <2>2, <2>3
<1>21. current.finish = Len(s.active) - IF Len(routes) = s.index THEN 0
         ELSE Max({n \in 0 .. Len(s.active) : IsPrefix(SubSeq(s.active, 1, n), routes[s.index + 1].ancestors)})
  <2>1. current.finish = Len(s.active) - shared
    BY DEF current
  <2>2. CASE kept = <<>>
    <3>1. shared = 0 /\ Len(routes) = s.index
      BY <1>0, <1>10, <2>2 DEF shared
    <3> QED  BY <2>1, <3>1
  <2>3. CASE kept # <<>>
    <3>1. Len(kept) >= 1 /\ Head(kept) = kept[1]
      BY <1>5, <2>3
    <3>2. s.index + 1 \in 1 .. Len(routes) /\ Len(routes) # s.index
      <4>1. Len(routes) = s.index + Len(kept) /\ Len(kept) \in Nat
        BY <1>5, <1>10
      <4> QED  BY <1>0a, <3>1, <4>1
    <3>3. routes[s.index + 1] = Head(kept)
      <4>1. ~(s.index + 1 < s.index) /\ s.index + 1 # s.index /\ (s.index + 1) - s.index = 1
        BY <1>0a
      <4> QED  BY <1>10, <3>1, <3>2, <4>1
    <3>4. shared = Max({n \in 0 .. Len(s.active) : IsPrefix(SubSeq(s.active, 1, n), routes[s.index + 1].ancestors)})
      BY <2>3, <3>3 DEF shared
    <3> QED  BY <2>1, <3>2, <3>4
  <2> QED  BY <2>2, <2>3
<1>22. from \in [here -> s.index + 1 .. Len(s.routes)]
  BY <1>11 DEF from
<1>23. current.test = s.pending.test /\ current.ancestors = s.active
  BY DEF current
<1>24. c.active = s.active /\ c.closing = s.closing /\ (c.retire <=> s.retire) /\ Len(c.routes) >= s.index
  BY <1>0, <1>17, <1>19, <1>20
<1> HIDE DEF current, shared
<1>25. SkipShape(s, c, from)
  BY <1>11, <1>12, <1>13, <1>14, <1>18, <1>19, <1>20, <1>21, <1>22, <1>23, <1>24 DEF SkipShape, here, suite
<1> QED  BY <1>25

(* The places that the routes had before, the current one and the earlier  *)
(* ones included.                                                          *)
Placed(s, c, place) ==
  \A k \in 1 .. Len(c.routes) :
    /\ k \in Nat /\ place[k] \in 1 .. Len(s.routes) /\ place[k] \in Nat /\ c.routes[k].test = s.routes[place[k]].test
    /\ (k <= s.index => place[k] = k)
    /\ (k > s.index => place[k] > s.index /\ c.routes[k] = s.routes[place[k]]
                       /\ s.pending.suite \notin Range(s.routes[place[k]].ancestors))
    /\ \A l \in 1 .. Len(c.routes) : k < l => place[k] < place[l]

(* The routes that are kept stay in their order.                           *)
LEMMA SkipPlaces ==
  ASSUME NEW s, SuiteInv(s), s.index \in 1 .. Len(s.routes), s.pending.test = s.routes[s.index].test,
         NEW c, NEW from, SkipShape(s, c, from)
  PROVE  \E place : Placed(s, c, place)
<1>2. /\ s.index \in Nat /\ s.index >= 1 /\ Len(s.routes) \in Nat /\ s.index <= Len(s.routes)
  BY SuiteFields
<1> DEFINE here == s.index + 1 .. Len(c.routes)
           place == [k \in 1 .. Len(c.routes) |-> IF k <= s.index THEN k ELSE from[k]]
<1>3. Len(c.routes) \in Nat /\ Len(c.routes) >= s.index
  <2>1. c.routes \in Seq(RouteType) /\ Len(c.routes) >= s.index
    BY DEF SkipShape, SuitePlanWith
  <2> QED  BY <2>1
<1>4. /\ \A k \in 1 .. s.index - 1 : c.routes[k] = s.routes[k]
      /\ c.routes[s.index].test = s.routes[s.index].test
      /\ \A k \in here : /\ from[k] \in s.index + 1 .. Len(s.routes) /\ c.routes[k] = s.routes[from[k]]
                         /\ s.pending.suite \notin Range(s.routes[from[k]].ancestors)
      /\ \A k, l \in here : k < l => from[k] < from[l]
  BY DEF SkipShape
<1>5. ASSUME NEW k \in 1 .. Len(c.routes)
      PROVE  /\ k \in Nat /\ place[k] \in 1 .. Len(s.routes) /\ place[k] \in Nat
             /\ c.routes[k].test = s.routes[place[k]].test
             /\ (k <= s.index => place[k] = k)
             /\ (k > s.index => /\ k \in here /\ place[k] = from[k] /\ place[k] > s.index
                                /\ c.routes[k] = s.routes[place[k]]
                                /\ s.pending.suite \notin Range(s.routes[place[k]].ancestors))
  <2>1. k \in Nat /\ k >= 1
    BY <1>3
  <2>2. CASE k <= s.index
    <3>1. place[k] = k /\ k \in 1 .. Len(s.routes) /\ ~(k > s.index)
      BY <1>2, <2>1, <2>2
    <3>2. c.routes[k].test = s.routes[k].test
      <4>1. k = s.index \/ k \in 1 .. s.index - 1
        BY <1>2, <2>1, <2>2
      <4> QED  BY <1>4, <4>1
    <3> HIDE DEF place
    <3> QED  BY <2>1, <2>2, <3>1, <3>2
  <2>3. CASE k > s.index
    <3>1. ~(k <= s.index) /\ k \in here
      BY <1>2, <1>3, <2>1, <2>3
    <3>2. place[k] = from[k]
      BY <3>1
    <3>3. /\ from[k] \in s.index + 1 .. Len(s.routes) /\ c.routes[k] = s.routes[from[k]]
          /\ s.pending.suite \notin Range(s.routes[from[k]].ancestors)
      BY <1>4, <3>1
    <3>4. from[k] \in Nat /\ from[k] > s.index /\ from[k] \in 1 .. Len(s.routes)
      BY <1>2, <3>3
    <3> HIDE DEF place, here
    <3> QED  BY <2>1, <3>1, <3>2, <3>3, <3>4
  <2> QED  BY <1>2, <2>1, <2>2, <2>3
<1> HIDE DEF place, here
<1>6. ASSUME NEW k \in 1 .. Len(c.routes), NEW l \in 1 .. Len(c.routes), k < l PROVE place[k] < place[l]
  <2>1. CASE l <= s.index
    BY <1>2, <1>5, <1>6, <2>1
  <2>2. CASE k <= s.index /\ l > s.index
    BY <1>2, <1>5, <2>2
  <2>3. CASE k > s.index
    <3>1. l > s.index
      BY <1>2, <1>5, <1>6, <2>3
    <3> QED  BY <1>4, <1>5, <1>6, <2>3, <3>1
  <2> QED  BY <1>2, <1>5, <2>1, <2>2, <2>3
<1>7. Placed(s, c, place)
  BY <1>5, <1>6 DEF Placed
<1> QED  BY <1>7

(* SkipBeforeAll keeps the invariant of the suite plan.                    *)
LEMMA SkipBeforeAllKeeps ==
  ASSUME NEW s, SuiteInv(s), s.pending.kind = "BeforeAll", s.pending.suite \in Suites,
         s.index \in 1 .. Len(s.routes), s.pending.test = s.routes[s.index].test,
         NEW c, c = SkipBeforeAll(s)
  PROVE  Skips(s, c)
<1>1. PICK from : SkipShape(s, c, from)
  BY SkipRoutes
<1>2. /\ s.index \in Nat /\ s.index >= 1 /\ Len(s.routes) \in Nat /\ s.index <= Len(s.routes)
  BY SuiteFields
<1>3. /\ c \in SuitePlanWith(NoOp) /\ c.pending = NoOp /\ c.index = s.index /\ c.skip = s.pending.suite
      /\ (c.retire <=> s.retire) /\ c.routes \in Seq(RouteType) /\ Len(c.routes) \in Nat /\ Len(c.routes) >= s.index
  <2>1. c \in SuitePlanWith(NoOp) /\ c.index = s.index /\ c.skip = s.pending.suite /\ (c.retire <=> s.retire)
        /\ Len(c.routes) >= s.index
    BY <1>1 DEF SkipShape
  <2>2. c.pending = NoOp /\ c.routes \in Seq(RouteType)
    BY <2>1 DEF SuitePlanWith
  <2> QED  BY <2>1, <2>2
<1>4. PICK place : Placed(s, c, place)
  BY <1>1, SkipPlaces
<1>5. \A i, j \in 1 .. Len(s.routes) : i # j => s.routes[i].test # s.routes[j].test
  BY DEF SuiteInv
<1>7. ASSUME NEW k \in 1 .. Len(c.routes), NEW l \in 1 .. Len(c.routes), k # l PROVE c.routes[k].test # c.routes[l].test
  <2>1. place[k] # place[l]
    <3>1. k < l \/ l < k
      BY <1>4, <1>7 DEF Placed
    <3> QED  BY <1>4, <3>1 DEF Placed
  <2>2. /\ place[k] \in 1 .. Len(s.routes) /\ c.routes[k].test = s.routes[place[k]].test
        /\ place[l] \in 1 .. Len(s.routes) /\ c.routes[l].test = s.routes[place[l]].test
    BY <1>4 DEF Placed
  <2> QED  BY <1>5, <2>1, <2>2
<1> DEFINE G == {i \in s.index + 1 .. Len(s.routes) : s.pending.suite \in Range(s.routes[i].ancestors)}
<1>8. c.skipped = {s.routes[j].test : j \in G}
  BY <1>1 DEF SkipShape
<1>9. \A i \in G : /\ i \in s.index + 1 .. Len(s.routes) /\ i \in 1 .. Len(s.routes) /\ i \in Nat /\ i > s.index
                   /\ s.pending.suite \in Range(s.routes[i].ancestors)
  BY <1>2
<1> HIDE DEF G
<1>10. c.skipped \subseteq Later(s) /\ Later(c) \subseteq Later(s)
  <2>1. c.skipped \subseteq Later(s)
    BY <1>8, <1>9 DEF Later
  <2>2. ASSUME NEW k \in s.index + 1 .. Len(c.routes) PROVE c.routes[k].test \in Later(s)
    <3>1. k \in 1 .. Len(c.routes) /\ k > s.index
      BY <1>2, <1>3
    <3>2. place[k] \in 1 .. Len(s.routes) /\ place[k] > s.index /\ c.routes[k].test = s.routes[place[k]].test
      BY <1>4, <3>1 DEF Placed
    <3>3. place[k] \in s.index + 1 .. Len(s.routes)
      BY <1>2, <3>2
    <3> QED  BY <3>2, <3>3 DEF Later
  <2>3. Later(c) \subseteq Later(s)
    <3>1. Later(c) = {c.routes[j].test : j \in s.index + 1 .. Len(c.routes)}
      BY <1>3 DEF Later
    <3> QED  BY <2>2, <3>1
  <2> QED  BY <2>1, <2>3
<1>11. ASSUME NEW k \in s.index .. Len(c.routes) PROVE c.routes[k].test \notin c.skipped
  <2>1. SUFFICES ASSUME NEW i \in G, c.routes[k].test = s.routes[i].test PROVE FALSE
    BY <1>8
  <2>2. k \in 1 .. Len(c.routes) /\ k >= s.index
    BY <1>2, <1>3
  <2>3. /\ place[k] \in 1 .. Len(s.routes) /\ c.routes[k].test = s.routes[place[k]].test
        /\ (k <= s.index => place[k] = k)
        /\ (k > s.index => s.pending.suite \notin Range(s.routes[place[k]].ancestors))
    BY <1>4, <2>2 DEF Placed
  <2>4. place[k] = i
    BY <1>5, <1>9, <2>1, <2>3
  <2>5. k > s.index
    BY <1>2, <1>3, <1>9, <2>2, <2>3, <2>4
  <2> QED  BY <1>9, <2>3, <2>4, <2>5
<1>12. c.index \in 1 .. Len(c.routes) + 1 /\ c.index <= Len(c.routes) /\ c.skip # 0
  BY <1>2, <1>3, RetryPlanAssumption
<1>13. NoOp.kind = "none"
  BY DEF NoOp, Op
<1>14. SuiteInv(c)
  BY <1>3, <1>7, <1>11, <1>12, <1>13 DEF SuiteInv
<1> QED  BY <1>3, <1>10, <1>14 DEF Skips, Goes

-----------------------------------------------------------------------------
(* The runner.                                                             *)

Working == {"prepare", "enter", "run", "body", "decide", "close"}
RunType ==
  [ready : BOOLEAN, before : BOOLEAN, infrastructure : BOOLEAN, suite : Suites \cup {0}, ok : BOOLEAN,
   timedOut : BOOLEAN, interrupted : BOOLEAN, skip : BOOLEAN, cause : Suites \cup {0}]

TypeInv ==
  /\ decl \in Decls /\ at \in Working \cup {"loop", "retire", "report", "throw", "ended"}
  /\ host \in {"none", "live", "exited"} /\ worker \in Nat \ {0} /\ attempt \in MaybeAttempt
  /\ run \in RunType /\ stop \in BOOLEAN
  /\ finalized \subseteq Tests /\ reported \subseteq Tests /\ unrun \subseteq Tests /\ skipped \subseteq Tests
  /\ operation.skipped \subseteq Tests

(* The runner works on the plan's attempt. *)
AttemptInv ==
  /\ at \in Working => attempt # NoAttempt /\ plan.active = attempt /\ host # "none"
  /\ at \in {"loop", "report"} => attempt = NoAttempt /\ plan.active = NoAttempt
  /\ at = "retire" => attempt # NoAttempt /\ plan.active = NoAttempt
  /\ at = "throw" => plan.active = attempt /\ (attempt # NoAttempt => host # "none")

(* Workers come one after the other, and one that had an unexpected result *)
(* is about to go.                                                         *)
Unclean == \E i \in 1 .. Len(plan.results) : plan.results[i].worker = worker /\ ~plan.results[i].expected
WorkerInv ==
  /\ worker <= Len(plan.results) + 1
  /\ (host = "none" /\ at # "ended") \/ at = "retire" => worker <= Len(plan.results)
  /\ \A i \in 1 .. Len(plan.results) : plan.results[i].worker <= worker
  /\ \A i, j \in 1 .. Len(plan.results) :
       i < j /\ plan.results[i].worker = plan.results[j].worker => plan.results[i].expected
  /\ at \notin {"retire", "ended"} /\ host # "none" => ~Unclean
  /\ at = "retire" /\ Unclean => NeedsWorkerRetirement(plan)

(* Where the attempt is in the suite plan. *)
DriveInv ==
  /\ run.before => run.ready
  /\ at \in {"run", "body"} /\ run.before => suites.pending = operation /\ operation.kind \in {"Test", "SkippedTest"}
  /\ at = "body" => run.before /\ operation.kind = "Test"
  /\ at = "enter" => run.before = run.ready /\ run.suite = 0
  /\ at \in {"run", "body", "decide", "close"} =>
       attempt.test \notin Later(suites) \cup operation.skipped /\ suites.skipped \subseteq operation.skipped
  /\ at \in {"decide", "close"} /\ run.ok => suites.skipped = {}
  /\ run.suite # 0 /\ at \in Working => suites.retire /\ ~run.before
  /\ run.cause # 0 =>
       /\ run.before \/ run.suite # 0 \/ at \notin Working
       /\ at = "enter" => suites.skip # 0
       /\ at = "run" => operation.kind = "SkippedTest" \/ run.suite # 0
       /\ at # "body"
       /\ at \in {"decide", "close"} => run.ok \/ suites.retire
  /\ at = "prepare" => run = InitRun

(* What the coroutine takes for final. *)
Live == at \notin {"report", "throw", "ended"}
FinalInv ==
  /\ at # "ended" => skipped \cup unrun \subseteq finalized
  /\ at = "ended" => reported \cup skipped \cup unrun = Tests
  /\ skipped \cap unrun = {}
  /\ Live =>
       /\ plan.finalized \subseteq finalized
       /\ \A u \in SerialUnits(decl) :
            /\ plan.group[u].excluded \subseteq finalized
            /\ Over(plan.group[u]) => Members(decl, u) \subseteq finalized
       /\ suites.retire \/ (Later(suites) \cup suites.skipped) \cap finalized = {}
       /\ at \in Working \ {"prepare", "enter"} => operation.skipped \cap (finalized \cup Later(suites)) = {}

(* Without serial groups: a test is final as soon as it needs no retry. *)
LegacyInv ==
  Legacy(decl) =>
    /\ reported \cap (skipped \cup unrun) = {}
    /\ at \in Working \/ at = "throw" => attempt.test \notin finalized
    /\ Live =>
         /\ \A k \in 1 .. Len(plan.queue) : plan.queue[k].test \notin finalized
         /\ plan.again.test \notin finalized
         /\ \A t \in reported \ finalized :
              /\ at \in Working => t = attempt.test
              /\ at = "retire" => t = plan.again.test
              /\ at = "loop" => plan.queue # <<>> /\ Head(plan.queue).test = t
    /\ at \in Working \cup {"loop", "retire"} =>
         \A t \in (Later(suites) \cup suites.skipped) \cap reported : at \in {"prepare", "enter"} /\ t = attempt.test
    /\ at \in Working \ {"prepare", "enter"} => operation.skipped \cap reported = {}

IInv ==
  /\ TypeInv /\ PlanInv(decl, plan) /\ SuiteInv(suites)
  /\ AttemptInv /\ WorkerInv /\ DriveInv /\ FinalInv /\ LegacyInv

-----------------------------------------------------------------------------
(* Steps.                                                                  *)

(* The invariant does not mention a stop, nor what was entered and left.   *)
LEMMA QuietKeeps ==
  ASSUME IInv, stop' \in BOOLEAN,
         UNCHANGED <<decl, planVars, host, worker, at, attempt, operation, run, reportVars>>
  PROVE  IInv'
<1> USE DEF planVars, reportVars
<1>1. TypeInv'
  BY DEF IInv, TypeInv
<1>2. PlanInv(decl, plan)' /\ SuiteInv(suites)'
  BY DEF IInv
<1>3. AttemptInv'
  BY DEF IInv, AttemptInv
<1>4. WorkerInv'
  BY DEF IInv, WorkerInv, Unclean
<1>5. DriveInv'
  BY DEF IInv, DriveInv
<1>6. FinalInv'
  BY DEF IInv, FinalInv, Live
<1>7. LegacyInv'
  BY DEF IInv, LegacyInv, Live
<1> QED  BY <1>1, <1>2, <1>3, <1>4, <1>5, <1>6, <1>7 DEF IInv

(* The coroutine throws: the attempt, if there is one, stays the plan's.   *)
LEMMA ThrowKeeps ==
  ASSUME IInv, NEW why, Throw(why), at \in Working \cup {"loop"}, UNCHANGED suites,
         PlanInv(decl, plan'), plan'.active = plan.active, plan'.results = plan.results
  PROVE  IInv'
<1> USE DEF Throw, reportVars
<1>1. TypeInv'
  BY DEF IInv, TypeInv
<1>2. PlanInv(decl, plan)' /\ SuiteInv(suites)'
  BY DEF IInv
<1>3. AttemptInv'
  BY DEF IInv, AttemptInv, Working
<1>4. WorkerInv'
  BY DEF IInv, WorkerInv, Unclean, Working
<1>5. DriveInv'
  BY DEF IInv, DriveInv, Working
<1>6. FinalInv'
  BY DEF IInv, FinalInv, Live, Working
<1>7. LegacyInv'
  <2>1. NoAttempt.test \notin finalized
    BY PlanFields, TestNumbers DEF IInv, TypeInv
  <2>2. Legacy(decl) => attempt.test \notin finalized
    BY <2>1 DEF IInv, LegacyInv, AttemptInv
  <2> QED  BY <2>2 DEF IInv, LegacyInv, Live, Working
<1> QED  BY <1>1, <1>2, <1>3, <1>4, <1>5, <1>6, <1>7 DEF IInv

(* A step of an attempt, which reports nothing yet.                        *)
Works ==
  /\ at \in Working /\ at' \in Working \ {"prepare"} /\ host' \in {"live", "exited"}
  /\ decl' = decl /\ worker' = worker /\ attempt' = attempt /\ stop' = stop
  /\ finalized' = finalized /\ reported' = reported /\ unrun' = unrun /\ skipped' = skipped
  /\ Stops(decl, plan, plan') /\ plan'.group = plan.group
  /\ run' \in RunType
  /\ Goes(suites, suites') /\ suites'.skipped \subseteq suites.skipped \cup Later(suites)
  /\ operation'.skipped \subseteq Tests
  /\ at = "prepare" => at' = "enter"
  /\ at \notin {"prepare", "enter"} => operation' = operation /\ at' # "enter"
  /\ at = "enter" /\ at' # "enter" =>
       /\ operation'.skipped \cap Later(suites') = {} /\ operation'.skipped \subseteq suites.skipped
       /\ operation'.skipped = {} \/ ~suites.retire

(* Such a step keeps the invariant.                                        *)
LEMMA WorksKeeps ==
  ASSUME IInv, Works, DriveInv'
  PROVE  IInv'
<1>1. TypeInv'
  BY DEF IInv, TypeInv, Works, Working
<1>2. PlanInv(decl, plan)' /\ SuiteInv(suites)'
  BY DEF Works, Stops, Goes
<1>3. AttemptInv'
  BY DEF IInv, AttemptInv, Works, Working, Stops
<1>4. WorkerInv'
  <2>1. at' \notin {"retire", "ended"} /\ host' # "none" /\ plan'.results = plan.results /\ worker' = worker
    BY DEF Works, Working, Stops
  <2>2. host # "none" /\ at \notin {"retire", "ended"}
    BY DEF IInv, AttemptInv, Works, Working
  <2> QED  BY <2>1, <2>2 DEF IInv, WorkerInv, Unclean
<1>5. \A t : t \in Later(suites') \cup suites'.skipped => t \in Later(suites) \cup suites.skipped
  BY DEF Works, Goes
<1>6. FinalInv'
  <2>1. skipped' \cup unrun' \subseteq finalized' /\ skipped' \cap unrun' = {} /\ at' # "ended"
    BY DEF IInv, FinalInv, Works, Working
  <2>2. /\ Live /\ plan'.finalized \subseteq finalized'
        /\ \A u \in SerialUnits(decl') :
             /\ plan'.group[u].excluded \subseteq finalized'
             /\ Over(plan'.group[u]) => Members(decl', u) \subseteq finalized'
    BY DEF IInv, FinalInv, Works, Working, Live, Stops
  <2>3. suites'.retire \/ (Later(suites') \cup suites'.skipped) \cap finalized' = {}
    <3>1. suites.retire \/ (Later(suites) \cup suites.skipped) \cap finalized = {}
      BY <2>2 DEF IInv, FinalInv
    <3>2. (suites.retire => suites'.retire) /\ finalized' = finalized
      BY DEF Works, Goes
    <3> QED  BY <1>5, <3>1, <3>2
  <2>4. at' # "enter" => operation'.skipped \cap (finalized' \cup Later(suites')) = {}
    <3>1. CASE at = "enter" /\ at' # "enter"
      <4>1. suites.retire \/ suites.skipped \cap finalized = {}
        BY <2>2 DEF IInv, FinalInv
      <4> QED  BY <3>1, <4>1 DEF Works
    <3>2. CASE at \notin {"prepare", "enter"} /\ at' # "enter"
      <4>1. operation.skipped \cap (finalized \cup Later(suites)) = {} /\ operation' = operation /\ finalized' = finalized
        BY <2>2, <3>2 DEF IInv, FinalInv, Works
      <4>2. Later(suites') \subseteq Later(suites)
        BY DEF Works, Goes
      <4> QED  BY <4>1, <4>2
    <3> QED  BY <3>1, <3>2 DEF Works
  <2> QED  BY <2>1, <2>2, <2>3, <2>4 DEF FinalInv, Works
<1>7. LegacyInv'
  <2> SUFFICES ASSUME Legacy(decl)
               PROVE  LegacyInv'
    BY DEF LegacyInv, Works
  <2>0. /\ finalized' = finalized /\ reported' = reported /\ attempt' = attempt /\ plan'.queue = plan.queue
        /\ plan'.again = plan.again /\ at \in Working /\ at' \in Working
    BY DEF Works, Stops
  <2>1. reported' \cap (skipped' \cup unrun') = {} /\ attempt'.test \notin finalized'
    BY <2>0 DEF IInv, LegacyInv, Works
  <2>2. /\ \A k \in 1 .. Len(plan.queue) : plan.queue[k].test \notin finalized
        /\ plan.again.test \notin finalized
        /\ \A t \in reported \ finalized : t = attempt.test
    BY <2>0 DEF IInv, LegacyInv, Live, Working
  <2>3. ASSUME NEW t \in (Later(suites') \cup suites'.skipped) \cap reported'
        PROVE  at' = "enter" /\ t = attempt'.test
    <3>1. t \in (Later(suites) \cup suites.skipped) \cap reported
      BY <1>5, <2>0
    <3>2. at \in {"prepare", "enter"} /\ t = attempt.test
      BY <2>0, <3>1 DEF IInv, LegacyInv
    <3>3. at' # "enter" => attempt'.test \notin Later(suites') \cup suites'.skipped
      BY <2>0 DEF DriveInv, Works, Working
    <3> QED  BY <2>0, <3>2, <3>3
  <2>4. at' # "enter" => operation'.skipped \cap reported' = {}
    <3>1. CASE at = "enter" /\ at' # "enter"
      <4>1. \A t \in suites.skipped \cap reported : t = attempt.test
        BY <2>0 DEF IInv, LegacyInv
      <4>2. attempt'.test \notin operation'.skipped
        BY <2>0, <3>1 DEF DriveInv, Works, Working
      <4> QED  BY <2>0, <3>1, <4>1, <4>2 DEF Works
    <3>2. CASE at \notin {"prepare", "enter"}
      BY <2>0, <3>2 DEF IInv, LegacyInv, Works
    <3> QED  BY <3>1, <3>2 DEF Works
  <2>5. at' \notin {"retire", "loop", "prepare", "throw"}
    BY DEF Works, Working
  <2> QED  BY <2>0, <2>1, <2>2, <2>3, <2>4, <2>5 DEF LegacyInv
<1> QED  BY <1>1, <1>2, <1>3, <1>4, <1>6, <1>7 DEF IInv

(* PrepareOutput: nothing of the attempt is known before it.               *)
LEMMA PrepareOutputKeeps ==
  ASSUME IInv, PrepareOutput
  PROVE  IInv'
<1>0. at = "prepare" /\ at' = "enter" /\ run = InitRun
  BY DEF PrepareOutput, IInv, DriveInv
<1>1. PICK ready \in BOOLEAN, timedOut \in BOOLEAN, now \in {"live", "exited"} :
        /\ host' = now
        /\ run' = [run EXCEPT !.ready = ready, !.before = ready, !.infrastructure = ~ready,
                              !.timedOut = timedOut, !.interrupted = ~ready /\ stop]
  BY DEF PrepareOutput
<1>2. run' \in RunType /\ run'.before = ready /\ run'.ready = ready /\ run'.suite = 0 /\ run'.cause = 0
  <2>1. run \in RunType /\ stop \in BOOLEAN /\ run.suite = 0 /\ run.cause = 0
    BY <1>0 DEF IInv, TypeInv, InitRun
  <2>2. run' \in RunType
    <3> DEFINE fault == ~ready
               stopped == ~ready /\ stop
    <3>1. run' = [ready |-> ready, before |-> ready, infrastructure |-> fault, suite |-> 0, ok |-> FALSE,
                  timedOut |-> timedOut, interrupted |-> stopped, skip |-> FALSE, cause |-> 0]
      BY <1>0, <1>1 DEF InitRun
    <3>2. fault \in BOOLEAN /\ stopped \in BOOLEAN
      BY <2>1
    <3> HIDE DEF fault, stopped
    <3> QED  BY <3>1, <3>2 DEF RunType
  <2>3. run'.before = ready /\ run'.ready = ready /\ run'.suite = run.suite /\ run'.cause = run.cause
    BY <1>1, <2>1 DEF RunType
  <2> QED  BY <2>1, <2>2, <2>3
<1>3. DriveInv'
  BY <1>0, <1>2 DEF DriveInv
<1>4. UNCHANGED <<decl, plan, suites, worker, attempt, operation, stop, finalized, reported, unrun, skipped>>
  BY DEF PrepareOutput, planVars, reportVars
<1>5. Stops(decl, plan, plan) /\ Goes(suites, suites) /\ operation.skipped \subseteq Tests
  BY DEF Stops, Goes, IInv, TypeInv
<1>6. Works
  BY <1>0, <1>1, <1>2, <1>4, <1>5 DEF Works, Working
<1> QED  BY <1>3, <1>6, WorksKeeps

(* What is noted of a hook or a body, and how it ends.                     *)
LEMMA NotedFacts ==
  ASSUME NEW r \in RunType, NEW e \in Endings, NEW n, n = Noted(r, e)
  PROVE  /\ n \in RunType /\ n.ready = r.ready /\ n.before = r.before /\ n.suite = r.suite /\ n.cause = r.cause
         /\ n.ok = r.ok /\ e.host \in {"live", "exited"}
<1>1. e.host \in {"live", "exited"} /\ e.stopped \in BOOLEAN
  BY DEF Endings
<1>2. n = [r EXCEPT !.timedOut = @ \/ e.outcome = "timedOut", !.interrupted = @ \/ e.stopped]
  BY DEF Noted
<1>3. n \in RunType
  BY <1>1, <1>2 DEF RunType
<1>4. n.ready = r.ready /\ n.before = r.before /\ n.suite = r.suite /\ n.cause = r.cause /\ n.ok = r.ok
  BY <1>2 DEF RunType
<1> QED  BY <1>1, <1>3, <1>4

(* The beforeAll hooks of a suite: entered, skipped, or failed.            *)
LEMMA EnterSuiteKeeps ==
  ASSUME IInv, at = "enter", NextOp(suites).kind = "BeforeAll", NextOp(suites).test = attempt.test,
         NEW ok \in BOOLEAN, NEW skip \in BOOLEAN, NEW r \in RunType, NEW h \in {"live", "exited"},
         EnterSuite(ok, skip, r, h), r.ready = run.ready, r.before = run.before, r.suite = run.suite,
         IF skip THEN ok /\ run.ready ELSE r.cause = run.cause
  PROVE  IInv'
<1> DEFINE o == NextOp(suites)
           a == Admitted(suites)
<1>0. SuiteInv(suites) /\ run.before = run.ready /\ run.suite = 0 /\ run.ready \in BOOLEAN
  BY DEF IInv, DriveInv, TypeInv, RunType
<1>1. Offered(suites, o) /\ o.kind = "BeforeAll"
  <2> HIDE DEF o
  <2> QED  BY <1>0, NextOpFacts DEF o
<1>2. /\ suites.index \in 1 .. Len(suites.routes) /\ attempt.test = suites.routes[suites.index].test
      /\ o.suite \in Suites /\ o.suite # 0 /\ suites.skip = 0 /\ o.skipped = {} /\ suites.skipped = {}
      /\ ~suites.retire /\ o.test = suites.routes[suites.index].test
  BY <1>0, <1>1, RetryPlanAssumption DEF Offered, SuiteInv
<1>3. Admits(suites, a)
  <2> HIDE DEF a
  <2> QED  BY <1>0, AdmittedKeeps DEF a
<1>4. suites' = (IF skip THEN SkipBeforeAll(a) ELSE Complete(a, ok)) /\ operation' = o /\ host' = h
  BY DEF EnterSuite
<1>5. run' = IF ok THEN r ELSE [r EXCEPT !.before = FALSE, !.infrastructure = TRUE, !.suite = o.suite]
  BY DEF EnterSuite
<1> HIDE DEF o, a
<1>6. /\ SuiteInv(a) /\ a.pending = o /\ a.index = suites.index /\ a.routes = suites.routes /\ a.skip = 0
      /\ a.skipped = {} /\ ~a.retire /\ Later(a) \subseteq Later(suites)
  BY <1>2, <1>3 DEF Admits, Goes, o
<1>7. run.cause = 0
  BY <1>2 DEF IInv, DriveInv
<1>8. attempt.test \notin Later(suites)
  BY <1>0, <1>2, CurrentRoute
<1>9. UNCHANGED <<decl, plan, worker, attempt, stop, finalized, reported, unrun, skipped>>
  BY DEF EnterSuite, reportVars
<1>10. Stops(decl, plan, plan) /\ operation'.skipped = {}
  BY <1>2, <1>4 DEF Stops, IInv
<1>11. CASE skip
  <2>1. Skips(a, suites')
    <3>1. /\ SuiteInv(a) /\ a.pending.kind = "BeforeAll" /\ a.pending.suite \in Suites
          /\ a.index \in 1 .. Len(a.routes) /\ a.pending.test = a.routes[a.index].test
          /\ suites' = SkipBeforeAll(a)
      BY <1>1, <1>2, <1>4, <1>6, <1>11
    <3> QED  BY <3>1, SkipBeforeAllKeeps
  <2>2. Goes(suites, suites') /\ suites'.skip # 0 /\ suites'.skipped \subseteq Later(suites)
    BY <1>2, <1>6, <2>1 DEF Skips, Goes
  <2>3. run' = r /\ at' = "enter"
    BY <1>5, <1>11 DEF EnterSuite
  <2>4. DriveInv'
    BY <1>0, <1>11, <2>2, <2>3 DEF DriveInv
  <2>5. Works
    BY <1>4, <1>9, <1>10, <2>2, <2>3 DEF Works, Working
  <2> QED  BY <2>4, <2>5, WorksKeeps
<1>12. CASE ~skip
  <2>1. Completes(a, suites', ok)
    BY <1>1, <1>4, <1>6, <1>12, CompleteKeeps
  <2>2. Goes(suites, suites') /\ suites'.skipped = {} /\ (~ok => suites'.retire)
    BY <1>1, <1>2, <1>6, <2>1 DEF Completes, Goes
  <2>3. CASE ok
    <3>1. run' = r /\ at' = "enter"
      BY <1>5, <2>3 DEF EnterSuite
    <3>2. DriveInv'
      BY <1>0, <1>7, <1>12, <3>1 DEF DriveInv
    <3>3. Works
      BY <1>4, <1>9, <1>10, <2>2, <3>1 DEF Works, Working
    <3> QED  BY <3>2, <3>3, WorksKeeps
  <2>4. CASE ~ok
    <3>1. run' = [r EXCEPT !.before = FALSE, !.infrastructure = TRUE, !.suite = o.suite] /\ at' = "run"
      BY <1>5, <2>4 DEF EnterSuite
    <3>2. run' \in RunType
      BY <1>2, <3>1 DEF RunType
    <3>3. run'.before = FALSE /\ run'.suite = o.suite /\ run'.cause = r.cause
      BY <3>1 DEF RunType
    <3>4. attempt'.test \notin Later(suites') \cup operation'.skipped
      BY <1>8, <1>9, <1>10, <2>2 DEF Goes
    <3>5. DriveInv'
      BY <1>2, <1>7, <1>12, <2>2, <2>4, <3>1, <3>3, <3>4 DEF DriveInv
    <3>6. Works
      BY <1>4, <1>9, <1>10, <2>2, <3>1, <3>2 DEF Works, Working
    <3> QED  BY <3>5, <3>6, WorksKeeps
  <2> QED  BY <2>3, <2>4
<1> QED  BY <1>11, <1>12

(* What holds while an attempt is worked on.                               *)
LEMMA WorkingFacts ==
  ASSUME IInv, at \in Working
  PROVE  /\ SuiteInv(suites) /\ run \in RunType /\ host \in {"live", "exited"} /\ stop \in BOOLEAN
         /\ PlanInv(decl, plan) /\ Stops(decl, plan, plan) /\ Goes(suites, suites) /\ operation.skipped \subseteq Tests
         /\ plan.active = attempt /\ attempt # NoAttempt /\ decl \in Decls
BY DEF IInv, TypeInv, AttemptInv, Stops, Goes

(* BeforeAll.                                                              *)
LEMMA BeforeAllKeeps ==
  ASSUME IInv, BeforeAll
  PROVE  IInv'
<1> DEFINE o == NextOp(suites)
<1>0. at = "enter" /\ at \in Working /\ o.kind = "BeforeAll" /\ o.test = attempt.test
  BY DEF BeforeAll, Working
<1>1. run \in RunType /\ host \in {"live", "exited"} /\ SuiteInv(suites)
  BY <1>0, WorkingFacts
<1>2. o.suite \in Suites
  <2>1. Offered(suites, o)
    <3> HIDE DEF o
    <3> QED  BY <1>1, NextOpFacts DEF o
  <2> QED  BY <1>0, <2>1 DEF Offered
<1>3. CASE EnterSuite(FALSE, FALSE, run, host) \/ EnterSuite(TRUE, FALSE, run, host)
  <2>1. CASE EnterSuite(FALSE, FALSE, run, host)
    BY <1>0, <1>1, <2>1, EnterSuiteKeeps
  <2>2. CASE EnterSuite(TRUE, FALSE, run, host)
    BY <1>0, <1>1, <2>2, EnterSuiteKeeps
  <2> QED  BY <1>3, <2>1, <2>2
<1>4. ASSUME NEW e \in Endings, EnterSuite(e.outcome = "passed", FALSE, Noted(run, e), e.host)
      PROVE  IInv'
  <2> DEFINE r == Noted(run, e)
             ok == e.outcome = "passed"
  <2>1. /\ r \in RunType /\ r.ready = run.ready /\ r.before = run.before /\ r.suite = run.suite /\ r.cause = run.cause
        /\ e.host \in {"live", "exited"}
    <3> HIDE DEF r
    <3> QED  BY <1>1, NotedFacts DEF r
  <2>2. ok \in BOOLEAN /\ FALSE \in BOOLEAN /\ EnterSuite(ok, FALSE, r, e.host)
    BY <1>4
  <2> HIDE DEF r, ok
  <2> QED  BY <1>0, <2>1, <2>2, EnterSuiteKeeps
<1>5. ASSUME NEW e \in Endings, run.ready, EnterSuite(TRUE, TRUE, [Noted(run, e) EXCEPT !.skip = TRUE, !.cause = o.suite], e.host)
      PROVE  IInv'
  <2> DEFINE n == Noted(run, e)
             r == [n EXCEPT !.skip = TRUE, !.cause = o.suite]
  <2>1. /\ n \in RunType /\ n.ready = run.ready /\ n.before = run.before /\ n.suite = run.suite
        /\ e.host \in {"live", "exited"}
    <3> HIDE DEF n
    <3> QED  BY <1>1, NotedFacts DEF n
  <2>2. EnterSuite(TRUE, TRUE, r, e.host) /\ TRUE \in BOOLEAN
    BY <1>5
  <2> HIDE DEF n, o
  <2>3. r \in RunType
    BY <1>2, <2>1 DEF RunType
  <2>4. r.ready = n.ready /\ r.before = n.before /\ r.suite = n.suite
    BY <2>1 DEF RunType
  <2> HIDE DEF r
  <2>5. NextOp(suites).kind = "BeforeAll" /\ NextOp(suites).test = attempt.test
    BY <1>0 DEF o
  <2> QED  BY <1>0, <1>5, <2>1, <2>2, <2>3, <2>4, <2>5, EnterSuiteKeeps
<1>6. CASE UNCHANGED planVars /\ Throw("disagree")
  <2>1. PlanInv(decl, plan) /\ plan' = plan /\ suites' = suites
    BY <1>6 DEF IInv, planVars
  <2> QED  BY <1>0, <1>6, <2>1, ThrowKeeps
<1> QED  BY <1>3, <1>4, <1>5, <1>6 DEF BeforeAll

(* Arrive: the operation is the attempt's test.                            *)
LEMMA ArriveKeeps ==
  ASSUME IInv, Arrive
  PROVE  IInv'
<1> DEFINE o == NextOp(suites)
<1>0. at = "enter" /\ at \in Working
  BY DEF Arrive, Working
<1>1. CASE o.kind \in {"Test", "SkippedTest"} /\ o.test = attempt.test
  <2>1. /\ suites' = Admitted(suites) /\ operation' = o /\ at' = "run"
        /\ UNCHANGED <<decl, plan, host, worker, attempt, run, stop, finalized, reported, unrun, skipped>>
    BY <1>1 DEF Arrive, reportVars
  <2>2. SuiteInv(suites) /\ Offered(suites, o) /\ Admits(suites, suites')
    <3>1. SuiteInv(suites)
      BY <1>0, WorkingFacts
    <3> HIDE DEF o
    <3> QED  BY <2>1, <3>1, NextOpFacts, AdmittedKeeps DEF o
  <2>3. /\ suites.index \in 1 .. Len(suites.routes) /\ attempt.test = suites.routes[suites.index].test
        /\ ~suites.retire /\ o.skipped = suites.skipped
    BY <1>1, <2>2 DEF Offered
  <2>4. Goes(suites, suites') /\ suites'.pending = operation' /\ suites'.skipped = suites.skipped
    BY <2>1, <2>2 DEF Admits
  <2>5. attempt.test \notin Later(suites) \cup suites.skipped
    BY <2>2, <2>3, CurrentRoute
  <2>6. run.cause # 0 => o.kind = "SkippedTest"
    BY <1>0, <1>1, <2>2 DEF IInv, DriveInv, Offered
  <2> HIDE DEF o
  <2>7. run.before = run.ready /\ run.suite = 0 /\ (run.cause # 0 => run.before)
    BY <1>0 DEF IInv, DriveInv, Working
  <2>8. attempt'.test \notin Later(suites') \cup operation'.skipped /\ suites'.skipped \subseteq operation'.skipped
    BY <2>1, <2>3, <2>4, <2>5 DEF Goes
  <2>9. DriveInv'
    BY <1>1, <2>1, <2>4, <2>6, <2>7, <2>8 DEF DriveInv
  <2>10. operation'.skipped \subseteq Tests /\ operation'.skipped \cap Later(suites') = {}
    <3>1. suites'.skipped \subseteq Tests
      BY <2>4, SuiteFields DEF Goes
    <3>2. \A j \in suites'.index .. Len(suites'.routes) : suites'.routes[j].test \notin suites'.skipped
      BY <2>4 DEF Goes, SuiteInv
    <3>3. suites'.index \in Nat /\ Len(suites'.routes) \in Nat
      BY <2>4, SuiteFields DEF Goes
    <3>4. Later(suites') \cap suites'.skipped = {}
      BY <3>2, <3>3 DEF Later
    <3> QED  BY <2>1, <2>3, <2>4, <3>1, <3>4
  <2>11. Works
    BY <1>0, <2>1, <2>3, <2>4, <2>10, WorkingFacts DEF Works, Working
  <2> QED  BY <2>9, <2>11, WorksKeeps
<1>2. CASE ~(o.kind \in {"Test", "SkippedTest"} /\ o.test = attempt.test)
  <2>1. UNCHANGED planVars /\ Throw("disagree")
    BY <1>2 DEF Arrive
  <2>2. PlanInv(decl, plan) /\ plan' = plan /\ suites' = suites
    BY <2>1 DEF IInv, planVars
  <2> QED  BY <1>0, <2>1, <2>2, ThrowKeeps
<1> QED  BY <1>1, <1>2

(* StartBody.                                                              *)
LEMMA StartBodyKeeps ==
  ASSUME IInv, StartBody
  PROVE  IInv'
<1>0. at = "run" /\ at \in Working /\ at' = "body" /\ run.before /\ operation.kind = "Test"
  BY DEF StartBody, BodyRuns, Working
<1>1. UNCHANGED <<decl, plan, suites, host, worker, attempt, operation, run, stop, finalized, reported, unrun, skipped>>
  BY DEF StartBody, planVars, reportVars
<1>2. run.suite = 0 /\ run.cause = 0
  BY <1>0 DEF IInv, DriveInv
<1>3. DriveInv'
  BY <1>0, <1>1, <1>2 DEF IInv, DriveInv
<1>4. Works
  BY <1>0, <1>1, WorkingFacts DEF Works, Working
<1> QED  BY <1>3, <1>4, WorksKeeps

(* The body has ended, or there was none.                                  *)
LEMMA CompletesTest ==
  ASSUME IInv, at \in {"run", "body"}, run.before, NEW ok \in BOOLEAN, suites' = Complete(suites, ok)
  PROVE  /\ Goes(suites, suites') /\ suites'.skipped = {} /\ (~ok => suites'.retire)
<1>1. SuiteInv(suites) /\ suites.pending.kind \in {"Test", "SkippedTest"}
  BY DEF IInv, DriveInv
<1>2. Completes(suites, suites', ok)
  BY <1>1, CompleteKeeps
<1> QED  BY <1>1, <1>2 DEF Completes

(* RunBody.                                                                *)
LEMMA RunBodyKeeps ==
  ASSUME IInv, RunBody
  PROVE  IInv'
<1>0. at = "body" /\ at \in Working /\ at' = "decide"
  BY DEF RunBody, Working
<1>1. PICK e \in Endings, amended \in BOOLEAN :
        /\ host' = e.host
        /\ plan' = IF amended THEN ExpectFailure(plan) ELSE plan
        /\ run' = [Noted(run, e) EXCEPT
                     !.ok = e.outcome \in {"passed", "skipped"}, !.skip = e.outcome = "skipped",
                     !.infrastructure = @ \/ e.outcome = "gone"]
        /\ suites' = Complete(suites, IF InSerialGroup(attempt.test) THEN SerialExpected(plan', run') ELSE run'.ok)
  BY DEF RunBody
<1>2. UNCHANGED <<decl, worker, attempt, operation, stop, finalized, reported, unrun, skipped>>
  BY DEF RunBody, reportVars
<1>3. /\ run \in RunType /\ run.before /\ run.suite = 0 /\ run.cause = 0 /\ PlanInv(decl, plan)
  BY <1>0, WorkingFacts DEF IInv, DriveInv
<1>4. run' \in RunType /\ run'.before = run.before /\ run'.suite = 0 /\ run'.cause = 0 /\ run'.ready = run.ready
  <2> DEFINE n == Noted(run, e)
  <2>1. n \in RunType /\ n.ready = run.ready /\ n.before = run.before /\ n.suite = 0 /\ n.cause = 0
    <3> HIDE DEF n
    <3> QED  BY <1>3, NotedFacts DEF n
  <2>2. run' = [n EXCEPT !.ok = e.outcome \in {"passed", "skipped"}, !.skip = e.outcome = "skipped",
                         !.infrastructure = @ \/ e.outcome = "gone"]
    BY <1>1
  <2> DEFINE ok == e.outcome \in {"passed", "skipped"}
             skip == e.outcome = "skipped"
             gone == n.infrastructure \/ e.outcome = "gone"
  <2> HIDE DEF n
  <2>3. run' \in RunType
    <3>1. ok \in BOOLEAN /\ skip \in BOOLEAN /\ gone \in BOOLEAN
      OBVIOUS
    <3>2. run' = [n EXCEPT !.ok = ok, !.skip = skip, !.infrastructure = gone]
      BY <2>1, <2>2 DEF RunType
    <3> HIDE DEF ok, skip, gone
    <3> QED  BY <2>1, <3>1, <3>2, SMTT(40), ZenonT(60) DEF RunType
  <2>4. run'.before = n.before /\ run'.suite = n.suite /\ run'.cause = n.cause /\ run'.ready = n.ready
    BY <2>1, <2>2 DEF RunType
  <2> QED  BY <2>1, <2>3, <2>4
<1>5. PICK ok \in BOOLEAN : suites' = Complete(suites, ok)
  <2>1. run'.ok \in BOOLEAN /\ SerialExpected(plan', run') \in BOOLEAN
    BY <1>4 DEF RunType, SerialExpected, Expected
  <2> QED  BY <1>1, <2>1
<1>6. Goes(suites, suites') /\ suites'.skipped = {}
  BY <1>0, <1>3, <1>5, CompletesTest
<1>7. Stops(decl, plan, plan') /\ plan'.group = plan.group
  BY <1>1, <1>3, ExpectFailureKeeps DEF Stops
<1>8. attempt'.test \notin Later(suites') \cup operation'.skipped
  BY <1>0, <1>2, <1>6 DEF IInv, DriveInv, Goes
<1>9. DriveInv'
  BY <1>0, <1>3, <1>4, <1>6, <1>8 DEF IInv, DriveInv
<1>10. host' \in {"live", "exited"}
  BY <1>1 DEF Endings
<1>11. Works
  BY <1>0, <1>2, <1>4, <1>6, <1>7, <1>10, WorkingFacts DEF Works, Working
<1> QED  BY <1>9, <1>11, WorksKeeps

(* NoBody.                                                                 *)
LEMMA NoBodyKeeps ==
  ASSUME IInv, NoBody
  PROVE  IInv'
<1> DEFINE clean == operation.kind = "SkippedTest" /\ ~stop /\ host = "live"
<1>0. at = "run" /\ at \in Working /\ at' = "decide"
  BY DEF NoBody, Working
<1>1. /\ suites' = IF run.before THEN Complete(suites, clean) ELSE suites
      /\ run' = [run EXCEPT !.ok = run.before /\ clean]
      /\ UNCHANGED <<decl, plan, host, worker, attempt, operation, stop, finalized, reported, unrun, skipped>>
  BY DEF NoBody, reportVars
<1>2. run \in RunType /\ SuiteInv(suites) /\ run.before \in BOOLEAN /\ clean \in BOOLEAN
  BY <1>0, WorkingFacts DEF RunType
<1> HIDE DEF clean
<1>3. run' \in RunType
  BY <1>1, <1>2 DEF RunType
<1>4. /\ run'.before = run.before /\ run'.suite = run.suite /\ run'.cause = run.cause /\ run'.ready = run.ready
      /\ run'.ok = (run.before /\ clean)
  BY <1>1, <1>2 DEF RunType
<1>5. /\ Goes(suites, suites') /\ suites'.skipped \subseteq suites.skipped
      /\ run.before => suites'.skipped = {} /\ (~clean => suites'.retire)
  <2>1. CASE run.before
    BY <1>0, <1>1, <1>2, <2>1, CompletesTest
  <2>2. CASE ~run.before
    BY <1>0, <1>1, <2>2, WorkingFacts
  <2> QED  BY <1>2, <2>1, <2>2
<1>6. attempt'.test \notin Later(suites') \cup operation'.skipped /\ suites'.skipped \subseteq operation'.skipped
  BY <1>0, <1>1, <1>5 DEF IInv, DriveInv, Goes
<1>7. run.cause # 0 => run'.ok \/ suites'.retire
  <2>1. run.cause # 0 => run.before \/ suites.retire
    BY <1>0 DEF IInv, DriveInv
  <2> QED  BY <1>4, <1>5, <2>1 DEF Goes
<1>8. run'.suite # 0 => suites'.retire /\ ~run'.before
  BY <1>0, <1>4, <1>5 DEF IInv, DriveInv, Goes
<1>9. DriveInv'
  BY <1>0, <1>1, <1>4, <1>5, <1>6, <1>7, <1>8 DEF IInv, DriveInv
<1>10. Works
  BY <1>0, <1>1, <1>3, <1>5, WorkingFacts DEF Works, Working
<1> QED  BY <1>9, <1>10, WorksKeeps

(* Decide.                                                                 *)
LEMMA DecideKeeps ==
  ASSUME IInv, Decide
  PROVE  IInv'
<1>0. at = "decide" /\ at \in Working /\ at' = "close"
  BY DEF Decide, Working
<1>1. /\ suites' = IF WantsRetirement THEN RetireAfterCurrentTest(suites) ELSE suites
      /\ UNCHANGED <<decl, plan, host, worker, attempt, operation, run, stop, finalized, reported, unrun, skipped>>
  BY DEF Decide, reportVars
<1>2. Goes(suites, suites') /\ suites'.skipped = suites.skipped
  <2>1. CASE suites' = suites
    BY <1>0, <2>1, WorkingFacts
  <2>2. CASE suites' = RetireAfterCurrentTest(suites)
    BY <1>0, <2>2, WorkingFacts, RetireKeeps
  <2> QED  BY <1>1, <2>1, <2>2
<1>3. DriveInv'
  BY <1>0, <1>1, <1>2 DEF IInv, DriveInv, Goes
<1>4. Works
  BY <1>0, <1>1, <1>2, WorkingFacts DEF Works, Working
<1> QED  BY <1>3, <1>4, WorksKeeps

(* The afterAll hooks of a suite.                                          *)
LEMMA LeaveSuiteKeeps ==
  ASSUME IInv, at = "close", NextOp(suites).kind = "AfterAll",
         NEW ok \in BOOLEAN, NEW r \in RunType, NEW h \in {"live", "exited"}, LeaveSuite(ok, r, h),
         r.ready = run.ready, r.before = run.before, r.suite = run.suite, r.cause = run.cause, r.ok = run.ok
  PROVE  IInv'
<1> DEFINE o == NextOp(suites)
           a == Admitted(suites)
<1>0. SuiteInv(suites) /\ at \in Working
  BY DEF IInv, Working
<1>1. Offered(suites, o) /\ o.kind = "AfterAll" /\ Admits(suites, a)
  <2> HIDE DEF o, a
  <2> QED  BY <1>0, NextOpFacts, AdmittedKeeps DEF o, a
<1>2. /\ suites' = Complete(a, ok) /\ host' = h /\ run' = [r EXCEPT !.ok = @ /\ ok, !.infrastructure = @ \/ ~ok]
      /\ UNCHANGED <<decl, plan, worker, at, attempt, operation, stop, finalized, reported, unrun, skipped>>
  BY DEF LeaveSuite, reportVars
<1>3. /\ SuiteInv(a) /\ a.pending.kind = "AfterAll" /\ a.closing /\ a.skipped = suites.skipped
      /\ Later(a) \subseteq Later(suites) /\ a.retire = suites.retire
  BY <1>1 DEF Admits, Goes, Offered
<1> HIDE DEF o, a
<1>4. Completes(a, suites', ok)
  BY <1>2, <1>3, CompleteKeeps
<1>5. Goes(suites, suites') /\ suites'.skipped = suites.skipped /\ (~ok => suites'.retire)
  BY <1>3, <1>4 DEF Completes, Goes
<1>6. run' \in RunType
  <2> DEFINE fine == r.ok /\ ok
             fault == r.infrastructure \/ ~ok
  <2>1. run' = [r EXCEPT !.ok = fine, !.infrastructure = fault]
    BY <1>2 DEF RunType
  <2>2. fine \in BOOLEAN /\ fault \in BOOLEAN
    OBVIOUS
  <2> HIDE DEF fine, fault
  <2> QED  BY <2>1, <2>2 DEF RunType
<1>7. /\ run'.before = run.before /\ run'.suite = run.suite /\ run'.cause = run.cause /\ run'.ready = run.ready
      /\ run'.ok = (run.ok /\ ok)
  BY <1>2 DEF RunType
<1>8. DriveInv'
  BY <1>2, <1>5, <1>7 DEF IInv, DriveInv, Goes
<1>9. Works
  BY <1>0, <1>2, <1>5, <1>6, WorkingFacts DEF Works, Working
<1> QED  BY <1>8, <1>9, WorksKeeps

(* AfterAll.                                                               *)
LEMMA AfterAllKeeps ==
  ASSUME IInv, AfterAll
  PROVE  IInv'
<1>0. at = "close" /\ at \in Working /\ NextOp(suites).kind = "AfterAll"
  BY DEF AfterAll, Closes, Working
<1>1. run \in RunType /\ host \in {"live", "exited"}
  BY <1>0, WorkingFacts
<1>2. CASE LeaveSuite(FALSE, run, host)
  BY <1>0, <1>1, <1>2, LeaveSuiteKeeps
<1>3. CASE LeaveSuite(TRUE, run, host)
  BY <1>0, <1>1, <1>3, LeaveSuiteKeeps
<1>4. ASSUME NEW e \in Endings, LeaveSuite(e.outcome = "passed", Noted(run, e), e.host)
      PROVE  IInv'
  <2> DEFINE r == Noted(run, e)
             ok == e.outcome = "passed"
  <2>1. /\ r \in RunType /\ r.ready = run.ready /\ r.before = run.before /\ r.suite = run.suite /\ r.cause = run.cause
        /\ r.ok = run.ok /\ e.host \in {"live", "exited"}
    <3> HIDE DEF r
    <3> QED  BY <1>1, NotedFacts DEF r
  <2>2. ok \in BOOLEAN /\ LeaveSuite(ok, r, e.host)
    BY <1>4
  <2> HIDE DEF r, ok
  <2> QED  BY <1>0, <2>1, <2>2, LeaveSuiteKeeps
<1> QED  BY <1>2, <1>3, <1>4 DEF AfterAll

(* A throw, whatever its cause.                                            *)
LEMMA ThrowsKeep ==
  ASSUME IInv, ThrowIfStopped \/ StartThrows \/ PrepareThrows \/ DecideThrows \/ AfterAllThrows
  PROVE  IInv'
<1>0. PlanInv(decl, plan)
  BY DEF IInv
<1>1. CASE ThrowIfStopped
  <2>1. at = "loop" /\ plan' = StopPlan(plan) /\ suites' = suites /\ Throw("stopped")
    BY <1>1 DEF ThrowIfStopped
  <2>2. Stops(decl, plan, plan')
    BY <1>0, <2>1, StopPlanKeeps
  <2> QED  BY <2>1, <2>2, ThrowKeeps DEF Stops
<1>2. CASE StartThrows
  <2>1. at = "loop" /\ plan' = plan /\ suites' = suites /\ Throw("start")
    BY <1>2 DEF StartThrows, planVars
  <2> QED  BY <1>0, <2>1, ThrowKeeps
<1>3. CASE PrepareThrows
  <2>1. at \in Working /\ plan' = plan /\ suites' = suites /\ Throw("prepare")
    BY <1>3 DEF PrepareThrows, planVars, Working
  <2> QED  BY <1>0, <2>1, ThrowKeeps
<1>4. CASE DecideThrows
  <2>1. at \in Working /\ plan' = plan /\ suites' = suites /\ Throw("outstanding")
    BY <1>4 DEF DecideThrows, planVars, Working
  <2> QED  BY <1>0, <2>1, ThrowKeeps
<1>5. CASE AfterAllThrows
  <2>1. at \in Working /\ plan' = plan /\ suites' = suites /\ Throw("mismatch")
    BY <1>5 DEF AfterAllThrows, Closes, planVars, Working
  <2> QED  BY <1>0, <2>1, ThrowKeeps
<1> QED  BY <1>1, <1>2, <1>3, <1>4, <1>5

(* StartAttempt: the next attempt, in a fresh worker if there is none.     *)
LEMMA StartAttemptKeeps ==
  ASSUME IInv, StartAttempt
  PROVE  IInv'
<1>0. /\ at = "loop" /\ PlanInv(decl, plan) /\ plan.active = NoAttempt /\ attempt = NoAttempt
      /\ decl \in Decls /\ SuiteInv(suites)
      /\ plan' = NextAttempt(plan, StartWorker) /\ StartWorker \in Nat
  BY DEF StartAttempt, IInv, AttemptInv, TypeInv, StartWorker
<1>1. /\ PlanInv(decl, plan') /\ plan'.results = plan.results /\ plan'.finalized = plan.finalized
      /\ plan'.again = plan.again
      /\ \A u \in SerialUnits(decl) :
           plan'.group[u].excluded = plan.group[u].excluded /\ (Over(plan'.group[u]) => Over(plan.group[u]))
      /\ plan'.active # NoAttempt =>
           \/ IsSerial(decl, Unit(decl, plan'.active.test))
           \/ plan.queue # <<>> /\ plan'.active = Head(plan.queue) /\ plan'.queue = Tail(plan.queue)
  BY <1>0, NextAttemptKeeps
<1>2. CASE plan'.active = NoAttempt
  <2>1. suites' = suites /\ Throw("fence")
    BY <1>2 DEF StartAttempt
  <2> QED  BY <1>0, <1>1, <1>2, <2>1, ThrowKeeps
<1>3. CASE plan'.active # NoAttempt
  <2>1. /\ attempt' = plan'.active
        /\ suites' = IF suites = NoSuites THEN InitSuitePlan(decl, Tests \ finalized) ELSE suites
        /\ at' = "prepare" /\ run' = InitRun /\ operation' = NoOp
        /\ host' = (IF host = "none" THEN "live" ELSE host) /\ worker' = StartWorker
        /\ UNCHANGED <<decl, stop, finalized, reported, unrun, skipped>>
    BY <1>3 DEF StartAttempt, reportVars
  <2>2. /\ SuiteInv(suites')
        /\ suites' = suites \/ (Later(suites') \subseteq Tests \ finalized /\ suites'.skipped = {})
    BY <1>0, <2>1, FreshSuites
  <2>3. plan'.active \in Attempts /\ plan'.active.test \in Tests /\ plan'.active \in MaybeAttempt
    BY <1>1, <1>3, PlanFields
  <2>4. TypeInv'
    <3>1. InitRun \in RunType
      BY DEF InitRun, RunType
    <3>2. NoOp.skipped = {}
      BY DEF NoOp, Op
    <3>3. host' \in {"none", "live", "exited"} /\ worker' \in Nat \ {0}
      BY <2>1 DEF IInv, TypeInv, StartWorker
    <3> QED  BY <2>1, <2>3, <3>1, <3>2, <3>3 DEF IInv, TypeInv, Working
  <2>5. AttemptInv'
    BY <1>3, <2>1 DEF AttemptInv, Working
  <2>6. WorkerInv'
    <3>0. host' # "none" /\ at' = "prepare" /\ Len(plan.results) \in Nat /\ worker \in Nat
      BY <1>0, <2>1, PlanFields DEF IInv, TypeInv
    <3>0a. \A i \in 1 .. Len(plan.results) : plan.results[i].worker \in Nat
      <4>1. plan.results \in Seq(Result)
        BY <1>0, PlanFields
      <4>2. \A r \in Result : r.worker \in Nat
        BY DEF Result
      <4> QED  BY <4>1, <4>2
    <3>1. CASE host = "none"
      <4>1. worker' = worker + 1 /\ worker <= Len(plan.results)
        BY <1>0, <2>1, <3>1 DEF IInv, WorkerInv, StartWorker
      <4>2. \A i \in 1 .. Len(plan.results) : plan.results[i].worker <= worker' /\ plan.results[i].worker # worker'
        BY <3>0, <3>0a, <4>1 DEF IInv, WorkerInv
      <4>3. worker' <= Len(plan.results) + 1
        BY <3>0, <4>1
      <4>4. ~Unclean'
        BY <1>1, <4>2 DEF Unclean
      <4> QED  BY <1>1, <3>0, <4>2, <4>3, <4>4 DEF IInv, WorkerInv
    <3>2. CASE host # "none"
      <4>1. worker' = worker
        BY <2>1, <3>2 DEF StartWorker
      <4> QED  BY <1>0, <1>1, <3>0, <3>2, <4>1 DEF IInv, WorkerInv, Unclean
    <3> QED  BY <3>1, <3>2
  <2>7. DriveInv'
    BY <2>1 DEF DriveInv, InitRun
  <2>8. FinalInv'
    <3>1. Live /\ at # "ended"
      BY <1>0 DEF Live
    <3>2. suites'.retire \/ (Later(suites') \cup suites'.skipped) \cap finalized = {}
      BY <2>2, <3>1 DEF IInv, FinalInv
    <3>3. /\ plan'.finalized \subseteq finalized
          /\ \A u \in SerialUnits(decl) :
               /\ plan'.group[u].excluded \subseteq finalized
               /\ Over(plan'.group[u]) => Members(decl, u) \subseteq finalized
      BY <1>1, <3>1 DEF IInv, FinalInv
    <3>4. skipped \cup unrun \subseteq finalized /\ skipped \cap unrun = {}
      BY <3>1 DEF IInv, FinalInv
    <3> QED  BY <2>1, <3>2, <3>3, <3>4 DEF FinalInv
  <2>9. LegacyInv'
    <3> SUFFICES ASSUME Legacy(decl)
                 PROVE  LegacyInv'
      BY <2>1 DEF LegacyInv
    <3>1. plan.queue # <<>> /\ plan'.active = Head(plan.queue) /\ plan'.queue = Tail(plan.queue)
      BY <1>1, <1>3, <2>3, UnitOfTest
    <3>2. /\ reported \cap (skipped \cup unrun) = {}
          /\ \A k \in 1 .. Len(plan.queue) : plan.queue[k].test \notin finalized
          /\ plan.again.test \notin finalized
          /\ \A t \in reported \ finalized : Head(plan.queue).test = t
          /\ (Later(suites) \cup suites.skipped) \cap reported = {}
      BY <1>0 DEF IInv, LegacyInv, Live
    <3>3. plan.queue \in Seq(Attempts)
      BY <1>0, PlanFields
    <3>4. 1 \in 1 .. Len(plan.queue) /\ Head(plan.queue) = plan.queue[1]
      BY <3>1, <3>3
    <3>5. attempt'.test \notin finalized
      BY <2>1, <3>1, <3>2, <3>4
    <3>6. ASSUME NEW k \in 1 .. Len(plan'.queue) PROVE plan'.queue[k].test \notin finalized
      <4>1. plan'.queue[k] = plan.queue[k + 1] /\ k + 1 \in 1 .. Len(plan.queue)
        BY <3>1, <3>3
      <4> QED  BY <3>2, <4>1
    <3>7. ASSUME NEW t \in (Later(suites') \cup suites'.skipped) \cap reported PROVE t = attempt'.test
      BY <2>1, <2>2, <3>1, <3>2, <3>7
    <3>8. \A t \in reported \ finalized : t = attempt'.test
      BY <2>1, <3>1, <3>2
    <3> QED  BY <1>1, <2>1, <3>2, <3>5, <3>6, <3>7, <3>8 DEF LegacyInv, Working
  <2> QED  BY <1>1, <2>1, <2>2, <2>4, <2>5, <2>6, <2>7, <2>8, <2>9 DEF IInv
<1> QED  BY <1>2, <1>3

(* LoopEnds.                                                               *)
LEMMA LoopEndsKeeps ==
  ASSUME IInv, LoopEnds
  PROVE  IInv'
<1>0. /\ at = "loop" /\ at' = "report"
      /\ UNCHANGED <<decl, plan, suites, host, worker, attempt, operation, run, stop, finalized, reported, unrun, skipped>>
  BY DEF LoopEnds, planVars, reportVars
<1>1. TypeInv'
  BY <1>0 DEF IInv, TypeInv
<1>2. PlanInv(decl, plan)' /\ SuiteInv(suites)'
  BY <1>0 DEF IInv
<1>3. AttemptInv'
  BY <1>0 DEF IInv, AttemptInv, Working
<1>4. WorkerInv'
  BY <1>0 DEF IInv, WorkerInv, Unclean
<1>5. DriveInv'
  BY <1>0 DEF IInv, DriveInv, Working
<1>6. FinalInv'
  BY <1>0 DEF IInv, FinalInv, Live, Working
<1>7. LegacyInv'
  BY <1>0 DEF IInv, LegacyInv, Live, Working
<1> QED  BY <1>1, <1>2, <1>3, <1>4, <1>5, <1>6, <1>7 DEF IInv

(* MarkUnrun: an attempt that has no result yet gets one, and what is in   *)
(* no part of the report is unrun.                                         *)
LEMMA MarkUnrunKeeps ==
  ASSUME IInv, MarkUnrun
  PROVE  IInv'
<1> DEFINE now == IF attempt = NoAttempt THEN reported ELSE reported \cup {attempt.test}
<1>0. /\ at \in {"report", "throw"} /\ at' = "ended" /\ host' = "none"
      /\ reported' = now /\ unrun' = unrun \cup (Tests \ (now \cup unrun \cup skipped))
      /\ plan' = IF host = "none" THEN plan ELSE ActualWorkerExited(plan, worker)
      /\ UNCHANGED <<decl, suites, worker, attempt, operation, run, stop, finalized, skipped>>
  BY DEF MarkUnrun, Unaccounted
<1>1. /\ PlanInv(decl, plan) /\ attempt \in MaybeAttempt /\ worker \in Nat
      /\ reported \subseteq Tests /\ skipped \subseteq Tests /\ unrun \subseteq Tests
  BY DEF IInv, TypeInv
<1>2. IF host = "none" THEN plan' = plan ELSE Exits(decl, plan, plan', worker)
  BY <1>0, <1>1, ActualWorkerExitedKeeps
<1>3. attempt # NoAttempt => attempt.test \in Tests
  BY <1>1 DEF MaybeAttempt, Attempts
<1>4. now \subseteq Tests
  BY <1>1, <1>3
<1>5. TypeInv'
  BY <1>0, <1>1, <1>4 DEF IInv, TypeInv
<1>6. PlanInv(decl, plan)' /\ SuiteInv(suites)'
  BY <1>0, <1>1, <1>2 DEF IInv, Exits
<1>7. AttemptInv'
  BY <1>0 DEF AttemptInv, Working
<1>8. WorkerInv'
  <2>0. Len(plan.results) \in Nat /\ plan.results \in Seq(Result)
    BY <1>1, PlanFields
  <2>1. CASE plan'.results = plan.results
    BY <1>0, <2>1 DEF IInv, WorkerInv
  <2>2. ASSUME host # "none", NEW r \in Result, r.worker = worker, plan'.results = Append(plan.results, r)
        PROVE  WorkerInv'
    <3>1. Len(plan'.results) = Len(plan.results) + 1
      BY <2>0, <2>2
    <3>2. \A i \in 1 .. Len(plan'.results) : plan'.results[i] = IF i <= Len(plan.results) THEN plan.results[i] ELSE r
      BY <2>0, <2>2
    <3>3. ~Unclean
      BY <1>0, <2>2 DEF IInv, WorkerInv
    <3>4. worker' <= Len(plan'.results) + 1
      BY <1>0, <1>1, <2>0, <3>1 DEF IInv, WorkerInv
    <3>5. \A i \in 1 .. Len(plan'.results) : plan'.results[i].worker <= worker
      <4>1. \A i \in 1 .. Len(plan.results) : plan.results[i].worker <= worker
        BY DEF IInv, WorkerInv
      <4> QED  BY <1>1, <2>0, <2>2, <3>1, <3>2, <4>1
    <3>6. ASSUME NEW i \in 1 .. Len(plan'.results), NEW j \in 1 .. Len(plan'.results), i < j,
                 plan'.results[i].worker = plan'.results[j].worker
          PROVE  plan'.results[i].expected
      <4>1. i \in 1 .. Len(plan.results) /\ plan'.results[i] = plan.results[i]
        BY <2>0, <3>1, <3>2, <3>6
      <4>2. CASE j \in 1 .. Len(plan.results)
        BY <2>0, <3>2, <3>6, <4>1, <4>2 DEF IInv, WorkerInv
      <4>3. CASE j \notin 1 .. Len(plan.results)
        <5>1. plan'.results[j] = r
          BY <2>0, <3>1, <3>2, <4>3
        <5> QED  BY <2>2, <3>3, <3>6, <4>1, <5>1 DEF Unclean
      <4> QED  BY <4>2, <4>3
    <3> QED  BY <1>0, <3>4, <3>5, <3>6 DEF WorkerInv
  <2>3. CASE host = "none"
    BY <1>2, <2>1, <2>3
  <2>4. CASE host # "none" /\ plan'.results # plan.results
    <3>1. \E r \in Result : r.worker = worker /\ plan'.results = Append(plan.results, r)
      BY <1>2, <2>4 DEF Exits
    <3> QED  BY <2>2, <2>4, <3>1
  <2> QED  BY <2>1, <2>3, <2>4
<1>9. DriveInv'
  BY <1>0 DEF IInv, DriveInv, Working
<1>10. FinalInv'
  BY <1>0, <1>1, <1>4 DEF IInv, FinalInv, Live, Working
<1>11. LegacyInv'
  <2> SUFFICES ASSUME Legacy(decl)
               PROVE  LegacyInv'
    BY <1>0 DEF LegacyInv
  <2>1. reported \cap (skipped \cup unrun) = {} /\ skipped \cup unrun \subseteq finalized
    BY <1>0 DEF IInv, LegacyInv, FinalInv
  <2>2. attempt # NoAttempt => attempt.test \notin finalized
    BY <1>0 DEF IInv, LegacyInv, AttemptInv
  <2>3. reported' \cap (skipped' \cup unrun') = {}
    BY <1>0, <2>1, <2>2
  <2> QED  BY <1>0, <2>3 DEF LegacyInv, Live, Working
<1> QED  BY <1>5, <1>6, <1>7, <1>8, <1>9, <1>10, <1>11 DEF IInv

-----------------------------------------------------------------------------
(* The result of an attempt.                                               *)

(* What FinishAttempt computes, by name. *)
EndRun == [run EXCEPT !.interrupted = @ \/ (stop /\ ~run.timedOut)]
EndOutcome == AttemptOutcome(EndRun)
EndFault == EndRun.infrastructure \/ (EndRun.skip /\ EndOutcome # "skipped")
EndPlan == Finish(plan, worker, EndOutcome, EndFault)
EndExpected == Expected(plan, EndOutcome, EndFault)
Exhausted == attempt.retry >= MaxRetries(decl, attempt.test)
Final ==
  IF ~InSerialGroup(attempt.test) /\ (EndExpected \/ Exhausted \/ EndRun.interrupted)
  THEN finalized \cup {attempt.test} ELSE finalized
Clean == EndRun.cause # 0 /\ EndOutcome = "skipped" /\ EndExpected
Omitted == IF Clean THEN operation.skipped ELSE {}
Failed == IF EndRun.cause # 0 /\ ~Clean /\ EndRun.suite = 0 /\ ~EndRun.ok THEN EndRun.cause ELSE EndRun.suite
Blocked == IF Failed # 0 /\ Exhausted THEN SuiteTests(Failed) ELSE {}

(* The retries of a group are those of its first test.                     *)
LEMMA RetriesOfUnit ==
  ASSUME NEW d \in Decls, NEW t \in Tests
  PROVE  /\ MaxRetries(d, t) \in Nat
         /\ IsSerial(d, Unit(d, t)) => MaxRetries(d, Unit(d, t)) = MaxRetries(d, t)
         /\ ~IsSerial(d, Unit(d, t)) => MaxRetries(d, t) = d.retries[t]
<1> DEFINE u == Unit(d, t)
           waves == {d.retries[m] : m \in Members(d, u)}
<1>1. u \in Units(d) /\ d.retries \in [Tests -> Nat]
  BY UnitOfTest, DeclFacts
<1> HIDE DEF u
<1>2. Unit(d, u) = u /\ Members(d, u) \subseteq Tests /\ IsFiniteSet(Members(d, u)) /\ u \in Members(d, u)
  BY <1>1, MemberFacts
<1>3. /\ MaxRetries(d, t) = IF IsSerial(d, u) THEN Max(waves) ELSE d.retries[t]
      /\ MaxRetries(d, u) = IF IsSerial(d, u) THEN Max(waves) ELSE d.retries[u]
  BY <1>2 DEF MaxRetries, u
<1>4. waves # {} /\ \A n \in waves : n \in Nat
  BY <1>1, <1>2
<1>5. IsFiniteSet(waves)
  <2> DEFINE f == [m \in Members(d, u) |-> d.retries[m]]
  <2>1. f \in Surjection(Members(d, u), waves)
    BY DEF Surjection
  <2> HIDE DEF f, waves
  <2> QED  BY <1>2, <2>1, FS_Surjection
<1> HIDE DEF waves
<1>6. Max(waves) \in Nat
  BY <1>4, <1>5, MaxIsMember
<1> QED  BY <1>1, <1>3, <1>6 DEF u

(* The outcome of an attempt.                                              *)
LEMMA EndFacts ==
  ASSUME IInv, at = "close"
  PROVE  /\ EndRun \in RunType /\ EndRun.cause = run.cause /\ EndRun.suite = run.suite /\ EndRun.ok = run.ok
         /\ EndRun.before = run.before /\ EndRun.ready = run.ready
         /\ EndOutcome \in Outcomes /\ EndFault \in BOOLEAN
         /\ EndOutcome = "interrupted" <=> EndRun.interrupted
         /\ EndOutcome = "skipped" => run.ok
<1>1. run \in RunType /\ stop \in BOOLEAN
  BY DEF IInv, TypeInv
<1>2. EndRun = [run EXCEPT !.interrupted = @ \/ (stop /\ ~run.timedOut)]
  BY DEF EndRun
<1>3. EndRun \in RunType
  BY <1>1, <1>2 DEF RunType
<1>4. /\ EndRun.cause = run.cause /\ EndRun.suite = run.suite /\ EndRun.ok = run.ok /\ EndRun.before = run.before
      /\ EndRun.ready = run.ready
  BY <1>1, <1>2 DEF RunType
<1>5. /\ EndOutcome \in Outcomes /\ (EndOutcome = "interrupted" <=> EndRun.interrupted)
      /\ EndOutcome = "skipped" => EndRun.ok
  BY <1>3 DEF EndOutcome, AttemptOutcome, Outcomes, RunType
<1>6. EndFault \in BOOLEAN
  BY <1>3 DEF EndFault, RunType
<1> QED  BY <1>3, <1>4, <1>5, <1>6

(* The tests that the result ends: those that the beforeAll skipped, which *)
(* are to come nowhere else, and those of a suite that failed for the last *)
(* time, after which the worker goes.                                      *)
LEMMA EndedTests ==
  ASSUME IInv, at = "close"
  PROVE  /\ Omitted \subseteq Tests /\ Blocked \subseteq Tests
         /\ Omitted \subseteq operation.skipped /\ (Omitted # {} => suites.skipped = {})
         /\ Blocked # {} => Exhausted /\ suites.retire
         /\ attempt.test \notin Omitted
<1>1. /\ EndRun \in RunType /\ EndRun.cause = run.cause /\ EndRun.suite = run.suite /\ EndRun.ok = run.ok
      /\ EndOutcome = "skipped" => run.ok
  BY EndFacts
<1>2. /\ operation.skipped \subseteq Tests /\ attempt.test \notin operation.skipped
      /\ run.ok => suites.skipped = {}
      /\ run.suite # 0 => suites.retire
      /\ run.cause # 0 => run.ok \/ suites.retire
  BY DEF IInv, TypeInv, DriveInv, Working
<1>3. Omitted \subseteq operation.skipped /\ (Omitted # {} => suites.skipped = {})
  BY <1>1, <1>2 DEF Omitted, Clean
<1>4. Failed # 0 => suites.retire
  BY <1>1, <1>2 DEF Failed
<1>5. Blocked \subseteq Tests /\ (Blocked # {} => Exhausted /\ suites.retire)
  BY <1>4 DEF Blocked, SuiteTests
<1> QED  BY <1>2, <1>3, <1>5

(* An ordinary test is final exactly if it is not tried again.             *)
LEMMA FinalTests ==
  ASSUME IInv, at = "close"
  PROVE  /\ finalized \subseteq Final /\ Final \subseteq finalized \cup {attempt.test} /\ Final \subseteq Tests
         /\ ~InSerialGroup(attempt.test) =>
              IF Retried(plan, EndOutcome, EndFault) THEN Final = finalized ELSE attempt.test \in Final
         /\ ~InSerialGroup(attempt.test) /\ Exhausted => attempt.test \in Final
<1>1. /\ decl \in Decls /\ PlanInv(decl, plan) /\ plan.active = attempt /\ attempt # NoAttempt /\ finalized \subseteq Tests
  BY DEF IInv, TypeInv, AttemptInv, Working
<1>2. attempt \in Attempts /\ attempt.test \in Tests /\ attempt.retry \in Nat /\ plan.decl = decl
  BY <1>1, PlanFields DEF Attempts
<1>3. ~InSerialGroup(attempt.test) => MaxRetries(decl, attempt.test) = decl.retries[attempt.test]
  BY <1>1, <1>2, RetriesOfUnit DEF InSerialGroup
<1>4. decl.retries[attempt.test] \in Nat
  BY <1>1, <1>2, DeclFacts
<1>5. ~InSerialGroup(attempt.test) =>
        (Exhausted <=> ~(attempt.retry < decl.retries[attempt.test]))
  BY <1>2, <1>3, <1>4 DEF Exhausted
<1>6. Retried(plan, EndOutcome, EndFault) <=>
        ~EndExpected /\ EndOutcome # "interrupted" /\ attempt.retry < decl.retries[attempt.test]
  BY <1>1, <1>2 DEF Retried, EndExpected
<1>7. EndOutcome = "interrupted" <=> EndRun.interrupted
  BY EndFacts
<1> QED  BY <1>1, <1>2, <1>5, <1>6, <1>7 DEF Final

(* FinishAttempt, by these names.                                          *)
Ends ==
  /\ at = "close" /\ at' = "retire" /\ run' = EndRun
  /\ plan' = ExcludeQueued(EndPlan, Omitted \cup Blocked)
  /\ reported' = reported \cup {attempt.test} /\ skipped' = skipped \cup Omitted
  /\ unrun' = unrun \cup (Blocked \ (Final \cup Omitted))
  /\ finalized' = Final \cup Omitted \cup Blocked
  /\ UNCHANGED <<decl, suites, host, worker, attempt, operation, stop>>

(* FinishAttempt is such a step, and the plan finishes the attempt.        *)
LEMMA FinishEnds ==
  ASSUME IInv, FinishAttempt
  PROVE  Ends /\ Finishes(decl, plan, EndPlan, worker, EndOutcome, EndFault)
<1>0. at = "close" /\ at' = "retire" /\ UNCHANGED <<decl, suites, host, worker, attempt, operation, stop>>
  BY DEF FinishAttempt
<1>1. /\ PlanInv(decl, plan) /\ plan.active # NoAttempt /\ worker \in Nat
      /\ EndOutcome \in Outcomes /\ EndFault \in BOOLEAN
  BY <1>0, EndFacts DEF IInv, TypeInv, AttemptInv, Working
<1>2. Finishes(decl, plan, EndPlan, worker, EndOutcome, EndFault)
  BY <1>1, FinishKeeps DEF EndPlan
<1>3. Last(EndPlan.results).expected = EndExpected
  <2>1. /\ EndPlan.results = Append(plan.results, ResultOf(plan, worker, EndOutcome, EndFault))
        /\ ResultOf(plan, worker, EndOutcome, EndFault) \in Result
    BY <1>2 DEF Finishes
  <2>2. plan.results \in Seq(Result)
    BY <1>1, PlanFields
  <2>3. Last(EndPlan.results) = ResultOf(plan, worker, EndOutcome, EndFault)
    BY <2>1, <2>2, SMTT(40) DEF Last
  <2> QED  BY <2>3 DEF ResultOf, EndExpected
<1>4. /\ run' = EndRun
      /\ plan' = ExcludeQueued(EndPlan, Omitted \cup Blocked)
      /\ reported' = reported \cup {attempt.test} /\ skipped' = skipped \cup Omitted
      /\ unrun' = unrun \cup (Blocked \ (Final \cup Omitted))
      /\ finalized' = Final \cup Omitted \cup Blocked
  BY <1>3 DEF FinishAttempt, EndRun, EndOutcome, EndFault, EndPlan, Exhausted, Final, Clean, Omitted, Failed, Blocked
<1> QED  BY <1>0, <1>2, <1>4, SMTT(40) DEF Ends

(* FinishAttempt: a group that is left without members has had its last    *)
(* wave, for else the attempt's own test is left.                          *)
LEMMA EndExcludes ==
  ASSUME IInv, Ends, Finishes(decl, plan, EndPlan, worker, EndOutcome, EndFault)
  PROVE  Excludes(decl, EndPlan, plan', Omitted \cup Blocked)
<1>0. at = "close" /\ plan' = ExcludeQueued(EndPlan, Omitted \cup Blocked)
  BY DEF Ends
<1>1. /\ decl \in Decls /\ PlanInv(decl, plan) /\ plan.active = attempt /\ attempt # NoAttempt
  BY <1>0 DEF IInv, TypeInv, AttemptInv, Working
<1>2. attempt \in Attempts /\ attempt.test \in Tests /\ attempt.retry \in Nat /\ plan.decl = decl
  BY <1>1, PlanFields DEF Attempts
<1>3. /\ Omitted \cup Blocked \in SUBSET Tests /\ attempt.test \notin Omitted /\ (Blocked # {} => Exhausted)
  BY <1>0, EndedTests
<1>4. PlanInv(decl, EndPlan) /\ EndPlan.active = NoAttempt
  BY DEF Finishes
<1>5. ASSUME NEW u \in SerialUnits(decl), Started(EndPlan.group[u])
      PROVE  \/ \E m \in Members(decl, u) : m \notin EndPlan.group[u].excluded \cup (Omitted \cup Blocked)
             \/ ~(EndPlan.group[u].retry < MaxRetries(decl, u))
  <2>1. /\ u = Unit(decl, attempt.test) /\ EndPlan.group[u].retry = attempt.retry
        /\ EndPlan.group[u].excluded = plan.group[u].excluded
    BY <1>1, <1>5 DEF Finishes
  <2>2. IsSerial(decl, u)
    BY DEF SerialUnits
  <2>3. CASE Blocked # {}
    <3>1. attempt.retry >= MaxRetries(decl, attempt.test)
      BY <1>3, <2>3 DEF Exhausted
    <3>2. MaxRetries(decl, u) = MaxRetries(decl, attempt.test) /\ MaxRetries(decl, attempt.test) \in Nat
      BY <1>1, <1>2, <2>1, <2>2, RetriesOfUnit
    <3> QED  BY <1>2, <2>1, <3>1, <3>2
  <2>4. CASE Blocked = {}
    <3>1. attempt.test \notin plan.group[u].excluded
      BY <1>1, <1>2, <2>1, <2>2 DEF PlanInv, ActiveInv
    <3>2. attempt.test \in Members(decl, u)
      BY <1>2, <2>1, UnitOfTest
    <3> QED  BY <1>3, <2>1, <2>4, <3>1, <3>2
  <2> QED  BY <2>3, <2>4
<1> QED  BY <1>0, <1>3, <1>4, <1>5, ExcludeQueuedKeeps

(* FinishAttempt: the result is the last of its worker if it is unexpected, *)
(* for then the plan wants the worker to go.                               *)
LEMMA EndWorkers ==
  ASSUME IInv, Ends, Finishes(decl, plan, EndPlan, worker, EndOutcome, EndFault),
         Excludes(decl, EndPlan, plan', Omitted \cup Blocked)
  PROVE  WorkerInv'
<1> DEFINE r == ResultOf(plan, worker, EndOutcome, EndFault)
<1>0. at = "close" /\ at' = "retire" /\ worker' = worker /\ host # "none"
  BY DEF Ends, IInv, AttemptInv, Working
<1>1. plan'.results = Append(plan.results, r) /\ r \in Result /\ r.worker = worker /\ r.expected = EndExpected
  BY DEF Excludes, Finishes, ResultOf, EndExpected
<1>2. Len(plan.results) \in Nat /\ plan.results \in Seq(Result) /\ worker \in Nat
  BY PlanFields DEF IInv, TypeInv
<1> HIDE DEF r
<1>3. Len(plan'.results) = Len(plan.results) + 1
  BY <1>1, <1>2
<1>4. \A i \in 1 .. Len(plan'.results) : plan'.results[i] = IF i <= Len(plan.results) THEN plan.results[i] ELSE r
  BY <1>1, <1>2
<1>5. ~Unclean /\ worker <= Len(plan.results) + 1
  BY <1>0 DEF IInv, WorkerInv
<1>6. \A i \in 1 .. Len(plan'.results) : plan'.results[i].worker <= worker
  <2>1. \A i \in 1 .. Len(plan.results) : plan.results[i].worker <= worker
    BY DEF IInv, WorkerInv
  <2> QED  BY <1>1, <1>2, <1>3, <1>4, <2>1
<1>7. ASSUME NEW i \in 1 .. Len(plan'.results), NEW j \in 1 .. Len(plan'.results), i < j,
             plan'.results[i].worker = plan'.results[j].worker
      PROVE  plan'.results[i].expected
  <2>1. i \in 1 .. Len(plan.results) /\ plan'.results[i] = plan.results[i]
    BY <1>2, <1>3, <1>4, <1>7
  <2>2. CASE j \in 1 .. Len(plan.results)
    BY <1>2, <1>4, <1>7, <2>1, <2>2, SMTT(40) DEF IInv, WorkerInv
  <2>3. CASE j \notin 1 .. Len(plan.results)
    <3>1. plan'.results[j] = r
      BY <1>2, <1>3, <1>4, <2>3
    <3> QED  BY <1>1, <1>5, <1>7, <2>1, <3>1 DEF Unclean
  <2> QED  BY <2>2, <2>3
<1>8. Unclean' => NeedsWorkerRetirement(plan')
  <2>1. ASSUME NEW i \in 1 .. Len(plan'.results), plan'.results[i].worker = worker, ~plan'.results[i].expected
        PROVE  ~r.expected
    <3>1. CASE i \in 1 .. Len(plan.results)
      <4>1. plan'.results[i] = plan.results[i]
        BY <1>2, <1>4, <3>1
      <4> QED  BY <1>5, <2>1, <3>1, <4>1 DEF Unclean
    <3>2. CASE i \notin 1 .. Len(plan.results)
      BY <1>2, <1>3, <1>4, <2>1, <3>2
    <3> QED  BY <3>1, <3>2
  <2>2. ~r.expected => NeedsWorkerRetirement(EndPlan)
    BY <1>1 DEF Finishes, EndExpected
  <2>3. NeedsWorkerRetirement(EndPlan) => NeedsWorkerRetirement(plan')
    BY DEF Excludes
  <2> QED  BY <1>0, <2>1, <2>2, <2>3 DEF Unclean
<1> QED  BY <1>0, <1>2, <1>3, <1>5, <1>6, <1>7, <1>8 DEF WorkerInv

(* FinishAttempt: the plan takes nothing for final that the coroutine does *)
(* not, and no test that is to come in this worker is final.               *)
LEMMA EndFinals ==
  ASSUME IInv, Ends, Finishes(decl, plan, EndPlan, worker, EndOutcome, EndFault),
         Excludes(decl, EndPlan, plan', Omitted \cup Blocked)
  PROVE  FinalInv'
<1>0. at = "close" /\ at' = "retire" /\ Live /\ decl' = decl /\ suites' = suites
  BY DEF Ends, Live
<1>1. /\ skipped' = skipped \cup Omitted /\ unrun' = unrun \cup (Blocked \ (Final \cup Omitted))
      /\ finalized' = Final \cup Omitted \cup Blocked
  BY DEF Ends
<1>2. /\ finalized \subseteq Final /\ Final \subseteq finalized \cup {attempt.test}
      /\ ~InSerialGroup(attempt.test) /\ ~Retried(plan, EndOutcome, EndFault) => attempt.test \in Final
  BY <1>0, FinalTests
<1>3. /\ skipped \cup unrun \subseteq finalized /\ skipped \cap unrun = {} /\ plan.finalized \subseteq finalized
      /\ \A u \in SerialUnits(decl) :
           /\ plan.group[u].excluded \subseteq finalized
           /\ Over(plan.group[u]) => Members(decl, u) \subseteq finalized
      /\ suites.retire \/ (Later(suites) \cup suites.skipped) \cap finalized = {}
      /\ operation.skipped \cap (finalized \cup Later(suites)) = {}
  BY <1>0 DEF IInv, FinalInv, Working
<1>4. /\ Omitted \subseteq operation.skipped /\ (Omitted # {} => suites.skipped = {})
      /\ Blocked # {} => suites.retire
      /\ attempt.test \notin Omitted
  BY <1>0, EndedTests
<1>5. attempt.test \notin Later(suites) \cup operation.skipped /\ suites.skipped \subseteq operation.skipped
  BY <1>0 DEF IInv, DriveInv
<1>6. skipped' \cup unrun' \subseteq finalized' /\ skipped' \cap unrun' = {}
  BY <1>1, <1>2, <1>3, <1>4
<1>7. plan'.finalized \subseteq finalized'
  <2>1. plan.active = attempt
    BY <1>0 DEF IInv, AttemptInv, Working
  <2>2. EndPlan.finalized \subseteq Final
    BY <1>2, <1>3, <2>1 DEF Finishes, InSerialGroup
  <2>3. plan'.finalized \subseteq EndPlan.finalized \cup (Omitted \cup Blocked)
    BY DEF Excludes
  <2> QED  BY <1>1, <2>2, <2>3
<1>8. ASSUME NEW u \in SerialUnits(decl)
      PROVE  /\ plan'.group[u].excluded \subseteq finalized'
             /\ Over(plan'.group[u]) => Members(decl, u) \subseteq finalized'
  <2>1. EndPlan.group[u].excluded = plan.group[u].excluded /\ (Over(EndPlan.group[u]) => Over(plan.group[u]))
    BY DEF Finishes
  <2>2. /\ plan'.group[u].excluded = EndPlan.group[u].excluded \cup ((Omitted \cup Blocked) \cap Members(decl, u))
        /\ Over(plan'.group[u]) => Over(EndPlan.group[u]) \/ plan'.group[u].excluded = Members(decl, u)
    BY DEF Excludes
  <2>3. plan'.group[u].excluded \subseteq finalized'
    BY <1>1, <1>2, <1>3, <2>1, <2>2
  <2> QED  BY <1>1, <1>2, <1>3, <2>1, <2>2, <2>3
<1>9. suites.retire \/ (Later(suites) \cup suites.skipped) \cap finalized' = {}
  BY <1>1, <1>2, <1>3, <1>4, <1>5
<1> QED  BY <1>0, <1>6, <1>7, <1>8, <1>9 DEF FinalInv, Working

(* FinishAttempt without serial groups: the tests that were reported and   *)
(* are not final are those that wait for a retry.                          *)
LEMMA EndLegacy ==
  ASSUME IInv, Ends, Finishes(decl, plan, EndPlan, worker, EndOutcome, EndFault),
         Excludes(decl, EndPlan, plan', Omitted \cup Blocked)
  PROVE  LegacyInv'
<1>0. at = "close" /\ at' = "retire" /\ Live /\ decl' = decl /\ suites' = suites /\ at \in Working
  BY DEF Ends, Live, Working
<1>1. /\ skipped' = skipped \cup Omitted /\ unrun' = unrun \cup (Blocked \ (Final \cup Omitted))
      /\ finalized' = Final \cup Omitted \cup Blocked /\ reported' = reported \cup {attempt.test}
  BY DEF Ends
<1> SUFFICES ASSUME Legacy(decl)
             PROVE  LegacyInv'
  BY <1>0 DEF LegacyInv
<1>2. /\ PlanInv(decl, plan) /\ plan.active = attempt /\ attempt # NoAttempt
  BY <1>0 DEF IInv, AttemptInv
<1>3. attempt \in Attempts /\ attempt.test \in Tests /\ NoAttempt.test = 0 /\ 0 \notin Tests
  BY <1>2, PlanFields, TestNumbers
<1>4. ~InSerialGroup(attempt.test)
  BY <1>3, UnitOfTest DEF InSerialGroup
<1>5. /\ finalized \subseteq Final /\ Final \subseteq finalized \cup {attempt.test} /\ Final \subseteq Tests
      /\ IF Retried(plan, EndOutcome, EndFault) THEN Final = finalized ELSE attempt.test \in Final
      /\ Exhausted => attempt.test \in Final
  BY <1>0, <1>4, FinalTests
<1>6. /\ Omitted \subseteq operation.skipped /\ (Blocked # {} => Exhausted) /\ attempt.test \notin Omitted
      /\ Omitted \subseteq Tests /\ Blocked \subseteq Tests
  BY <1>0, EndedTests
<1>7. /\ reported \cap (skipped \cup unrun) = {} /\ attempt.test \notin finalized
      /\ \A k \in 1 .. Len(plan.queue) : plan.queue[k].test \notin finalized
      /\ \A t \in reported \ finalized : t = attempt.test
      /\ (Later(suites) \cup suites.skipped) \cap reported = {} /\ operation.skipped \cap reported = {}
  BY <1>0 DEF IInv, LegacyInv
<1>8. skipped \cup unrun \subseteq finalized
  BY <1>0 DEF IInv, FinalInv
<1>9. reported' \cap (skipped' \cup unrun') = {}
  BY <1>1, <1>5, <1>6, <1>7, <1>8
<1>10. ASSUME NEW k \in 1 .. Len(plan'.queue) PROVE plan'.queue[k].test \notin finalized'
  <2>1. PICK j \in 1 .. Len(EndPlan.queue) :
          EndPlan.queue[j].test = plan'.queue[k].test /\ plan'.queue[k].test \notin Omitted \cup Blocked
    BY DEF Excludes
  <2>2. EndPlan.queue = plan.queue
    <3>1. EndPlan.queue # <<>>
      BY <2>1
    <3> QED  BY <3>1 DEF Finishes
  <2>3. plan.queue[j].test # attempt.test
    BY <1>2, <2>1, <2>2 DEF PlanInv, QueueInv, Waits
  <2> QED  BY <1>1, <1>5, <1>7, <2>1, <2>2, <2>3
<1>11. /\ plan'.again \in {EndPlan.again, NoAttempt} /\ plan'.again.test \notin Omitted \cup Blocked
       /\ EndPlan.again # NoAttempt /\ EndPlan.again.test \notin Omitted \cup Blocked => plan'.again = EndPlan.again
  BY DEF Excludes
<1>12. EndPlan.again # NoAttempt => EndPlan.again.test = attempt.test /\ Retried(plan, EndOutcome, EndFault)
  BY <1>2 DEF Finishes
<1>13. Retried(plan, EndOutcome, EndFault) =>
         EndPlan.again # NoAttempt /\ EndPlan.again.test = attempt.test
  <2>1. Retried(plan, EndOutcome, EndFault) => EndPlan.again = Attempt(attempt.test, attempt.retry + 1)
    BY <1>2, <1>4 DEF Finishes, InSerialGroup
  <2>2. Attempt(attempt.test, attempt.retry + 1).test = attempt.test
    BY DEF Attempt
  <2> QED  BY <1>3, <2>1, <2>2
<1>14. plan'.again.test \notin finalized'
  <2>1. CASE plan'.again = NoAttempt
    BY <1>1, <1>3, <1>5, <1>6, <2>1
  <2>2. CASE plan'.again # NoAttempt
    BY <1>1, <1>5, <1>7, <1>11, <1>12, <2>2
  <2> QED  BY <2>1, <2>2
<1>15. ASSUME NEW t \in reported' \ finalized' PROVE t = plan'.again.test
  <2>1. t = attempt.test
    BY <1>1, <1>5, <1>7
  <2>2. Retried(plan, EndOutcome, EndFault) /\ t \notin Omitted \cup Blocked
    BY <1>1, <1>5, <2>1
  <2> QED  BY <1>11, <1>13, <2>1, <2>2
<1>16. (Later(suites) \cup suites.skipped) \cap reported' = {}
  <2>1. attempt.test \notin Later(suites) \cup operation.skipped /\ suites.skipped \subseteq operation.skipped
    BY <1>0 DEF IInv, DriveInv
  <2> QED  BY <1>1, <1>7, <2>1
<1> QED  BY <1>0, <1>9, <1>10, <1>14, <1>15, <1>16 DEF LegacyInv, Working

(* FinishAttempt.                                                          *)
LEMMA FinishAttemptKeeps ==
  ASSUME IInv, FinishAttempt
  PROVE  IInv'
<1>1. Ends /\ Finishes(decl, plan, EndPlan, worker, EndOutcome, EndFault)
  BY FinishEnds
<1>2. Excludes(decl, EndPlan, plan', Omitted \cup Blocked)
  BY <1>1, EndExcludes
<1>3. at = "close" /\ at' = "retire" /\ UNCHANGED <<decl, suites, host, worker, attempt, operation, stop>>
  BY <1>1 DEF Ends
<1>4. /\ EndRun \in RunType /\ EndRun.before = run.before /\ EndRun.ready = run.ready /\ run' = EndRun
      /\ Omitted \subseteq Tests /\ Blocked \subseteq Tests /\ Final \subseteq Tests
  BY <1>1, <1>3, EndFacts, EndedTests, FinalTests DEF Ends
<1>5. PlanInv(decl, plan)' /\ SuiteInv(suites)'
  BY <1>2, <1>3 DEF IInv, Excludes
<1>6. attempt # NoAttempt /\ attempt.test \in Tests
  BY <1>3, PlanFields DEF IInv, AttemptInv, Working
<1>7. TypeInv'
  BY <1>1, <1>3, <1>4, <1>6 DEF IInv, TypeInv, Ends
<1>8. AttemptInv'
  BY <1>2, <1>3, <1>6 DEF AttemptInv, Excludes, Working
<1>9. WorkerInv' /\ FinalInv' /\ LegacyInv'
  BY <1>1, <1>2, EndWorkers, EndFinals, EndLegacy
<1>10. DriveInv'
  BY <1>3, <1>4 DEF IInv, DriveInv, Working
<1> QED  BY <1>5, <1>7, <1>8, <1>9, <1>10 DEF IInv

(* The plan after the worker has exited, if it had to.                     *)
Rests(q) ==
  /\ PlanInv(decl, q) /\ q.active = NoAttempt /\ q.results = plan.results /\ q.finalized = plan.finalized
  /\ \A u \in SerialUnits(decl) : q.group[u].excluded = plan.group[u].excluded
  /\ Legacy(decl) => IF NeedsWorkerRetirement(plan) THEN Leaves(decl, plan, q) ELSE q = plan

(* Retire leaves such a plan.                                              *)
LEMMA RetireRests ==
  ASSUME IInv, Retire
  PROVE  /\ Rests(plan') /\ (~Retires => plan' = plan)
         /\ finalized' = finalized \cup {t \in Tests : Finalized(plan', t)}
<1> DEFINE p == ActualWorkerExited(plan, worker)
<1>0. /\ plan' = IF ~Retires THEN plan ELSE IF NeedsWorkerRetirement(p) THEN WorkerExited(p) ELSE p
      /\ finalized' = finalized \cup {t \in Tests : Finalized(plan', t)}
  BY DEF Retire
<1>1. PlanInv(decl, plan) /\ plan.active = NoAttempt /\ worker \in Nat
  BY DEF Retire, IInv, TypeInv, AttemptInv
<1>2. Exits(decl, plan, p, worker)
  <2> HIDE DEF p
  <2> QED  BY <1>1, ActualWorkerExitedKeeps DEF p
<1> HIDE DEF p
<1>3. /\ PlanInv(decl, p) /\ p.active = NoAttempt /\ p.results = plan.results /\ p.finalized = plan.finalized
      /\ \A u \in SerialUnits(decl) : p.group[u].excluded = plan.group[u].excluded
      /\ Legacy(decl) => p = plan
  BY <1>1, <1>2 DEF Exits
<1>4. CASE ~Retires
  <2>1. ~NeedsWorkerRetirement(plan)
    BY <1>4 DEF Retires
  <2> QED  BY <1>0, <1>1, <1>4, <2>1 DEF Rests
<1>5. CASE Retires /\ ~NeedsWorkerRetirement(p)
  BY <1>0, <1>3, <1>5 DEF Rests
<1>6. CASE Retires /\ NeedsWorkerRetirement(p)
  <2>1. plan' = WorkerExited(p)
    BY <1>0, <1>6
  <2>2. Leaves(decl, p, plan')
    BY <1>3, <2>1, WorkerExitedKeeps
  <2>3. /\ PlanInv(decl, plan') /\ plan'.active = p.active /\ plan'.results = p.results /\ plan'.finalized = p.finalized
        /\ \A u \in SerialUnits(decl) : plan'.group[u].excluded = p.group[u].excluded
    BY <2>2 DEF Leaves
  <2>4. Legacy(decl) => NeedsWorkerRetirement(plan) /\ Leaves(decl, plan, plan')
    BY <1>3, <1>6, <2>2
  <2> QED  BY <1>0, <1>3, <1>6, <2>3, <2>4 DEF Rests
<1> QED  BY <1>4, <1>5, <1>6

(* Retire without serial groups: the retry that waits for the exit is next *)
(* in the queue.                                                           *)
LEMMA RetireLegacy ==
  ASSUME IInv, Legacy(decl), at = "retire", Rests(plan'), finalized' = finalized
  PROVE  /\ \A k \in 1 .. Len(plan'.queue) : plan'.queue[k].test \notin finalized
         /\ plan'.again.test \notin finalized
         /\ \A t \in reported \ finalized : plan'.queue # <<>> /\ Head(plan'.queue).test = t
<1>1. /\ \A k \in 1 .. Len(plan.queue) : plan.queue[k].test \notin finalized
      /\ plan.again.test \notin finalized
      /\ \A t \in reported \ finalized : t = plan.again.test
      /\ PlanInv(decl, plan) /\ reported \subseteq Tests /\ finalized \subseteq Tests
  BY DEF IInv, LegacyInv, Live, TypeInv, Working
<1>2. plan.queue \in Seq(Attempts) /\ plan.again \in MaybeAttempt /\ NoAttempt.test = 0 /\ plan.decl = decl
  BY <1>1, PlanFields
<1>3. 0 \notin Tests
  BY TestNumbers
<1>4. plan.again # NoAttempt => plan.again \in Attempts /\ NeedsWorkerRetirement(plan)
  <2>1. plan.again # NoAttempt =>
          plan.again \in Attempts /\ plan.again.test \in Tests /\ plan.retiring = Unit(decl, plan.again.test)
    BY <1>1, <1>2, PlanFields DEF PlanInv, AgainInv
  <2>2. plan.again # NoAttempt => plan.retiring # 0
    BY <2>1, UnitOfTest
  <2> QED  BY <2>1, <2>2 DEF NeedsWorkerRetirement
<1>5. CASE plan.again = NoAttempt
  <2>1. plan'.queue = plan.queue /\ plan'.again = NoAttempt
    BY <1>5 DEF Rests, Leaves
  <2>2. reported \ finalized = {}
    BY <1>1, <1>2, <1>3, <1>5
  <2> QED  BY <1>1, <1>5, <2>1, <2>2
<1>6. CASE plan.again # NoAttempt
  <2>1. plan'.queue = <<plan.again>> \o plan.queue /\ plan'.again = NoAttempt
    BY <1>4, <1>6 DEF Rests, Leaves
  <2>2. <<plan.again>> \in Seq(Attempts) /\ Len(<<plan.again>>) = 1 /\ <<plan.again>>[1] = plan.again
    BY <1>4, <1>6
  <2>3. /\ plan'.queue \in Seq(Attempts) /\ Len(plan'.queue) = 1 + Len(plan.queue)
        /\ \A k \in 1 .. 1 + Len(plan.queue) :
             plan'.queue[k] = IF k <= 1 THEN <<plan.again>>[k] ELSE plan.queue[k - 1]
    BY <1>2, <2>1, <2>2, ConcatElements
  <2>4. Len(plan.queue) \in Nat
    BY <1>2
  <2>5. plan'.queue[1] = plan.again
    BY <2>2, <2>3, <2>4
  <2>6. plan'.queue # <<>> /\ Head(plan'.queue) = plan'.queue[1]
    BY <2>3, <2>4
  <2>7. ASSUME NEW k \in 1 .. Len(plan'.queue) PROVE plan'.queue[k].test \notin finalized
    <3>1. CASE k = 1
      BY <1>1, <2>5, <3>1
    <3>2. CASE k # 1
      <4>1. k - 1 \in 1 .. Len(plan.queue) /\ plan'.queue[k] = plan.queue[k - 1]
        BY <2>3, <2>4, <3>2
      <4> QED  BY <1>1, <4>1
    <3> QED  BY <3>1, <3>2
  <2>8. plan'.again.test \notin finalized
    BY <1>1, <1>2, <1>3, <2>1
  <2> QED  BY <1>1, <2>5, <2>6, <2>7, <2>8
<1> QED  BY <1>5, <1>6

(* Retire: what the plan finalizes the coroutine takes for final, and a    *)
(* worker that stays had no unexpected result.                             *)
LEMMA RetireStepKeeps ==
  ASSUME IInv, Retire
  PROVE  IInv'
<1>0. /\ at = "retire" /\ at' \in {"loop", "report"} /\ attempt' = NoAttempt
      /\ suites' = (IF Retires THEN NoSuites ELSE suites) /\ host' = (IF Retires THEN "none" ELSE host)
      /\ UNCHANGED <<decl, worker, operation, run, stop, reported, unrun, skipped>>
  BY DEF Retire
<1>1. /\ Rests(plan') /\ (~Retires => plan' = plan)
      /\ finalized' = finalized \cup {t \in Tests : Finalized(plan', t)}
  BY RetireRests
<1>2. /\ PlanInv(decl, plan') /\ plan'.active = NoAttempt /\ plan'.results = plan.results
      /\ plan'.finalized = plan.finalized
      /\ \A u \in SerialUnits(decl) : plan'.group[u].excluded = plan.group[u].excluded
  BY <1>1 DEF Rests
<1>3. decl \in Decls /\ SuiteInv(suites) /\ finalized \subseteq Tests
  BY DEF IInv, TypeInv
<1>4. SuiteInv(suites') /\ (Retires => Later(suites') = {} /\ suites'.skipped = {})
  <2>1. {} \in SUBSET Tests
    OBVIOUS
  <2> QED  BY <1>0, <1>3, <2>1, FreshSuites DEF NoSuites
<1>5. TypeInv'
  BY <1>0, <1>1 DEF IInv, TypeInv, MaybeAttempt
<1>6. AttemptInv'
  BY <1>0, <1>2 DEF AttemptInv, Working
<1>7. WorkerInv'
  <2>1. host' # "none" => ~Unclean
    BY <1>0 DEF IInv, WorkerInv, Retires
  <2>2. Unclean' <=> Unclean
    BY <1>0, <1>2 DEF Unclean
  <2> QED  BY <1>0, <1>2, <2>1, <2>2 DEF IInv, WorkerInv
<1>8. DriveInv'
  BY <1>0 DEF IInv, DriveInv, Working
<1>9. FinalInv'
  <2>1. /\ skipped \cup unrun \subseteq finalized /\ skipped \cap unrun = {} /\ plan.finalized \subseteq finalized
        /\ \A u \in SerialUnits(decl) :
             /\ plan.group[u].excluded \subseteq finalized
             /\ Over(plan.group[u]) => Members(decl, u) \subseteq finalized
        /\ suites.retire \/ (Later(suites) \cup suites.skipped) \cap finalized = {}
    BY <1>0 DEF IInv, FinalInv, Live
  <2>2. plan'.decl = decl
    BY <1>2, PlanFields
  <2>3. ASSUME NEW u \in SerialUnits(decl), Over(plan'.group[u]) PROVE Members(decl, u) \subseteq finalized'
    <3>1. ASSUME NEW t \in Members(decl, u) PROVE t \in finalized'
      <4>1. t \in Tests /\ Unit(decl, t) = u /\ IsSerial(decl, u)
        BY DEF Members, SerialUnits
      <4>2. ~Legacy(decl)
        BY <4>1, UnitOfTest
      <4>3. Finalized(plan', t)
        BY <2>2, <2>3, <4>1, <4>2 DEF Finalized
      <4> QED  BY <1>1, <4>1, <4>3
    <3> QED  BY <3>1
  <2>4. suites'.retire \/ (Later(suites') \cup suites'.skipped) \cap finalized' = {}
    <3>1. CASE Retires
      BY <1>4, <3>1
    <3>2. CASE ~Retires
      <4>1. ~suites.retire /\ suites' = suites /\ plan' = plan
        BY <1>0, <1>1, <3>2 DEF Retires
      <4>2. ASSUME NEW t \in Tests, Finalized(plan, t) PROVE t \in finalized
        <5>1. plan.decl = decl /\ (IsSerial(decl, Unit(decl, t)) => Unit(decl, t) \in SerialUnits(decl))
              /\ t \in Members(decl, Unit(decl, t))
          BY <2>2, <4>1, UnitOfTest
        <5> QED  BY <2>1, <4>2, <5>1 DEF Finalized
      <4>3. finalized' = finalized
        BY <1>1, <4>1, <4>2
      <4> QED  BY <2>1, <4>1, <4>3
    <3> QED  BY <3>1, <3>2
  <2>5. /\ skipped' \cup unrun' \subseteq finalized' /\ skipped' \cap unrun' = {}
        /\ plan'.finalized \subseteq finalized'
        /\ \A u \in SerialUnits(decl) : plan'.group[u].excluded \subseteq finalized'
    BY <1>0, <1>1, <1>2, <2>1
  <2> QED  BY <1>0, <2>3, <2>4, <2>5 DEF FinalInv, Working
<1>10. LegacyInv'
  <2> SUFFICES ASSUME Legacy(decl)
               PROVE  LegacyInv'
    BY <1>0 DEF LegacyInv
  <2>1. finalized' = finalized
    <3>1. plan'.decl = decl
      BY <1>2, PlanFields
    <3> QED  BY <1>1, <3>1 DEF Finalized
  <2>2. /\ \A k \in 1 .. Len(plan'.queue) : plan'.queue[k].test \notin finalized
        /\ plan'.again.test \notin finalized
        /\ \A t \in reported \ finalized : plan'.queue # <<>> /\ Head(plan'.queue).test = t
    BY <1>0, <1>1, <2>1, RetireLegacy
  <2>3. (Later(suites') \cup suites'.skipped) \cap reported = {}
    <3>1. (Later(suites) \cup suites.skipped) \cap reported = {}
      BY <1>0 DEF IInv, LegacyInv
    <3> QED  BY <1>0, <1>4, <3>1
  <2>4. reported \cap (skipped \cup unrun) = {}
    BY DEF IInv, LegacyInv
  <2> QED  BY <1>0, <2>1, <2>2, <2>3, <2>4 DEF LegacyInv, Working
<1> QED  BY <1>0, <1>2, <1>4, <1>5, <1>6, <1>7, <1>8, <1>9, <1>10 DEF IInv

-----------------------------------------------------------------------------
(* The theorems.                                                           *)

(* The run begins with every test queued, in the worker that loaded them.  *)
LEMMA InitKeeps ==
  ASSUME Init
  PROVE  IInv
<1>1. /\ decl \in Decls /\ plan = InitPlan(decl) /\ suites = NoSuites /\ host = "live" /\ worker = 1
      /\ at = "loop" /\ attempt = NoAttempt /\ operation = NoOp /\ run = InitRun /\ stop = FALSE
      /\ finalized = {} /\ reported = {} /\ unrun = {} /\ skipped = {}
  BY DEF Init
<1>2. /\ PlanInv(decl, plan) /\ plan.active = NoAttempt /\ plan.again = NoAttempt /\ plan.results = <<>>
      /\ plan.finalized = {}
      /\ \A u \in SerialUnits(decl) : plan.group[u].excluded = {} /\ ~Over(plan.group[u])
  BY <1>1, InitPlanKeeps
<1>3. SuiteInv(suites) /\ Later(suites) = {} /\ suites.skipped = {}
  <2>1. {} \in SUBSET Tests
    OBVIOUS
  <2> QED  BY <1>1, <2>1, FreshSuites DEF NoSuites
<1>4. TypeInv
  <2>1. InitRun \in RunType
    BY DEF InitRun, RunType
  <2>2. NoOp.skipped = {}
    BY DEF NoOp, Op
  <2>3. NoAttempt \in MaybeAttempt /\ 1 \in Nat \ {0}
    BY DEF MaybeAttempt
  <2> QED  BY <1>1, <2>1, <2>2, <2>3 DEF TypeInv
<1>5. AttemptInv
  BY <1>1, <1>2 DEF AttemptInv, Working
<1>6. WorkerInv
  <2>1. Len(plan.results) = 0
    BY <1>2
  <2> QED  BY <1>1, <2>1 DEF WorkerInv, Unclean
<1>7. DriveInv
  BY <1>1 DEF DriveInv, InitRun
<1>8. FinalInv
  BY <1>1, <1>2, <1>3 DEF FinalInv, Working
<1>9. LegacyInv
  BY <1>1, <1>3 DEF LegacyInv, Working
<1> QED  BY <1>2, <1>3, <1>4, <1>5, <1>6, <1>7, <1>8, <1>9 DEF IInv

(* Every step keeps the invariant.                                         *)
LEMMA NextKeeps ==
  ASSUME IInv, [Next]_vars
  PROVE  IInv'
<1>1. CASE Runner
  BY <1>1, ThrowsKeep, StartAttemptKeeps, PrepareOutputKeeps, BeforeAllKeeps, ArriveKeeps, StartBodyKeeps, RunBodyKeeps,
     NoBodyKeeps, DecideKeeps, AfterAllKeeps, FinishAttemptKeeps, RetireStepKeeps, LoopEndsKeeps, MarkUnrunKeeps DEF Runner
<1>2. CASE RequestStop
  <2>1. stop' = TRUE /\ UNCHANGED <<decl, planVars, host, worker, at, attempt, operation, run, reportVars>>
    BY <1>2 DEF RequestStop
  <2> QED  BY <2>1, QuietKeeps
<1>3. CASE UNCHANGED vars
  <2>1. stop' = stop /\ UNCHANGED <<decl, planVars, host, worker, at, attempt, operation, run, reportVars>>
    BY <1>3 DEF vars
  <2>2. stop \in BOOLEAN
    BY DEF IInv, TypeInv
  <2> QED  BY <2>1, <2>2, QuietKeeps
<1> QED  BY <1>1, <1>2, <1>3 DEF Next

(* The invariant that the two theorems below rest on holds in every        *)
(* reachable state of RunNestedHooks.                                      *)
THEOREM IInvHolds == Spec => []IInv
BY InitKeeps, NextKeeps, PTL DEF Spec

(* What the invariant says of the attempts.                                *)
LEMMA InvariantAttempts ==
  ASSUME IInv
  PROVE  AttemptsSound
<1>1. plan.results \in Seq(Result) /\ Len(plan.results) \in Nat /\ DOMAIN plan.results = 1 .. Len(plan.results)
  BY PlanFields DEF IInv
<1>2. TypeOK
  <2>1. worker \in 1 .. Len(plan.results) + 1
    BY <1>1 DEF IInv, TypeInv, WorkerInv
  <2>2. attempt \in [test : Tests \cup {0}, retry : Nat]
    BY DEF IInv, TypeInv, MaybeAttempt, Attempts, NoAttempt, Attempt
  <2>3. suites.index \in 1 .. Len(suites.routes) + 1
    BY DEF IInv, SuiteInv
  <2> QED  BY <2>1, <2>2, <2>3 DEF IInv, TypeInv, AttemptInv, Working, TypeOK
<1>3. FreshAfterFailure
  BY <1>1 DEF IInv, WorkerInv, FreshAfterFailure
<1>4. RetriesIncrease
  BY <1>1 DEF IInv, PlanInv, Increasing, RetriesIncrease
<1> QED  BY <1>2, <1>3, <1>4 DEF AttemptsSound

(* The attempts of RunNestedHooks are sound whatever the suite file        *)
(* declares and however hooks, bodies, workers and stops behave: each is   *)
(* the one that the retry plan has selected, a test's attempts come in the *)
(* order of their retries and none twice, and no worker makes another      *)
(* after an unexpected result.                                             *)
THEOREM AttemptsAreSound == Spec => []AttemptsSound
BY InvariantAttempts, IInvHolds, PTL

(* What the invariant says of the report.                                  *)
LEMMA InvariantReport ==
  ASSUME IInv
  PROVE  EveryTestReported
BY DEF IInv, FinalInv, LegacyInv, EveryTestReported

(* However the run ends, every declared test is in the report: attempted,  *)
(* skipped by a beforeAll or marked unrun, never both of the last two, and *)
(* without serial groups in exactly one of the three.                      *)
THEOREM AllReported == Spec => []EveryTestReported
BY InvariantReport, IInvHolds, PTL

=============================================================================
