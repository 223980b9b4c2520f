---------------------------- MODULE GroupRunProofs ----------------------------
(***************************************************************************)
(* What a parallel run keeps, for every accepted plan and any number of    *)
(* projects, groups, lock names and workers.  Beside PoolInv, the          *)
(* inductive invariant IInv has                                            *)
(*   LeaseInv  the groups with a slot are the holders of the leases, each  *)
(*             of them of all its names, and a lease outlives its owner's  *)
(*             place in the pool;                                          *)
(*   SlotInv   the slots, and when there are none;                         *)
(*   ActorInv  what an actor's place says about its worker, and that a     *)
(*             process, a member of the batch, and a worker of the pool    *)
(*             are each the next one's;                                    *)
(*   StageInv  the stop reaches the pool only through the coordinator and  *)
(*             the drain, and which exceptions there are.                  *)
(***************************************************************************)
EXTENDS GroupRun, DataLemmas

-----------------------------------------------------------------------------
(* The pool: what each of its operations keeps, for every plan that its    *)
(* constructor accepts.  PoolInv is kept by every operation that the       *)
(* coordinator calls where it calls it, and Settles says that no operation *)
(* revises what a dependent may already have acted on.                     *)

PoolType ==
  [plan : AcceptedPlans, stopped : BOOLEAN, projects : [Projects -> States],
   groups : [Groups -> States], started : SUBSET Projects, active : SUBSET Groups,
   worker : SUBSET Groups, begun : SUBSET Groups,
   outcome : [Groups -> Outcomes \cup {NoOutcome}],
   retired : SUBSET Groups, canceled : SUBSET Groups]

(* A group's state says what became of its owner. *)
GroupInv(po) ==
  \A g \in Groups :
    /\ po.groups[g] = "Running" <=> g \in po.active
    /\ po.groups[g] \in Outcomes <=> g \in po.retired
    /\ po.outcome[g] # NoOutcome <=> g \in po.retired
    /\ g \in po.canceled => po.groups[g] = "NotRun" /\ g \notin po.begun
    /\ po.groups[g] = "NotRun" => po.stopped
    /\ po.groups[g] # "NotSelected"
    /\ g \in po.worker => g \in po.active \cap po.begun
    /\ g \in po.begun => g \in po.active \cup po.retired
    /\ g \in po.retired => g \in po.begun
    /\ g \in po.active /\ po.stopped => g \in po.begun

(* A project's state says what became of its groups. *)
ProjectSound(po, p) ==
  LET mine == ByProject(po.plan, p) IN
  /\ po.projects[p] \in Unsettled <=> \E g \in mine : po.groups[g] \in Unsettled
  /\ po.projects[p] = "NotSelected" <=> mine = {}
  /\ po.projects[p] = "Passed" => \A g \in mine : po.groups[g] = "Passed"
  /\ po.projects[p] \in {"Failed", "Interrupted", "NotRun"} =>
       \E g \in mine : po.groups[g] \in {"Failed", "Interrupted", "NotRun"}
  /\ po.projects[p] = "NotRun" => po.stopped
  /\ IF po.projects[p] = "Blocked"
     THEN /\ \A g \in mine : po.groups[g] = "Blocked"
          /\ \E d \in Dependencies(po, p) : po.projects[d] \in {"Failed", "Interrupted", "Blocked"}
     ELSE \A g \in mine : po.groups[g] # "Blocked"
ProjectInv(po) == \A p \in Projects : ProjectSound(po, p)

(* A group was admitted after what its project waits for. *)
RanAfter(po, g) ==
  \A q \in Projects :
    /\ q \in Dependencies(po, po.plan.project[g]) => po.projects[q] = "Passed"
    /\ IsTeardown(po, po.plan.project[g]) /\ ~IsTeardown(po, q) => po.projects[q] \notin Unsettled
Admitted(po) == po.active \cup po.retired \cup po.canceled
OrderInv(po) == \A g \in Admitted(po) : RanAfter(po, g)

PoolInv(po) == po \in PoolType /\ GroupInv(po) /\ ProjectInv(po) /\ OrderInv(po)

(* What has settled stays as it is, and a stop is for good. *)
Settles(po, q) ==
  /\ q.plan = po.plan /\ (po.stopped => q.stopped)
  /\ \A p \in Projects : po.projects[p] \notin Unsettled => q.projects[p] = po.projects[p]
  /\ \A g \in Groups : po.groups[g] \notin Unsettled => q.groups[g] = po.groups[g]

-----------------------------------------------------------------------------
(* The plan of a pool gives every group its project.                        *)
LEMMA PlanFacts ==
  ASSUME NEW po \in PoolType
  PROVE  /\ po.plan \in PlanType
         /\ \A g \in Groups : po.plan.project[g] \in Projects /\ g \in ByProject(po.plan, po.plan.project[g])
         /\ \A p \in Projects : ByProject(po.plan, p) \subseteq Groups
         /\ \A p \in Projects : \A g \in ByProject(po.plan, p) : po.plan.project[g] = p
         /\ \A p \in Projects : Dependencies(po, p) \subseteq Projects
BY DEF PoolType, AcceptedPlans, PlanType, ByProject, Dependencies

(* UpdateProject's result is Passed only if every group passed, and is      *)
(* unsettled as long as a group is.                                         *)
LEMMA ProjectStateMeans ==
  ASSUME NEW po, NEW p, NEW S, S = ProjectState(po, p),
         \A g \in ByProject(po.plan, p) : po.groups[g] \in States \ {"Blocked", "NotSelected"}
  PROVE  /\ S \in States \ {"Blocked", "NotSelected"}
         /\ S \in Unsettled <=> \E g \in ByProject(po.plan, p) : po.groups[g] \in Unsettled
         /\ S = "Passed" => \A g \in ByProject(po.plan, p) : po.groups[g] = "Passed"
         /\ S \in {"Failed", "Interrupted", "NotRun"} =>
              \E g \in ByProject(po.plan, p) : po.groups[g] \in {"Failed", "Interrupted", "NotRun"}
         /\ S = "NotRun" => \E g \in ByProject(po.plan, p) : po.groups[g] = "NotRun"
<1> DEFINE states == {po.groups[g] : g \in ByProject(po.plan, p)}
           begun == p \in po.started
<1>1. \A s : s \in states <=> \E g \in ByProject(po.plan, p) : po.groups[g] = s
  OBVIOUS
<1>2. states \subseteq Unsettled \cup Outcomes \cup {"NotRun"}
  BY DEF States
<1>a. S = CASE "Running" \in states -> "Running"
    [] "Running" \notin states /\ "Pending" \in states -> IF begun THEN "Running" ELSE "Pending"
    [] states \cap Unsettled = {} /\ "Failed" \in states -> "Failed"
    [] states \cap (Unsettled \cup {"Failed"}) = {} /\ "Interrupted" \in states -> "Interrupted"
    [] states \cap (Unsettled \cup {"Failed", "Interrupted"}) = {} /\ "NotRun" \in states ->
         IF begun THEN "Interrupted" ELSE "NotRun"
    [] OTHER -> "Passed"
  BY DEF ProjectState
<1> HIDE DEF states, begun
<1>3. CASE "Running" \in states
  <2>1. S = "Running"
    BY <1>a, <1>3 DEF Unsettled
  <2> QED
    BY <2>1, <1>1, <1>3 DEF States, Unsettled, Outcomes
<1>4. CASE "Running" \notin states /\ "Pending" \in states
  <2>1. S \in Unsettled
    BY <1>a, <1>4 DEF Unsettled
  <2> QED
    BY <2>1, <1>1, <1>4 DEF States, Unsettled, Outcomes
<1>5. CASE states \cap Unsettled = {} /\ "Failed" \in states
  <2>1. S = "Failed"
    BY <1>a, <1>5 DEF Unsettled
  <2> QED
    BY <2>1, <1>1, <1>5 DEF States, Unsettled, Outcomes
<1>6. CASE states \cap (Unsettled \cup {"Failed"}) = {} /\ "Interrupted" \in states
  <2>1. S = "Interrupted"
    BY <1>a, <1>6 DEF Unsettled
  <2> QED
    BY <2>1, <1>1, <1>6 DEF States, Unsettled, Outcomes
<1>7. CASE states \cap (Unsettled \cup {"Failed", "Interrupted"}) = {} /\ "NotRun" \in states
  <2>1. S \in {"Interrupted", "NotRun"}
    BY <1>a, <1>7 DEF Unsettled
  <2> QED
    BY <2>1, <1>1, <1>7 DEF States, Unsettled, Outcomes
<1>8. CASE states \subseteq {"Passed"}
  <2>1. S = "Passed"
    BY <1>a, <1>8 DEF Unsettled
  <2> QED
    BY <2>1, <1>1, <1>8 DEF States, Unsettled, Outcomes
<1> QED
  BY <1>2, <1>3, <1>4, <1>5, <1>6, <1>7, <1>8 DEF Unsettled, Outcomes

-----------------------------------------------------------------------------
(* The order of admissions only depends on what has settled.                *)
LEMMA OrderStays ==
  ASSUME NEW po \in PoolType, NEW q \in PoolType, NEW g \in Groups,
         Settles(po, q), RanAfter(po, g)
  PROVE  RanAfter(q, g)
<1>1. \A p \in Projects : Dependencies(q, p) = Dependencies(po, p) /\ (IsTeardown(q, p) <=> IsTeardown(po, p))
  BY DEF Settles, Dependencies, IsTeardown
<1>2. po.plan.project[g] \in Projects
  BY PlanFacts
<1>3. "Passed" \notin Unsettled
  BY DEF Unsettled
<1> QED
  BY <1>1, <1>2, <1>3 DEF RanAfter, Settles

(* Admissions stay in order when a step makes none.                        *)
LEMMA AdmissionsStay ==
  ASSUME NEW po \in PoolType, NEW q \in PoolType, Settles(po, q), OrderInv(po),
         Admitted(q) \subseteq Admitted(po)
  PROVE  OrderInv(q)
BY OrderStays DEF OrderInv, Admitted, PoolType

(* A project whose groups an operation leaves alone. *)
LEMMA UntouchedProject ==
  ASSUME NEW po \in PoolType, NEW q \in PoolType, Settles(po, q), NEW p \in Projects,
         ProjectSound(po, p), q.projects[p] = po.projects[p],
         \A g \in ByProject(po.plan, p) : q.groups[g] = po.groups[g]
  PROVE  ProjectSound(q, p)
<1>1. ByProject(q.plan, p) = ByProject(po.plan, p)
  BY DEF Settles
<1>2. Dependencies(q, p) = Dependencies(po, p) /\ Dependencies(po, p) \subseteq Projects
  BY PlanFacts DEF Settles, Dependencies
<1>3. \A d \in Projects : po.projects[d] \in {"Failed", "Interrupted", "Blocked"} => q.projects[d] = po.projects[d]
  BY DEF Settles, Unsettled
<1>4. po.stopped => q.stopped
  BY DEF Settles
<1> QED
  BY <1>1, <1>2, <1>3, <1>4 DEF ProjectSound

(* A project that UpdateProject computes anew. *)
LEMMA RecomputedProject ==
  ASSUME NEW po, NEW q \in PoolType, NEW p \in Projects, GroupInv(q),
         po.plan = q.plan, po.groups = q.groups, q.projects[p] = ProjectState(po, p),
         ByProject(q.plan, p) # {},
         \A g \in ByProject(q.plan, p) : q.groups[g] # "Blocked"
  PROVE  ProjectSound(q, p)
<1>1. ByProject(q.plan, p) \subseteq Groups
  BY PlanFacts
<1>2. \A g \in ByProject(po.plan, p) : po.groups[g] \in States \ {"Blocked", "NotSelected"}
  BY <1>1 DEF PoolType, GroupInv
<1> DEFINE S == ProjectState(po, p)
<1>3. /\ S \in States \ {"Blocked", "NotSelected"}
      /\ S \in Unsettled <=> \E g \in ByProject(po.plan, p) : po.groups[g] \in Unsettled
      /\ S = "Passed" => \A g \in ByProject(po.plan, p) : po.groups[g] = "Passed"
      /\ S \in {"Failed", "Interrupted", "NotRun"} =>
           \E g \in ByProject(po.plan, p) : po.groups[g] \in {"Failed", "Interrupted", "NotRun"}
      /\ S = "NotRun" => \E g \in ByProject(po.plan, p) : po.groups[g] = "NotRun"
  BY <1>2, ProjectStateMeans
<1>4. q.projects[p] = S
  OBVIOUS
<1> HIDE DEF S
<1>5. S = "NotRun" => q.stopped
  BY <1>1, <1>3 DEF GroupInv
<1> QED
  BY <1>3, <1>4, <1>5 DEF ProjectSound

(* Admit, of a pending group whose project may run. *)
LEMMA AdmitPool ==
  ASSUME NEW po, PoolInv(po), NEW g \in Groups, NEW q, q = Admit(po, g),
         po.groups[g] = "Pending", ~po.stopped, RanAfter(po, g)
  PROVE  /\ PoolInv(q) /\ Settles(po, q)
         /\ q.stopped = po.stopped /\ q.active = po.active \cup {g} /\ q.worker = po.worker
         /\ q.begun = po.begun /\ q.retired = po.retired /\ q.canceled = po.canceled
         /\ q.outcome = po.outcome
<1> DEFINE pg == po.plan.project[g]
<1>1. po \in PoolType /\ GroupInv(po) /\ ProjectInv(po) /\ OrderInv(po)
  BY DEF PoolInv
<1>2. pg \in Projects /\ g \in ByProject(po.plan, pg)
  BY <1>1, PlanFacts
<1>3. /\ q \in PoolType
      /\ q.plan = po.plan /\ q.stopped = po.stopped /\ q.active = po.active \cup {g}
      /\ q.worker = po.worker /\ q.begun = po.begun /\ q.retired = po.retired
      /\ q.canceled = po.canceled /\ q.outcome = po.outcome /\ q.started = po.started
      /\ q.groups = [po.groups EXCEPT ![g] = "Running"]
      /\ q.projects = [po.projects EXCEPT ![pg] = "Running"]
  BY <1>1, <1>2 DEF Admit, PoolType, States, Unsettled
<1>4. po.projects[pg] \in Unsettled
  BY <1>1, <1>2 DEF ProjectInv, ProjectSound, Unsettled
<1>5. /\ \A h \in Groups : q.groups[h] = IF h = g THEN "Running" ELSE po.groups[h]
      /\ \A p \in Projects : q.projects[p] = IF p = pg THEN "Running" ELSE po.projects[p]
  BY <1>1, <1>2, <1>3 DEF PoolType
<1>6. Settles(po, q)
  BY <1>1, <1>3, <1>4, <1>5 DEF Settles, Unsettled
<1>7. GroupInv(q)
  <2> SUFFICES ASSUME NEW h \in Groups
               PROVE  GroupInv(q)!(h)
    BY DEF GroupInv
  <2> QED
    BY <1>1, <1>3, <1>5 DEF GroupInv, Outcomes
<1>8. ProjectInv(q)
  <2> SUFFICES ASSUME NEW p \in Projects
               PROVE  ProjectSound(q, p)
    BY DEF ProjectInv
  <2>0. ByProject(q.plan, p) = ByProject(po.plan, p) /\ ByProject(po.plan, p) \subseteq Groups
    BY <1>1, <1>3, PlanFacts
  <2>1. CASE p = pg
    <3>1. q.projects[p] = "Running" /\ g \in ByProject(po.plan, p) /\ q.groups[g] = "Running"
      BY <1>2, <1>5, <2>1
    <3>2. \A h \in ByProject(po.plan, p) : q.groups[h] # "Blocked"
      BY <1>1, <1>4, <1>5, <2>0, <2>1 DEF ProjectInv, ProjectSound, Unsettled
    <3> QED
      BY <2>0, <3>1, <3>2 DEF ProjectSound, Unsettled
  <2>2. CASE p # pg
    <3>1. g \notin ByProject(po.plan, p)
      BY <1>1, <2>2, PlanFacts
    <3>2. q.projects[p] = po.projects[p] /\ \A h \in ByProject(po.plan, p) : q.groups[h] = po.groups[h]
      BY <1>5, <2>0, <2>2, <3>1
    <3>3. ProjectSound(po, p)
      BY <1>1 DEF ProjectInv
    <3> QED
      BY <1>1, <1>3, <1>6, <3>2, <3>3, UntouchedProject
  <2> QED
    BY <2>1, <2>2
<1>9. OrderInv(q)
  BY <1>1, <1>3, <1>6, OrderStays DEF OrderInv, Admitted, PoolType
<1> QED
  BY <1>3, <1>6, <1>7, <1>8, <1>9 DEF PoolInv

(* Block, of an open project one of whose dependencies did not pass: none   *)
(* of its groups has begun, so that Block does not throw.                   *)
LEMMA BlockPool ==
  ASSUME NEW po, PoolInv(po), NEW p \in Projects, NEW q, q = Block(po, p),
         MayBlock(po, p), ~po.stopped
  PROVE  /\ ~BlockThrows(po, p)
         /\ PoolInv(q) /\ Settles(po, q)
         /\ q.stopped = po.stopped /\ q.active = po.active /\ q.worker = po.worker
         /\ q.begun = po.begun /\ q.retired = po.retired /\ q.canceled = po.canceled
<1> DEFINE mine == ByProject(po.plan, p)
<1>1. po \in PoolType /\ GroupInv(po) /\ ProjectInv(po) /\ OrderInv(po)
  BY DEF PoolInv
<1>2. PICK d \in Dependencies(po, p) : po.projects[d] \notin Unsettled \cup {"Passed"}
  BY DEF MayBlock, FailedDependency
<1>3. d \in Projects /\ mine \subseteq Groups /\ \A g \in mine : po.plan.project[g] = p
  BY <1>1, <1>2, PlanFacts
<1>4. po.projects[p] \in Unsettled
  BY DEF MayBlock, Open
<1>5. \A g \in mine : po.groups[g] = "Pending"
  <2> SUFFICES ASSUME NEW g \in mine
               PROVE  po.groups[g] = "Pending"
    OBVIOUS
  <2>1. g \notin Admitted(po)
    BY <1>1, <1>2, <1>3 DEF OrderInv, RanAfter
  <2>2. po.groups[g] # "Blocked"
    BY <1>1, <1>4 DEF ProjectInv, ProjectSound, Unsettled
  <2>3. g \in Groups /\ po.groups[g] \in States
    BY <1>1, <1>3 DEF PoolType
  <2> QED
    BY <1>1, <2>1, <2>2, <2>3 DEF GroupInv, Admitted, States, Unsettled
<1>6. mine # {} /\ po.projects[d] \in {"Failed", "Interrupted", "Blocked"}
  <2>1. mine # {}
    BY <1>1, <1>4 DEF ProjectInv, ProjectSound
  <2>2. ~po.plan.ignore /\ d \in po.plan.deps[p]
    BY <1>2 DEF Dependencies
  <2>3. ByProject(po.plan, d) # {}
    <3>1. p \in Selected(po.plan)
      BY <2>1 DEF Selected
    <3>2. d \in Selected(po.plan)
      BY <1>1, <2>2, <3>1 DEF PoolType, AcceptedPlans
    <3> QED
      BY <3>2 DEF Selected
  <2>4. po.projects[d] # "NotSelected" /\ po.projects[d] # "NotRun"
    BY <1>1, <1>3, <2>3, SMTT(40), ZenonT(60) DEF ProjectInv, ProjectSound
  <2> QED
    BY <1>1, <1>2, <1>3, <2>1, <2>4 DEF PoolType, States, Outcomes
<1>7. /\ q \in PoolType
      /\ q.plan = po.plan /\ q.stopped = po.stopped /\ q.active = po.active
      /\ q.worker = po.worker /\ q.begun = po.begun /\ q.retired = po.retired
      /\ q.canceled = po.canceled /\ q.outcome = po.outcome /\ q.started = po.started
      /\ q.groups = [g \in Groups |-> IF g \in mine THEN "Blocked" ELSE po.groups[g]]
      /\ q.projects = [po.projects EXCEPT ![p] = "Blocked"]
  BY <1>1 DEF Block, PoolType, States
<1>8. /\ \A g \in Groups : q.groups[g] = IF g \in mine THEN "Blocked" ELSE po.groups[g]
      /\ \A r \in Projects : q.projects[r] = IF r = p THEN "Blocked" ELSE po.projects[r]
  BY <1>1, <1>7 DEF PoolType
<1> HIDE DEF mine
<1>9. Settles(po, q)
  BY <1>4, <1>5, <1>7, <1>8 DEF Settles, Unsettled
<1>10. GroupInv(q)
  <2> SUFFICES ASSUME NEW h \in Groups
               PROVE  GroupInv(q)!(h)
    BY DEF GroupInv
  <2> QED
    BY <1>1, <1>5, <1>7, <1>8 DEF GroupInv, Outcomes
<1>11. ProjectInv(q)
  <2> SUFFICES ASSUME NEW r \in Projects
               PROVE  ProjectSound(q, r)
    BY DEF ProjectInv
  <2>1. CASE r = p
    <3>1. ByProject(q.plan, r) = mine /\ Dependencies(q, r) = Dependencies(po, p)
      BY <1>7, <2>1 DEF mine, Dependencies
    <3>2. q.projects[r] = "Blocked" /\ \A g \in mine : q.groups[g] = "Blocked"
      BY <1>3, <1>8, <2>1
    <3>3. q.projects[d] \in {"Failed", "Interrupted", "Blocked"}
      BY <1>3, <1>6, <1>8
    <3> QED
      BY <1>2, <1>6, <3>1, <3>2, <3>3 DEF ProjectSound, Unsettled
  <2>2. CASE r # p
    <3>1. \A g \in ByProject(po.plan, r) : g \in Groups /\ g \notin mine
      BY <1>1, <1>3, <2>2, PlanFacts
    <3>2. q.projects[r] = po.projects[r] /\ \A h \in ByProject(po.plan, r) : q.groups[h] = po.groups[h]
      BY <1>8, <2>2, <3>1
    <3>3. ProjectSound(po, r)
      BY <1>1 DEF ProjectInv
    <3> QED
      BY <1>1, <1>7, <1>9, <3>2, <3>3, UntouchedProject
  <2> QED
    BY <2>1, <2>2
<1>12. OrderInv(q)
  BY <1>1, <1>7, <1>9, AdmissionsStay DEF Admitted
<1> QED
  BY <1>5, <1>7, <1>9, <1>10, <1>11, <1>12 DEF PoolInv, BlockThrows, mine

(* A step that only changes who has a worker. *)
LEMMA WorkersOnly ==
  ASSUME NEW po, PoolInv(po), NEW q \in PoolType, GroupInv(q),
         q.plan = po.plan, q.stopped = po.stopped, q.projects = po.projects, q.groups = po.groups,
         q.active = po.active, q.retired = po.retired, q.canceled = po.canceled
  PROVE  PoolInv(q) /\ Settles(po, q)
<1>1. po \in PoolType /\ ProjectInv(po) /\ OrderInv(po)
  BY DEF PoolInv
<1>2. Settles(po, q)
  BY DEF Settles
<1>3. ProjectInv(q)
  BY <1>1, <1>2, UntouchedProject DEF ProjectInv
<1>4. OrderInv(q)
  BY <1>1, <1>2, AdmissionsStay DEF Admitted
<1> QED
  BY <1>2, <1>3, <1>4 DEF PoolInv

(* WorkerStarted: the group runs in a process.                             *)
LEMMA StartPool ==
  ASSUME NEW po, PoolInv(po), NEW g \in Groups, MayStart(po, g), NEW q, q = WorkerStarted(po, g)
  PROVE  /\ PoolInv(q) /\ Settles(po, q)
         /\ q.stopped = po.stopped /\ q.active = po.active /\ q.worker = po.worker \cup {g}
         /\ q.begun = po.begun \cup {g} /\ q.retired = po.retired /\ q.canceled = po.canceled
<1>1. po \in PoolType /\ GroupInv(po)
  BY DEF PoolInv
<1>2. po.plan.project[g] \in Projects
  BY <1>1, PlanFacts
<1>3. /\ q \in PoolType
      /\ q.plan = po.plan /\ q.stopped = po.stopped /\ q.active = po.active
      /\ q.worker = po.worker \cup {g} /\ q.begun = po.begun \cup {g} /\ q.retired = po.retired
      /\ q.canceled = po.canceled /\ q.outcome = po.outcome
      /\ q.groups = po.groups /\ q.projects = po.projects
  BY <1>1, <1>2 DEF WorkerStarted, PoolType
<1>4. GroupInv(q)
  BY <1>1, <1>3 DEF GroupInv, MayStart, Outcomes
<1> QED
  BY <1>3, <1>4, WorkersOnly

(* WorkerExited, of an owner without an outcome: the group keeps its place. *)
LEMMA ExitPool ==
  ASSUME NEW po, PoolInv(po), NEW g \in Groups, MayExit(po, g), NEW q, q = WorkerExited(po, g)
  PROVE  /\ PoolInv(q) /\ Settles(po, q)
         /\ q.stopped = po.stopped /\ q.active = po.active /\ q.worker = po.worker \ {g}
         /\ q.begun = po.begun /\ q.retired = po.retired /\ q.canceled = po.canceled
<1>1. po \in PoolType /\ GroupInv(po)
  BY DEF PoolInv
<1>2. po.outcome[g] = NoOutcome
  BY <1>1 DEF GroupInv, MayExit, Outcomes
<1>3. q = [po EXCEPT !.worker = @ \ {g}]
  BY <1>1, <1>2 DEF WorkerExited, Retire, PoolType
<1>4. /\ q \in PoolType
      /\ q.plan = po.plan /\ q.stopped = po.stopped /\ q.active = po.active
      /\ q.worker = po.worker \ {g} /\ q.begun = po.begun /\ q.retired = po.retired
      /\ q.canceled = po.canceled /\ q.outcome = po.outcome
      /\ q.groups = po.groups /\ q.projects = po.projects
  BY <1>1, <1>3 DEF PoolType
<1>5. GroupInv(q)
  BY <1>1, <1>4 DEF GroupInv
<1> QED
  BY <1>4, <1>5, WorkersOnly

(* Complete, of an owner whose worker has gone: it retires, and its project *)
(* is computed anew.                                                        *)
LEMMA CompletePool ==
  ASSUME NEW po, PoolInv(po), NEW g \in Groups, MayComplete(po, g), g \notin po.worker,
         NEW o \in Outcomes, NEW q, q = Complete(po, g, o)
  PROVE  /\ PoolInv(q) /\ Settles(po, q)
         /\ q.stopped = po.stopped /\ q.active = po.active \ {g} /\ q.worker = po.worker
         /\ q.begun = po.begun /\ q.retired = po.retired \cup {g} /\ q.canceled = po.canceled
<1> DEFINE pg == po.plan.project[g]
           told == [po EXCEPT !.outcome[g] = o]
           gone == [told EXCEPT !.retired = @ \cup {g}, !.groups[g] = told.outcome[g], !.active = @ \ {g}]
<1>1. po \in PoolType /\ GroupInv(po) /\ ProjectInv(po) /\ OrderInv(po)
  BY DEF PoolInv
<1>2. pg \in Projects /\ g \in ByProject(po.plan, pg)
  BY <1>1, PlanFacts
<1>3. o # NoOutcome /\ o \in States /\ o \notin Unsettled \cup {"Blocked", "NotSelected", "NotRun"}
  BY DEF Outcomes, NoOutcome, States, Unsettled
<1>4. told.outcome[g] = o /\ told.worker = po.worker /\ told.plan = po.plan
  BY <1>1 DEF PoolType
<1>5. q = UpdateProject(gone, pg)
  BY <1>3, <1>4 DEF Complete, Retire
<1>6. /\ gone \in PoolType
      /\ gone.plan = po.plan /\ gone.stopped = po.stopped /\ gone.active = po.active \ {g}
      /\ gone.worker = po.worker /\ gone.begun = po.begun /\ gone.retired = po.retired \cup {g}
      /\ gone.canceled = po.canceled /\ gone.outcome = [po.outcome EXCEPT ![g] = o]
      /\ gone.groups = [po.groups EXCEPT ![g] = o] /\ gone.projects = po.projects
  BY <1>1, <1>3 DEF PoolType
<1> HIDE DEF gone, told
<1>7. po.groups[g] = "Running" /\ g \in po.active \cap po.begun
  BY <1>1 DEF GroupInv, MayComplete
<1>8. po.projects[pg] \in Unsettled /\ po.projects[pg] # "Blocked"
  BY <1>1, <1>2, <1>7 DEF ProjectInv, ProjectSound, Unsettled
<1>9. \A h \in ByProject(po.plan, pg) : gone.groups[h] \in States \ {"Blocked", "NotSelected"}
  <2>1. ByProject(po.plan, pg) \subseteq Groups
    BY <1>1, <1>2, PlanFacts
  <2>2. \A h \in ByProject(po.plan, pg) : po.groups[h] \in States \ {"Blocked", "NotSelected"}
    BY <1>1, <1>2, <1>8, <2>1 DEF PoolType, GroupInv, ProjectInv, ProjectSound
  <2> QED
    BY <1>1, <1>3, <1>6, <2>1, <2>2 DEF PoolType
<1>10. ProjectState(gone, pg) \in States
  BY <1>6, <1>9, ProjectStateMeans
<1>11. /\ q \in PoolType
       /\ q.plan = po.plan /\ q.stopped = po.stopped /\ q.active = po.active \ {g}
       /\ q.worker = po.worker /\ q.begun = po.begun /\ q.retired = po.retired \cup {g}
       /\ q.canceled = po.canceled /\ q.outcome = [po.outcome EXCEPT ![g] = o]
       /\ q.groups = gone.groups /\ q.projects = [po.projects EXCEPT ![pg] = ProjectState(gone, pg)]
  BY SMTT(40), <1>2, <1>5, <1>6, <1>10 DEF UpdateProject, PoolType
<1>12. /\ \A h \in Groups : q.groups[h] = IF h = g THEN o ELSE po.groups[h]
       /\ \A h \in Groups : q.outcome[h] = IF h = g THEN o ELSE po.outcome[h]
       /\ \A p \in Projects : q.projects[p] = IF p = pg THEN ProjectState(gone, pg) ELSE po.projects[p]
  BY <1>1, <1>2, <1>6, <1>11 DEF PoolType
<1> HIDE DEF pg
<1>13. Settles(po, q)
  BY <1>7, <1>8, <1>11, <1>12 DEF Settles, Unsettled
<1>14. GroupInv(q)
  <2> SUFFICES ASSUME NEW h \in Groups
               PROVE  GroupInv(q)!(h)
    BY DEF GroupInv
  <2>1. CASE h = g
    BY <1>1, <1>3, <1>7, <1>11, <1>12, <2>1 DEF GroupInv, Unsettled, Outcomes
  <2>2. CASE h # g
    BY <1>1, <1>11, <1>12, <2>2 DEF GroupInv
  <2> QED
    BY <2>1, <2>2
<1>15. ProjectInv(q)
  <2> SUFFICES ASSUME NEW p \in Projects
               PROVE  ProjectSound(q, p)
    BY DEF ProjectInv
  <2>1. CASE p = pg
    <3>1. q.projects[p] = ProjectState(gone, p)
      BY <1>12, <2>1
    <3>2. ByProject(q.plan, p) # {} /\ \A h \in ByProject(q.plan, p) : q.groups[h] # "Blocked"
      BY <1>2, <1>9, <1>11, <2>1
    <3>3. gone.plan = q.plan /\ gone.groups = q.groups
      BY <1>6, <1>11
    <3> QED
      BY <1>11, <1>14, <3>1, <3>2, <3>3, RecomputedProject
  <2>2. CASE p # pg
    <3>1. \A h \in ByProject(po.plan, p) : h \in Groups /\ h # g
      BY <1>1, <2>2, PlanFacts DEF pg
    <3>2. q.projects[p] = po.projects[p] /\ \A h \in ByProject(po.plan, p) : q.groups[h] = po.groups[h]
      BY <1>12, <2>2, <3>1
    <3>3. ProjectSound(po, p)
      BY <1>1 DEF ProjectInv
    <3> QED
      BY <1>1, <1>11, <1>13, <3>2, <3>3, UntouchedProject
  <2> QED
    BY <2>1, <2>2
<1>16. OrderInv(q)
  <2>1. Admitted(q) \subseteq Admitted(po)
    BY <1>7, <1>11 DEF Admitted
  <2> QED
    BY <1>1, <1>11, <1>13, <2>1, AdmissionsStay
<1> QED
  BY <1>11, <1>13, <1>14, <1>15, <1>16 DEF PoolInv

(* Stop: what never had a worker is canceled or not run. *)
LEMMA StopPool ==
  ASSUME NEW po, PoolInv(po), NEW q, q = Stop(po)
  PROVE  /\ PoolInv(q) /\ Settles(po, q)
         /\ q.stopped /\ q.active = po.active \cap q.begun /\ q.worker = po.worker
         /\ q.begun = po.begun /\ q.retired = po.retired
         /\ q.canceled = po.canceled \cup (po.active \ po.begun)
<1>1. po \in PoolType /\ GroupInv(po) /\ ProjectInv(po) /\ OrderInv(po)
  BY DEF PoolInv
<1>2. CASE po.stopped
  <2>1. q = po
    BY <1>2 DEF Stop
  <2>2. po.active \subseteq po.begun
    BY <1>1, <1>2 DEF GroupInv, PoolType
  <2> QED
    BY <1>2, <2>1, <2>2 DEF Settles
<1>3. CASE ~po.stopped
  <2> DEFINE never == po.active \ po.begun
             gone == StopGroups(po)
  <2>1. /\ gone \in PoolType
        /\ gone.plan = po.plan /\ gone.stopped = TRUE /\ gone.active = po.active \ never
        /\ gone.worker = po.worker /\ gone.begun = po.begun /\ gone.retired = po.retired
        /\ gone.canceled = po.canceled \cup never /\ gone.outcome = po.outcome
        /\ gone.projects = po.projects
        /\ gone.groups = [g \in Groups |-> IF g \in never \/ po.groups[g] = "Pending"
                                           THEN "NotRun" ELSE po.groups[g]]
    BY <1>1 DEF StopGroups, PoolType, States
  <2>2. q = [gone EXCEPT !.projects = [p \in Projects |-> IF @[p] \in Unsettled
                                                        THEN ProjectState(gone, p) ELSE @[p]]]
    BY <1>3 DEF Stop
  <2> HIDE DEF gone
  <2>3. \A g \in Groups : gone.groups[g] = IF g \in never \/ po.groups[g] = "Pending"
                                           THEN "NotRun" ELSE po.groups[g]
    BY <2>1
  <2> HIDE DEF never
  <2>4. ASSUME NEW p \in Projects, po.projects[p] \in Unsettled
        PROVE  /\ ByProject(po.plan, p) # {}
               /\ \A g \in ByProject(po.plan, p) : gone.groups[g] \in States \ {"Blocked", "NotSelected"}
    <3>1. ByProject(po.plan, p) \subseteq Groups
      BY <1>1, PlanFacts
    <3>2. ByProject(po.plan, p) # {} /\ \A g \in ByProject(po.plan, p) : po.groups[g] # "Blocked"
      BY <1>1, <2>4 DEF ProjectInv, ProjectSound, Unsettled
    <3>3. \A g \in Groups : po.groups[g] \in States \ {"NotSelected"}
      BY <1>1 DEF PoolType, GroupInv
    <3>4. "NotRun" \in States \ {"Blocked", "NotSelected"}
      BY DEF States
    <3> QED
      BY <2>3, <3>1, <3>2, <3>3, <3>4
  <2>5. \A p \in Projects : po.projects[p] \in Unsettled => ProjectState(gone, p) \in States
    BY <2>1, <2>4, ProjectStateMeans
  <2>6. /\ q \in PoolType
        /\ q.plan = po.plan /\ q.stopped = TRUE /\ q.active = po.active \ never
        /\ q.worker = po.worker /\ q.begun = po.begun /\ q.retired = po.retired
        /\ q.canceled = po.canceled \cup never /\ q.outcome = po.outcome
        /\ q.groups = gone.groups
        /\ q.projects = [p \in Projects |-> IF po.projects[p] \in Unsettled
                                            THEN ProjectState(gone, p) ELSE po.projects[p]]
    BY <1>1, <2>1, <2>2, <2>5 DEF PoolType
  <2>7. \A p \in Projects : q.projects[p] = IF po.projects[p] \in Unsettled
                                            THEN ProjectState(gone, p) ELSE po.projects[p]
    BY <2>6
  <2>8. \A g \in Groups : g \in never => po.groups[g] = "Running" /\ g \notin po.begun
    BY <1>1 DEF GroupInv, never
  <2>9. Settles(po, q)
    BY <2>3, <2>6, <2>7, <2>8 DEF Settles, Unsettled
  <2>10. GroupInv(q)
    <3> SUFFICES ASSUME NEW h \in Groups
                 PROVE  GroupInv(q)!(h)
      BY DEF GroupInv
    <3>1. q.groups[h] = IF h \in never \/ po.groups[h] = "Pending" THEN "NotRun" ELSE po.groups[h]
      BY <2>3, <2>6
    <3>2. h \in never <=> h \in po.active /\ h \notin po.begun
      BY DEF never
    <3>3. po.groups[h] = "Pending" => h \notin po.active \cup po.begun \cup po.retired \cup po.canceled
      BY <1>1 DEF GroupInv, Outcomes
    <3> QED
      BY <1>1, <2>6, <2>8, <3>1, <3>2, <3>3 DEF GroupInv, Outcomes
  <2>11. ProjectInv(q)
    <3> SUFFICES ASSUME NEW p \in Projects
                 PROVE  ProjectSound(q, p)
      BY DEF ProjectInv
    <3>1. CASE po.projects[p] \in Unsettled
      <4>1. q.projects[p] = ProjectState(gone, p)
        BY <2>7, <3>1
      <4>2. ByProject(q.plan, p) # {} /\ \A g \in ByProject(q.plan, p) : q.groups[g] # "Blocked"
        BY <2>4, <2>6, <3>1
      <4>3. gone.plan = q.plan /\ gone.groups = q.groups
        BY <2>1, <2>6
      <4> QED
        BY <2>6, <2>10, <4>1, <4>2, <4>3, RecomputedProject
    <3>2. CASE po.projects[p] \notin Unsettled
      <4>1. \A g \in ByProject(po.plan, p) : g \in Groups /\ po.groups[g] \notin Unsettled
        BY <1>1, <3>2, PlanFacts DEF ProjectInv, ProjectSound
      <4>2. q.projects[p] = po.projects[p] /\ \A g \in ByProject(po.plan, p) : q.groups[g] = po.groups[g]
        BY <2>9, <3>2, <4>1 DEF Settles
      <4>3. ProjectSound(po, p)
        BY <1>1 DEF ProjectInv
      <4> QED
        BY <1>1, <2>6, <2>9, <4>2, <4>3, UntouchedProject
    <3> QED
      BY <3>1, <3>2
  <2>12. OrderInv(q)
    <3>1. Admitted(q) \subseteq Admitted(po)
      BY <2>6 DEF Admitted, never
    <3> QED
      BY <1>1, <2>6, <2>9, <3>1, AdmissionsStay
  <2> QED
    BY <2>6, <2>9, <2>10, <2>11, <2>12, SMTT(40), ZenonT(60) DEF PoolInv, never
<1> QED
  BY <1>2, <1>3

-----------------------------------------------------------------------------
(* The run.                                                                *)

Down == {"drain", "failed", "refused"}
Working == {"loading", "executing", "closing"}

LeaseInv ==
  /\ locks \in [holders : [Names -> Groups \cup {0}], records : [Groups -> Receipts]]
  /\ \A g \in Groups :
       /\ locks.records[g] = "active" <=> g \in Range(slots)
       /\ locks.records[g] = "active" => g \in pool.active \cup pool.canceled
       /\ locks.records[g] = "none" => g \notin Admitted(pool)
       /\ locks.records[g] = "none" <=> actor[g] = "none"
       /\ locks.records[g] = "physicalRetired" => g \in pool.retired
       /\ locks.records[g] = "neverStarted" => g \in pool.canceled
       /\ \A n \in Names :
            locks.holders[n] = g <=> (locks.records[g] = "active" /\ n \in pool.plan.names[g])

(* No group has two slots. *)
Distinct(s) == \A i, j \in 1 .. Len(s) : s[i] = s[j] => i = j

SlotInv ==
  /\ slots \in Seq(Groups) /\ Len(slots) <= Workers /\ turn \in 1 .. Workers + 1
  /\ Distinct(slots)
  /\ stage \in {"next", "scan"} => Len(slots) < Workers
  /\ catalog \/ stage \in {"report", "published"} => slots = <<>>

(* The place of one actor, and what it says about its worker. *)
ActorSound(g) ==
  /\ g \in Range(slots) => actor[g] \notin {"none", "done"}
  /\ hosts[g] # 0 <=> g \in pool.begun
  /\ actor[g] = "reserved" => g \notin pool.begun
  /\ actor[g] = "retrying" => g \in planned /\ hosts[g] < MaxHosts
  /\ g \in pool.worker => actor[g] \in Working \cup {"arrived"}
  /\ g \in batch.members \ batch.arrived => actor[g] \in Working
  /\ actor[g] \in Working /\ stage \notin Down => g \in batch.members \ batch.arrived
  /\ actor[g] = "arrived" /\ stage \notin Down => g \in pool.worker

ActorInv ==
  /\ actor \in [Groups -> ActorStates] /\ hosts \in [Groups -> 0 .. MaxHosts]
  /\ planned \subseteq pool.begun
  /\ batch \in [members : SUBSET Groups, arrived : SUBSET Groups, retiring : BOOLEAN, gone : BOOLEAN]
  /\ batch.arrived \subseteq batch.members /\ batch.members \subseteq pool.worker
  /\ procs \subseteq batch.members \ batch.arrived
  /\ batch.retiring => batch.arrived = batch.members
  /\ batch.gone => batch.retiring
  /\ catalog => batch = NoBatch
  /\ \A g \in Groups : ActorSound(g)

StageInv ==
  /\ stop \in BOOLEAN /\ stage \in Stages /\ catalog \in BOOLEAN
  /\ cursor \in Projects \cup {0} /\ again \in BOOLEAN /\ news \subseteq Groups
  /\ stage = "scan" => ~pool.stopped
  /\ pool.stopped => stop \/ stage \in Down
  /\ stage \in Down => pool.stopped
  /\ stage \in {"report", "published"} => Done(pool)
  /\ failure # "none" => stage \in Down
  /\ failure \in {"none", "close", "descendants", "complete"}
  /\ failure = "complete" => pool.canceled # {}
  /\ failure # "none" => Faults \cap {"stuck", "start"} # {}

IInv == PoolInv(pool) /\ pool.plan \in Plans /\ LeaseInv /\ SlotInv /\ ActorInv /\ StageInv

-----------------------------------------------------------------------------
(* A slot after a concatenation is one of the first sequence or the second.*)
LEMMA ConcatSlots ==
  ASSUME NEW a \in Seq(Groups), NEW b \in Seq(Groups)
  PROVE  /\ a \o b \in Seq(Groups) /\ Len(a \o b) = Len(a) + Len(b)
         /\ \A i \in 1 .. Len(a) + Len(b) : (a \o b)[i] = IF i <= Len(a) THEN a[i] ELSE b[i - Len(a)]
BY ConcatProperties

(* RemoveAt takes one owner out of the slots and leaves the others in order.*)
LEMMA RemoveSlot ==
  ASSUME NEW s \in Seq(Groups), Distinct(s),
         NEW k \in 1 .. Len(s), NEW t, t = RemoveAt(s, k)
  PROVE  /\ t \in Seq(Groups) /\ Len(t) = Len(s) - 1
         /\ Distinct(t)
         /\ Range(t) = Range(s) \ {s[k]}
<1> DEFINE a == SubSeq(s, 1, k - 1)
           b == SubSeq(s, k + 1, Len(s))
<1>0. Len(s) \in Nat /\ \A i \in 1 .. Len(s) : s[i] \in Groups
  BY LenProperties
<1>1. a \in Seq(Groups) /\ Len(a) = k - 1 /\ \A i \in 1 .. k - 1 : a[i] = s[i]
  <2>1. \A i \in 1 .. k - 1 : s[i] \in Groups
    BY <1>0
  <2>2. /\ a \in Seq(Groups)
        /\ Len(a) = IF 1 <= k - 1 THEN (k - 1) - 1 + 1 ELSE 0
        /\ \A i \in 1 .. (k - 1) - 1 + 1 : a[i] = s[1 + i - 1]
    BY <2>1, SubSeqProperties
  <2> HIDE DEF a
  <2> QED
    BY <2>2
<1>2. b \in Seq(Groups) /\ Len(b) = Len(s) - k /\ \A i \in 1 .. Len(s) - k : b[i] = s[k + i]
  <2>1. \A i \in k + 1 .. Len(s) : s[i] \in Groups
    BY <1>0
  <2>2. /\ b \in Seq(Groups)
        /\ Len(b) = IF k + 1 <= Len(s) THEN Len(s) - (k + 1) + 1 ELSE 0
        /\ \A i \in 1 .. Len(s) - (k + 1) + 1 : b[i] = s[(k + 1) + i - 1]
    BY <1>0, <2>1, SubSeqProperties
  <2> HIDE DEF b
  <2> QED
    BY <1>0, <2>2
<1>3. t = a \o b
  BY DEF RemoveAt
<1> HIDE DEF a, b
<1>4. /\ t \in Seq(Groups) /\ Len(t) = Len(s) - 1
      /\ \A i \in 1 .. Len(s) - 1 : t[i] = IF i <= k - 1 THEN a[i] ELSE b[i - (k - 1)]
  <2>1. /\ a \o b \in Seq(Groups) /\ Len(a \o b) = Len(a) + Len(b)
        /\ \A i \in 1 .. Len(a) + Len(b) : (a \o b)[i] = IF i <= Len(a) THEN a[i] ELSE b[i - Len(a)]
    <3>1. a \in Seq(Groups) /\ b \in Seq(Groups)
      BY <1>1, <1>2
    <3> QED
      BY <3>1, ConcatSlots, Zenon
  <2>2. Len(a) + Len(b) = Len(s) - 1 /\ Len(a) = k - 1
    BY <1>0, <1>1, <1>2
  <2> QED
    BY <1>3, <2>1, <2>2
<1>5. \A i \in 1 .. Len(s) - 1 : t[i] = IF i < k THEN s[i] ELSE s[i + 1]
  <2> SUFFICES ASSUME NEW i \in 1 .. Len(s) - 1
               PROVE  t[i] = IF i < k THEN s[i] ELSE s[i + 1]
    OBVIOUS
  <2>1. CASE i < k
    <3>1. i \in 1 .. k - 1 /\ i <= k - 1
      BY <1>0, <2>1
    <3>2. t[i] = a[i] /\ a[i] = s[i]
      BY <1>1, <1>4, <3>1
    <3> QED
      BY <2>1, <3>2
  <2>2. CASE i >= k
    <3>1. i - (k - 1) \in 1 .. Len(s) - k /\ k + (i - (k - 1)) = i + 1
      BY <1>0, <2>2
    <3>2. t[i] = b[i - (k - 1)]
      BY <1>0, <1>4, <2>2
    <3>3. b[i - (k - 1)] = s[k + (i - (k - 1))]
      BY <1>2, <3>1
    <3> QED
      BY <1>0, <2>2, <3>1, <3>2, <3>3
  <2> QED
    BY <1>0, <2>1, <2>2
<1>6. Distinct(t)
  BY SMTT(40), <1>0, <1>4, <1>5 DEF Distinct
<1>7. Range(t) = Range(s) \ {s[k]}
  <2>0. DOMAIN t = 1 .. Len(s) - 1 /\ DOMAIN s = 1 .. Len(s)
    BY <1>4, LenProperties
  <2>1. Range(t) \subseteq Range(s) \ {s[k]}
    BY <1>0, <1>5, <2>0 DEF Range, Distinct
  <2>2. ASSUME NEW x \in Range(s), x # s[k]
        PROVE  x \in Range(t)
    <3>1. PICK i \in 1 .. Len(s) : x = s[i] /\ i # k
      BY <2>0, <2>2 DEF Range
    <3>2. CASE i < k
      BY <1>0, <1>5, <2>0, <3>1, <3>2 DEF Range
    <3>3. CASE i > k
      <4>1. i - 1 \in 1 .. Len(s) - 1 /\ t[i - 1] = s[i]
        BY <1>0, <1>5, <3>3
      <4> QED
        BY <2>0, <3>1, <4>1 DEF Range
    <3> QED
      BY <1>0, <3>1, <3>2, <3>3
  <2> QED
    BY <2>1, <2>2
<1> QED
  BY <1>4, <1>6, <1>7

(* No more owners than slots. *)
LEMMA SlotCount ==
  ASSUME NEW s \in Seq(Groups)
  PROVE  IsFiniteSet(Range(s)) /\ Cardinality(Range(s)) <= Len(s)
<1>1. Len(s) \in Nat /\ s \in [1 .. Len(s) -> Groups] /\ DOMAIN s = 1 .. Len(s)
  BY LenProperties
<1>2. s \in Surjection(1 .. Len(s), Range(s))
  BY <1>1 DEF Surjection, Range
<1>3. IsFiniteSet(1 .. Len(s)) /\ Cardinality(1 .. Len(s)) = Len(s)
  BY <1>1, FS_Interval, SMTT(40), ZenonT(60)
<1> QED
  BY <1>2, <1>3, FS_Surjection

-----------------------------------------------------------------------------
(* What the proof shows of every step: the invariant stays, what has        *)
(* settled stays, and a pool that has stopped gets no process.              *)
StepSound ==
  /\ IInv' /\ Settles(pool, pool')
  /\ pool.stopped => procs' \subseteq procs

(* What an operation of the pool that moves no worker leaves alone. *)
PoolQuiet(po, q) ==
  /\ PoolInv(q) /\ Settles(po, q)
  /\ q.worker = po.worker /\ q.begun = po.begun /\ q.retired = po.retired
  /\ q.active \cup q.canceled = po.active \cup po.canceled /\ po.canceled \subseteq q.canceled

(* A pool that stays as it is is quiet.                                    *)
LEMMA SameIsQuiet ==
  ASSUME NEW po, PoolInv(po)
  PROVE  PoolQuiet(po, po)
BY DEF PoolQuiet, Settles

(* WorkGroupPool::Stop moves no worker and settles nothing.                *)
LEMMA StopIsQuiet ==
  ASSUME NEW po, PoolInv(po)
  PROVE  PoolQuiet(po, Stop(po)) /\ Stop(po).stopped
<1> DEFINE q == Stop(po)
<1>1. /\ PoolInv(q) /\ Settles(po, q)
      /\ q.stopped /\ q.active = po.active \cap q.begun /\ q.worker = po.worker
      /\ q.begun = po.begun /\ q.retired = po.retired
      /\ q.canceled = po.canceled \cup (po.active \ po.begun)
  BY StopPool
<1> HIDE DEF q
<1>2. q.active \cup q.canceled = po.active \cup po.canceled /\ po.canceled \subseteq q.canceled
  BY <1>1
<1>3. PoolQuiet(po, q) /\ q.stopped
  BY <1>1, <1>2 DEF PoolQuiet
<1> QED
  BY <1>3 DEF q

(* The leases survive a step that touches neither locks, slots nor admissions.*)
LEMMA QuietLeases ==
  ASSUME LeaseInv, PoolQuiet(pool, pool'), UNCHANGED <<locks, slots>>,
         \A g \in Groups : actor'[g] = "none" <=> actor[g] = "none"
  PROVE  LeaseInv'
BY DEF LeaseInv, PoolQuiet, Settles, Admitted

(* The actors survive a step that touches neither them nor their workers.  *)
LEMMA QuietActors ==
  ASSUME ActorInv, pool'.worker = pool.worker, pool'.begun = pool.begun,
         UNCHANGED <<slots, actor, hosts, planned, batch, procs>>,
         stage \in Down => stage' \in Down, catalog' => catalog
  PROVE  ActorInv'
BY DEF ActorInv, ActorSound

(* A step that touches neither leases nor actors. *)
LEMMA QuietStep ==
  ASSUME IInv, PoolQuiet(pool, pool'), UNCHANGED <<locks, slots, actors, batch, procs>>,
         stage \in Down => stage' \in Down, catalog' => catalog, SlotInv', StageInv'
  PROVE  StepSound
<1>1. PoolInv(pool') /\ Settles(pool, pool') /\ pool'.plan \in Plans
  BY DEF PoolQuiet, Settles, IInv
<1>2. LeaseInv'
  BY QuietLeases DEF IInv, actors
<1>3. ActorInv'
  BY QuietActors DEF IInv, actors, PoolQuiet
<1> QED
  BY <1>1, <1>2, <1>3 DEF StepSound, IInv

(* An exception that CloseWorker or Tick throws. *)
LEMMA ThrowStep ==
  ASSUME IInv, NEW why \in {"close", "descendants"}, "stuck" \in Faults, Throw(why, pool),
         UNCHANGED <<locks, stop, catalog, scan, slots, turn, actors, procs, news, batch>>
  PROVE  StepSound
<1>1. stage' = "drain" /\ failure' = why /\ pool' = Stop(pool)
  BY DEF Throw
<1>2. PoolQuiet(pool, pool') /\ pool'.stopped
  BY <1>1, StopIsQuiet DEF IInv
<1>3. SlotInv'
  BY <1>1 DEF IInv, SlotInv
<1>4. StageInv'
  BY <1>1, <1>2 DEF IInv, StageInv, Down, Stages, scan
<1> QED
  BY <1>1, <1>2, <1>3, <1>4, QuietStep DEF Down

(* The top of the coordinator's loop.                                      *)
LEMMA TopStep ==
  ASSUME IInv, Top
  PROVE  StepSound
<1>0. PoolInv(pool) /\ SlotInv /\ StageInv
  BY DEF IInv
<1>1. CASE Done(pool) /\ slots = <<>> /\ stage' = "report" /\ UNCHANGED <<pool, turn>>
  <2>1. PoolQuiet(pool, pool')
    BY <1>0, <1>1, SameIsQuiet
  <2>2. SlotInv'
    BY <1>0, <1>1 DEF Top, SlotInv
  <2>3. StageInv'
    BY <1>0, <1>1 DEF Top, StageInv, Stages, Down, Done, scan
  <2> QED
    BY <1>1, <2>1, <2>2, <2>3, QuietStep DEF Top, Down
<1>2. CASE /\ pool' = IF stop THEN Stop(pool) ELSE pool
           /\ stage' = IF CanEnroll /\ Len(slots) < Workers THEN "next" ELSE "resume"
           /\ turn' = 1
  <2>1. PoolQuiet(pool, pool')
    BY <1>0, <1>2, SameIsQuiet, StopIsQuiet
  <2>2. SlotInv'
    BY <1>0, <1>2, WorkGroupAssumption DEF Top, SlotInv
  <2>3. StageInv'
    <3>1. stage = "top" /\ failure = "none"
      BY <1>0 DEF Top, StageInv, Down
    <3>2. pool'.stopped => stop
      BY <1>0, <1>2, <3>1 DEF StageInv, Down
    <3> QED
      BY <1>0, <1>2, <3>1, <3>2 DEF Top, StageInv, Stages, Down, scan
  <2> QED
    BY <1>2, <2>1, <2>2, <2>3, QuietStep DEF Top, Down
<1> QED
  BY <1>1, <1>2 DEF Top

(* The coordinator calls Next of the pool.                                 *)
LEMMA CallNextStep ==
  ASSUME IInv, CallNext
  PROVE  StepSound
<1>0. PoolInv(pool) /\ SlotInv /\ StageInv /\ stage = "next" /\ failure = "none"
  BY DEF IInv, CallNext, StageInv, Down
<1>1. PoolQuiet(pool, pool')
  BY <1>0, SameIsQuiet, StopIsQuiet DEF CallNext
<1>2. /\ UNCHANGED <<locks, stop, slots, turn, actors, procs, news, batch, failure>>
      /\ (stage' = "scan" /\ ~pool'.stopped /\ UNCHANGED catalog)
         \/ (stage' \in {"top", "resume"} /\ catalog' = FALSE)
      /\ cursor' \in {cursor, 0} /\ again' \in {again, FALSE}
  BY DEF CallNext, NothingAdmitted, MayAdmit, scan
<1>3. pool'.stopped => stop
  BY <1>0 DEF CallNext, StageInv, Down
<1>4. SlotInv'
  BY <1>0, <1>2 DEF SlotInv
<1>5. StageInv'
  BY <1>0, <1>2, <1>3 DEF StageInv, Stages, Down
<1> QED
  BY <1>0, <1>1, <1>2, <1>4, <1>5, QuietStep DEF Down

(* Next blocks a project whose dependencies failed, and never throws.      *)
LEMMA BlockStep ==
  ASSUME IInv, BlockProject
  PROVE  StepSound
<1>0. PoolInv(pool) /\ SlotInv /\ StageInv /\ stage = "scan" /\ failure = "none" /\ ~pool.stopped
  BY DEF IInv, BlockProject, StageInv, Down
<1> DEFINE p == NextStop
<1>1. p \in Projects
  <2>1. \A i \in Stops : i \in Nat /\ i \in Projects
    BY WorkGroupAssumption DEF Stops
  <2> QED
    BY <2>1, MinIsMember DEF BlockProject, NextStop
<1>2. MayBlock(pool, p) /\ cursor' = p /\ again' = TRUE
  BY DEF BlockProject
<1>3. ~BlockThrows(pool, p)
  BY <1>0, <1>1, <1>2, BlockPool
<1>4. /\ pool' = Block(pool, p)
      /\ UNCHANGED <<locks, stop, stage, catalog, slots, turn, actors, procs, news, batch, failure>>
  BY <1>3 DEF BlockProject
<1> HIDE DEF p
<1>5. /\ PoolInv(pool') /\ Settles(pool, pool')
      /\ pool'.stopped = pool.stopped /\ pool'.active = pool.active /\ pool'.worker = pool.worker
      /\ pool'.begun = pool.begun /\ pool'.retired = pool.retired /\ pool'.canceled = pool.canceled
  BY <1>0, <1>1, <1>2, <1>4, BlockPool
<1>6. PoolQuiet(pool, pool')
  BY <1>5 DEF PoolQuiet
<1>7. SlotInv'
  BY <1>0, <1>4 DEF SlotInv
<1>8. StageInv'
  BY <1>0, <1>1, <1>2, <1>4, <1>5 DEF StageInv
<1> QED
  BY <1>0, <1>4, <1>6, <1>7, <1>8, QuietStep DEF Down

(* Steps that leave the pool alone too. *)
LEMMA IdleSteps ==
  ASSUME IInv,
         \/ ScanAgain \/ NothingReady \/ DrainEnds \/ DrainExpires \/ RequestStop \/ Stay
         \/ \E g \in Groups : Yield(g) \/ HostSpeaks(g)
  PROVE  StepSound
<1>0. PoolInv(pool) /\ SlotInv /\ StageInv /\ PoolQuiet(pool, pool)
  BY SameIsQuiet DEF IInv
<1> SUFFICES /\ UNCHANGED <<pool, locks, slots, actors, batch, procs>>
             /\ stage \in Down => stage' \in Down
             /\ catalog' => catalog
             /\ SlotInv' /\ StageInv'
  BY <1>0, QuietStep
<1>1. CASE ScanAgain
  BY <1>0, <1>1 DEF ScanAgain, SlotInv, StageInv
<1>2. CASE NothingReady
  BY <1>0, <1>2 DEF NothingReady, NothingAdmitted, SlotInv, StageInv, Stages, Down, scan
<1>3. CASE DrainEnds
  BY <1>0, <1>3 DEF DrainEnds, SlotInv, StageInv, Stages, Down, scan
<1>4. CASE DrainExpires
  BY <1>0, <1>4 DEF DrainExpires, SlotInv, StageInv, Stages, Down, scan
<1>5. CASE RequestStop
  BY <1>0, <1>5 DEF RequestStop, SlotInv, StageInv, scan
<1>6. CASE Stay
  BY <1>0, <1>6 DEF Stay, vars, scan, actors, SlotInv, StageInv
<1>7. ASSUME NEW g \in Groups, Yield(g) \/ HostSpeaks(g)
      PROVE  /\ UNCHANGED <<pool, locks, slots, actors, batch, procs>>
             /\ stage \in Down => stage' \in Down
             /\ catalog' => catalog
             /\ SlotInv' /\ StageInv'
  <2>1. CASE Yield(g)
    <3>1. turn' = turn + 1 /\ turn <= Len(slots) /\ Len(slots) \in Nat
      BY <1>0, <2>1, LenProperties DEF Yield, Resuming, SlotInv
    <3>2. SlotInv'
      BY <1>0, <2>1, <3>1, WorkGroupAssumption DEF Yield, SlotInv
    <3>3. StageInv'
      BY <1>0, <2>1 DEF Yield, StageInv, scan
    <3> QED
      BY <2>1, <3>2, <3>3 DEF Yield
  <2>2. CASE HostSpeaks(g)
    BY <1>0, <2>2 DEF HostSpeaks, SlotInv, StageInv, scan
  <2> QED
    BY <1>7, <2>1, <2>2
<1> QED
  BY <1>1, <1>2, <1>3, <1>4, <1>5, <1>6, <1>7

(* The report finds every receipt, so that publishing does not throw. *)
LEMMA ReportStep ==
  ASSUME IInv, Report
  PROVE  StepSound
<1>0. PoolInv(pool) /\ SlotInv /\ StageInv /\ LeaseInv /\ ActorInv
  BY DEF IInv
<1>1. Done(pool) /\ slots = <<>> /\ stage = "report"
  BY <1>0 DEF Report, StageInv, SlotInv
<1>2. pool \in PoolType /\ GroupInv(pool) /\ ProjectInv(pool)
  BY <1>0 DEF PoolInv
<1>3. Range(slots) = {}
  BY <1>1 DEF Range
<1>4. pool.active = {} /\ pool.worker = {}
  BY <1>1, <1>2 DEF Done, GroupInv, PoolType
<1>5. procs = {} /\ batch.members = {}
  BY <1>0, <1>4 DEF ActorInv
<1>6. ActiveLeases(locks) = {}
  BY <1>0, <1>3 DEF LeaseInv, ActiveLeases
<1>7. ASSUME NEW g \in Groups
      PROVE  /\ pool.groups[g] \notin Unsettled
             /\ locks.records[g] # "none" => g \in pool.retired \cup pool.canceled
  <2>1. locks.records[g] \in {"none", "physicalRetired", "neverStarted"}
    BY <1>0, <1>3 DEF LeaseInv, Receipts
  <2> QED
    BY <1>0, <1>1, <2>1 DEF LeaseInv, Done
<1>8. ASSUME NEW p \in Projects
      PROVE  /\ pool.projects[p] \notin Unsettled
             /\ pool.projects[p] = "Passed" => ByProject(pool.plan, p) \subseteq pool.retired
  <2>1. ByProject(pool.plan, p) \subseteq Groups
    BY <1>2, PlanFacts
  <2>2. ProjectSound(pool, p)
    BY <1>2 DEF ProjectInv
  <2>3. \A g \in ByProject(pool.plan, p) : pool.groups[g] \in Outcomes => g \in pool.retired
    BY <1>2, <2>1 DEF GroupInv
  <2> QED
    BY <1>7, <2>1, <2>2, <2>3 DEF ProjectSound, Outcomes
<1>9. Reportable
  BY <1>4, <1>5, <1>6, <1>7, <1>8 DEF Reportable
<1>10. stage' = "published" /\ UNCHANGED <<pool, failure>>
  BY <1>9 DEF Report
<1>11. SlotInv'
  BY <1>0, <1>1, <1>10 DEF Report, SlotInv
<1>12. StageInv'
  BY <1>0, <1>1, <1>10 DEF Report, StageInv, Stages, Down, Done, scan
<1>13. PoolQuiet(pool, pool')
  BY <1>0, <1>10, SameIsQuiet
<1> QED
  BY <1>1, <1>10, <1>11, <1>12, <1>13, QuietStep DEF Report, Down

-----------------------------------------------------------------------------
(* A new slot at the end.                                                  *)
LEMMA AppendSlot ==
  ASSUME NEW s \in Seq(Groups), Distinct(s),
         NEW g \in Groups, g \notin Range(s), NEW t, t = Append(s, g)
  PROVE  /\ t \in Seq(Groups) /\ Len(t) = Len(s) + 1
         /\ Distinct(t)
         /\ Range(t) = Range(s) \cup {g}
<1>0. Len(s) \in Nat /\ DOMAIN s = 1 .. Len(s)
  BY LenProperties
<1>1. /\ t \in Seq(Groups) /\ Len(t) = Len(s) + 1
      /\ \A i \in 1 .. Len(s) : t[i] = s[i]
      /\ t[Len(s) + 1] = g
  OBVIOUS
<1>2. DOMAIN t = 1 .. Len(s) + 1
  BY <1>1, LenProperties
<1>3. \A i \in 1 .. Len(s) : s[i] # g
  BY <1>0 DEF Range
<1>4. \A i \in 1 .. Len(s) + 1 : t[i] = IF i <= Len(s) THEN s[i] ELSE g
  BY <1>0, <1>1
<1>5. Distinct(t)
  BY <1>0, <1>1, <1>3, <1>4 DEF Distinct
<1>6. Range(t) = Range(s) \cup {g}
  BY <1>0, <1>2, <1>4 DEF Range
<1> QED
  BY <1>1, <1>5, <1>6

(* reserve(): the lease of a group that was free to take it. *)
LEMMA AcquireLeases ==
  ASSUME LeaseInv, PoolInv(pool), NEW g \in Groups, g \in Free,
         locks' = Acquire(locks, pool.plan, g), Range(slots)' = Range(slots) \cup {g},
         pool'.plan = pool.plan, pool'.active = pool.active \cup {g},
         pool'.retired = pool.retired, pool'.canceled = pool.canceled,
         actor'[g] # "none", \A h \in Groups \ {g} : actor'[h] = actor[h]
  PROVE  LeaseInv'
<1>1. /\ locks.records[g] = "none" /\ \A n \in pool.plan.names[g] : locks.holders[n] = 0
  BY DEF Free, CanAcquire
<1>2. 0 \notin Groups
  BY WorkGroupAssumption
<1>3. /\ locks' \in [holders : [Names -> Groups \cup {0}], records : [Groups -> Receipts]]
      /\ \A h \in Groups : locks'.records[h] = IF h = g THEN "active" ELSE locks.records[h]
      /\ \A n \in Names : locks'.holders[n] = IF n \in pool.plan.names[g] THEN g ELSE locks.holders[n]
  BY ZenonT(40) DEF LeaseInv, Acquire, Receipts
<1>4. ASSUME NEW h \in Groups
      PROVE  /\ locks'.records[h] = "active" <=> h \in Range(slots)'
             /\ locks'.records[h] = "active" => h \in pool'.active \cup pool'.canceled
             /\ locks'.records[h] = "none" => h \notin Admitted(pool')
             /\ locks'.records[h] = "none" <=> actor'[h] = "none"
             /\ locks'.records[h] = "physicalRetired" => h \in pool'.retired
             /\ locks'.records[h] = "neverStarted" => h \in pool'.canceled
  BY <1>3, <1>4 DEF LeaseInv, Admitted
<1>5. ASSUME NEW h \in Groups, NEW n \in Names
      PROVE  locks'.holders[n] = h <=> (locks'.records[h] = "active" /\ n \in pool'.plan.names[h])
  <2>1. CASE h = g
    BY <1>1, <1>3, <2>1 DEF LeaseInv
  <2>2. CASE h # g
    BY <1>1, <1>2, <1>3, <2>2 DEF LeaseInv
  <2> QED
    BY <2>1, <2>2
<1> QED
  BY <1>3, <1>4, <1>5 DEF LeaseInv

(* A group that Next admits gets its lease, its slot and its actor.        *)
LEMMA ReserveStep ==
  ASSUME IInv, stage = "scan", NEW g \in Groups, pool.groups[g] = "Pending", g \in Free,
         RanAfter(pool, g), Reserve(g), UNCHANGED <<stop, scan, turn, news>>
  PROVE  StepSound
<1> DEFINE admitted == Admit(pool, g)
<1>0. PoolInv(pool) /\ SlotInv /\ StageInv /\ LeaseInv /\ ActorInv /\ ~pool.stopped /\ failure = "none"
  BY DEF IInv, StageInv, Down
<1>1. /\ PoolInv(admitted) /\ Settles(pool, admitted)
      /\ admitted.stopped = pool.stopped /\ admitted.active = pool.active \cup {g}
      /\ admitted.worker = pool.worker /\ admitted.begun = pool.begun
      /\ admitted.retired = pool.retired /\ admitted.canceled = pool.canceled
      /\ admitted.outcome = pool.outcome
  BY <1>0, AdmitPool
<1>2. g \notin Admitted(pool) \cup pool.begun \cup pool.worker /\ pool.outcome[g] = NoOutcome
  BY <1>0 DEF PoolInv, GroupInv, Admitted, Outcomes
<1>3. ReservedBeforeStart(admitted, g) /\ MayStart(admitted, g)
  BY <1>1, <1>2 DEF ReservedBeforeStart, MayStart
<1>4. /\ locks' = Acquire(locks, pool.plan, g) /\ slots' = Append(slots, g)
      /\ IF catalog THEN BorrowCatalog(admitted, g) ELSE StageActor(admitted, g)
      /\ UNCHANGED <<failure, planned>>
  BY <1>3 DEF Reserve
<1> HIDE DEF admitted
<1>5. locks.records[g] = "none" /\ g \notin Range(slots) /\ actor[g] = "none"
  BY <1>0 DEF Free, CanAcquire, LeaseInv
<1>6. /\ slots' \in Seq(Groups) /\ Len(slots') = Len(slots) + 1
      /\ Distinct(slots')
      /\ Range(slots') = Range(slots) \cup {g}
  <2>1. slots \in Seq(Groups) /\ Distinct(slots)
    BY <1>0 DEF SlotInv
  <2>2. slots' = Append(slots, g)
    BY <1>4
  <2> QED
    BY <1>5, <2>1, <2>2, AppendSlot
<1>7. Len(slots) \in Nat /\ Len(slots) < Workers /\ Workers \in Nat
  BY <1>0, LenProperties, WorkGroupAssumption DEF SlotInv
<1>8. \A h \in Groups : actor'[h] = IF h # g THEN actor[h] ELSE IF catalog THEN "loading" ELSE "reserved"
  BY <1>0, <1>4 DEF BorrowCatalog, StageActor, ActorInv
<1>9. /\ PoolInv(pool') /\ Settles(pool, pool') /\ pool'.stopped = pool.stopped
      /\ pool'.active = pool.active \cup {g} /\ pool'.retired = pool.retired
      /\ pool'.canceled = pool.canceled
      /\ pool'.worker = pool.worker \cup (IF catalog THEN {g} ELSE {})
      /\ pool'.begun = pool.begun \cup (IF catalog THEN {g} ELSE {})
  <2>1. CASE catalog
    <3>1. pool' = WorkerStarted(admitted, g)
      BY <1>4, <2>1 DEF BorrowCatalog
    <3>2. /\ PoolInv(pool') /\ Settles(admitted, pool') /\ pool'.stopped = admitted.stopped
          /\ pool'.active = admitted.active /\ pool'.worker = admitted.worker \cup {g}
          /\ pool'.begun = admitted.begun \cup {g} /\ pool'.retired = admitted.retired
          /\ pool'.canceled = admitted.canceled
      BY <1>1, <1>3, <3>1, StartPool
    <3>3. Settles(pool, pool')
      BY <1>1, <3>2 DEF Settles
    <3> QED
      BY <1>1, <2>1, <3>2, <3>3
  <2>2. CASE ~catalog
    BY <1>1, <1>4, <2>2 DEF StageActor
  <2> QED
    BY <2>1, <2>2
<1>10. LeaseInv'
  <2>1. pool'.plan = pool.plan
    BY <1>9 DEF Settles
  <2>2. actor'[g] # "none" /\ \A h \in Groups \ {g} : actor'[h] = actor[h]
    BY <1>8
  <2> QED
    BY <1>0, <1>4, <1>6, <1>9, <2>1, <2>2, AcquireLeases
<1>11. SlotInv'
  <2>1. CASE catalog
    <3>1. stage' = "top" /\ catalog' = FALSE
      BY <1>4, <2>1 DEF BorrowCatalog
    <3> QED
      BY <1>0, <1>6, <1>7, <3>1 DEF SlotInv
  <2>2. CASE ~catalog
    <3>1. stage' = (IF Len(slots') < Workers THEN "next" ELSE "resume") /\ catalog' = catalog
      BY <1>4, <2>2 DEF StageActor
    <3> QED
      BY <1>0, <1>6, <1>7, <2>2, <3>1 DEF SlotInv
  <2> QED
    BY <2>1, <2>2
<1>12. StageInv'
  <2>1. stage' \in {"top", "next", "resume"} /\ catalog' \in BOOLEAN
    BY <1>0, <1>4 DEF BorrowCatalog, StageActor, StageInv
  <2> QED
    BY <1>0, <1>4, <1>9, <2>1 DEF StageInv, Stages, Down, scan
<1>13. ActorInv'
  <2>1. CASE catalog
    <3>1. /\ hosts' = [hosts EXCEPT ![g] = 1] /\ procs' = procs \cup {g} /\ batch' = Enroll(g)
          /\ catalog' = FALSE /\ stage' = "top" /\ actor' = [actor EXCEPT ![g] = "loading"]
      BY <1>4, <2>1 DEF BorrowCatalog
    <3>2. batch = NoBatch /\ procs = {} /\ slots = <<>>
      BY <1>0, <2>1 DEF ActorInv, NoBatch, SlotInv
    <3>3. batch' = [members |-> {g}, arrived |-> {}, retiring |-> FALSE, gone |-> FALSE]
      BY <3>1, <3>2 DEF Enroll, NoBatch
    <3>4. pool'.worker = pool.worker \cup {g} /\ pool'.begun = pool.begun \cup {g}
      BY <1>9, <2>1
    <3>5. MaxHosts \in Nat \ {0}
      BY GroupRunAssumption
    <3>6. /\ hosts' \in [Groups -> 0 .. MaxHosts] /\ actor' \in [Groups -> ActorStates]
          /\ \A h \in Groups : hosts'[h] = IF h = g THEN 1 ELSE hosts[h]
      BY <1>0, <3>1, <3>5 DEF ActorInv, ActorStates
    <3>7. ASSUME NEW h \in Groups
          PROVE  ActorSound(h)'
      <4>1. CASE h = g
        BY <1>6, <1>8, <2>1, <3>1, <3>3, <3>4, <3>6, <4>1 DEF ActorSound, Working, Down
      <4>2. CASE h # g
        <5>1. /\ actor'[h] = actor[h] /\ hosts'[h] = hosts[h] /\ h \notin batch'.members /\ h \notin batch.members
              /\ h \in pool'.worker <=> h \in pool.worker
              /\ h \in pool'.begun <=> h \in pool.begun
              /\ h \in Range(slots') <=> h \in Range(slots)
          BY <1>6, <1>8, <3>2, <3>3, <3>4, <3>6, <4>2 DEF NoBatch
        <5> QED
          BY <1>0, <1>4, <5>1 DEF ActorInv, ActorSound, Down
      <4> QED
        BY <4>1, <4>2
    <3> QED
      BY <1>0, <1>4, <1>9, <3>1, <3>2, <3>3, <3>4, <3>6, <3>7 DEF ActorInv
  <2>2. CASE ~catalog
    <3>1. /\ UNCHANGED <<catalog, hosts, procs, batch>> /\ actor' = [actor EXCEPT ![g] = "reserved"]
          /\ pool'.worker = pool.worker /\ pool'.begun = pool.begun
      BY <1>4, <1>9, <2>2 DEF StageActor
    <3>2. actor' \in [Groups -> ActorStates]
      BY <1>0, <3>1 DEF ActorInv, ActorStates
    <3>3. g \notin batch.members
      BY <1>0, <1>2 DEF ActorInv
    <3>4. ASSUME NEW h \in Groups
          PROVE  ActorSound(h)'
      <4>1. CASE h = g
        BY <1>0, <1>2, <1>6, <1>8, <2>2, <3>1, <3>3, <4>1 DEF Working, Down, ActorInv, ActorSound
      <4>2. CASE h # g
        BY <1>0, <1>4, <1>6, <1>8, <3>1, <4>2 DEF ActorInv, ActorSound, Down
      <4> QED
        BY <4>1, <4>2
    <3> QED
      BY <1>0, <1>4, <3>1, <3>2, <3>4 DEF ActorInv
  <2> QED
    BY <2>1, <2>2
<1> QED
  BY <1>0, <1>9, <1>10, <1>11, <1>12, <1>13 DEF StepSound, IInv, Settles

(* Next's scan admits a group of the first project that may run, and a      *)
(* group of a teardown project when every other project has settled.        *)
LEMMA AdmitStep ==
  ASSUME IInv, AdmitGroup \/ AdmitTeardown
  PROVE  StepSound
<1>0. PoolInv(pool) /\ stage = "scan" /\ pool \in PoolType
  BY DEF IInv, AdmitGroup, AdmitTeardown, PoolInv
<1>1. ASSUME NEW p \in Projects, Ready(pool, p, Free) # {}
      PROVE  Min(Ready(pool, p, Free)) \in Ready(pool, p, Free)
  <2>1. \A g \in Ready(pool, p, Free) : g \in Nat
    BY WorkGroupAssumption DEF Ready, ByProject
  <2> QED
    BY <1>1, <2>1, MinIsMember
<1>2. ASSUME NEW p \in Projects, NEW g \in Ready(pool, p, Free)
      PROVE  g \in Groups /\ pool.plan.project[g] = p /\ pool.groups[g] = "Pending" /\ g \in Free
  BY DEF Ready, ByProject
<1>3. CASE AdmitGroup
  <2> DEFINE p == NextStop
             g == Min(Ready(pool, p, Free))
  <2>1. p \in Stops
    <3>1. \A i \in Stops : i \in Nat
      BY WorkGroupAssumption DEF Stops
    <3> QED
      BY <1>3, <3>1, MinIsMember DEF AdmitGroup, NextStop
  <2>2. p \in Projects /\ MayRun(pool, p, Free)
    BY <1>3, <2>1 DEF AdmitGroup, Stops
  <2>3. g \in Ready(pool, p, Free)
    BY <1>1, <2>2 DEF MayRun
  <2>4. g \in Groups /\ pool.plan.project[g] = p /\ pool.groups[g] = "Pending" /\ g \in Free
    BY <1>2, <2>2, <2>3
  <2>5. Reserve(g) /\ UNCHANGED <<stop, scan, turn, news>>
    BY <1>3 DEF AdmitGroup
  <2> HIDE DEF p, g
  <2>6. RanAfter(pool, g)
    BY <2>2, <2>4 DEF RanAfter, MayRun, Open, FailedDependency, Waiting
  <2> QED
    BY <1>0, <2>4, <2>5, <2>6, ReserveStep
<1>4. CASE AdmitTeardown
  <2> DEFINE p == Min(ReadyTeardowns(pool, Free))
             g == Min(Ready(pool, p, Free))
  <2>1. p \in ReadyTeardowns(pool, Free)
    <3>1. \A i \in ReadyTeardowns(pool, Free) : i \in Nat
      BY WorkGroupAssumption DEF ReadyTeardowns
    <3> QED
      BY <1>4, <3>1, MinIsMember DEF AdmitTeardown
  <2>2. p \in Projects /\ IsTeardown(pool, p) /\ Ready(pool, p, Free) # {}
    BY <2>1 DEF ReadyTeardowns
  <2>3. g \in Ready(pool, p, Free)
    BY <1>1, <2>2
  <2>4. g \in Groups /\ pool.plan.project[g] = p /\ pool.groups[g] = "Pending" /\ g \in Free
    BY <1>2, <2>2, <2>3
  <2>5. Reserve(g) /\ UNCHANGED <<stop, scan, turn, news>> /\ OrdinarySettled(pool)
    BY <1>4 DEF AdmitTeardown
  <2> HIDE DEF p, g
  <2>6. Dependencies(pool, p) = {}
    BY <1>0, <2>2 DEF PoolType, AcceptedPlans, ProjectGraph, IsTeardown, Dependencies
  <2>7. RanAfter(pool, g)
    BY <2>2, <2>4, <2>5, <2>6 DEF RanAfter, OrdinarySettled, Open
  <2> QED
    BY <1>0, <2>4, <2>5, <2>7, ReserveStep
<1> QED
  BY <1>3, <1>4

-----------------------------------------------------------------------------
(* Where an actor that is resumed stands. *)
LEMMA ResumedActor ==
  ASSUME IInv, NEW g, Resuming(g)
  PROVE  /\ g \in Groups /\ g \in Range(slots) /\ locks.records[g] = "active"
         /\ turn \in 1 .. Len(slots) /\ turn + 1 \in 1 .. Workers + 1
         /\ stage = "resume" /\ failure = "none" /\ (pool.stopped => stop)
         /\ g \in pool.active \cup pool.canceled /\ actor[g] \notin {"none", "done"}
         /\ catalog = FALSE
<1>1. Len(slots) \in Nat /\ DOMAIN slots = 1 .. Len(slots) /\ Workers \in Nat
  BY LenProperties, WorkGroupAssumption DEF IInv, SlotInv
<1>2. turn \in 1 .. Len(slots) /\ turn + 1 \in 1 .. Workers + 1
  BY <1>1 DEF IInv, SlotInv, Resuming
<1>3. g \in Range(slots) /\ g \in Groups
  <2>1. slots[turn] \in Groups
    BY <1>2, ElementOfSeq DEF IInv, SlotInv
  <2> QED
    BY <1>1, <1>2, <2>1 DEF Resuming, Range
<1>4. locks.records[g] = "active" /\ g \in pool.active \cup pool.canceled
  BY <1>3 DEF IInv, LeaseInv
<1>5. actor[g] \notin {"none", "done"}
  BY <1>3 DEF IInv, ActorInv, ActorSound
<1>6. slots # <<>>
  BY <1>2
<1>7. catalog = FALSE
  BY <1>6 DEF IInv, SlotInv, StageInv
<1>8. stage = "resume" /\ failure = "none" /\ (pool.stopped => stop)
  BY DEF Resuming, IInv, StageInv, Down
<1> QED
  BY <1>2, <1>3, <1>4, <1>5, <1>7, <1>8

(* A step within the batch: the pool, the leases and the slots stay. *)
LEMMA BatchStep ==
  ASSUME IInv, UNCHANGED <<pool, locks, slots>>, procs' \subseteq procs,
         \A g \in Groups : actor'[g] = "none" <=> actor[g] = "none",
         ActorInv', SlotInv', StageInv'
  PROVE  StepSound
<1>1. PoolQuiet(pool, pool')
  BY SameIsQuiet DEF IInv
<1>2. LeaseInv'
  BY <1>1, QuietLeases DEF IInv
<1> QED
  BY <1>1, <1>2 DEF StepSound, IInv, PoolQuiet

(* A worker that has loaded, or is told to close.                          *)
LEMMA WorkStep ==
  ASSUME IInv, NEW g, Loaded(g) \/ Close(g)
  PROVE  StepSound
<1>0. Resuming(g)
  BY DEF Loaded, Close
<1>1. /\ g \in Groups /\ turn \in 1 .. Len(slots) /\ turn + 1 \in 1 .. Workers + 1
      /\ stage = "resume" /\ failure = "none" /\ (pool.stopped => stop) /\ catalog = FALSE
  BY <1>0, ResumedActor
<1>2. /\ actor[g] \in Working
      /\ actor' = [actor EXCEPT ![g] = IF Loaded(g) THEN "executing" ELSE "closing"]
      /\ planned' \subseteq planned \cup {g} /\ planned \subseteq planned'
      /\ turn' = turn + 1 /\ news' = news \ {g}
      /\ UNCHANGED <<stage, pool, locks, stop, catalog, scan, slots, hosts, procs, batch, failure>>
  BY DEF Loaded, Close, Moved, Working
<1>3. ActorInv /\ SlotInv /\ StageInv /\ PoolInv(pool)
  BY DEF IInv
<1>4. /\ actor' \in [Groups -> ActorStates] /\ actor'[g] \in Working
      /\ \A h \in Groups : h # g => actor'[h] = actor[h]
  BY <1>1, <1>2, <1>3 DEF ActorInv, ActorStates, Working
<1>5. g \in batch.members \ batch.arrived /\ g \in pool.worker /\ g \in pool.begun
  BY <1>1, <1>2, <1>3 DEF ActorInv, ActorSound, Down, PoolInv, GroupInv
<1>6. \A h \in Groups : ActorSound(h)'
  <2> SUFFICES ASSUME NEW h \in Groups
               PROVE  ActorSound(h)'
    OBVIOUS
  <2>0. ActorSound(h)
    BY <1>3 DEF ActorInv
  <2>1. CASE h = g
    BY <1>2, <1>4, <1>5, <2>0, <2>1 DEF ActorSound, Working
  <2>2. CASE h # g
    BY <1>2, <1>4, <2>0, <2>2 DEF ActorSound
  <2> QED
    BY <2>1, <2>2
<1>7. ActorInv'
  BY <1>2, <1>3, <1>4, <1>5, <1>6 DEF ActorInv
<1>8. SlotInv'
  BY <1>1, <1>2, <1>3 DEF SlotInv
<1>9. StageInv'
  BY <1>2, <1>3 DEF StageInv, scan
<1>10. \A h \in Groups : actor'[h] = "none" <=> actor[h] = "none"
  BY <1>2, <1>4 DEF Working
<1> QED
  BY <1>2, <1>7, <1>8, <1>9, <1>10, BatchStep

(* A worker arrives in its batch, once and while the batch is open: the     *)
(* latch does not throw.                                                    *)
LEMMA LatchStep ==
  ASSUME IInv, NEW g, Arrives(g) \/ (g \in Groups /\ DrainArrives(g))
  PROVE  StepSound
<1>1. ActorInv /\ SlotInv /\ StageInv /\ PoolInv(pool)
  BY DEF IInv
<1>2. g \in Groups /\ g \in batch.members \ batch.arrived /\ g \notin procs
  <2>1. CASE Arrives(g)
    <3>1. g \in Groups /\ stage = "resume" /\ actor[g] = "closing" /\ g \notin procs
      BY <2>1, ResumedActor DEF Arrives
    <3> QED
      BY <1>1, <3>1 DEF ActorInv, ActorSound, Working, Down
  <2>2. CASE g \in Groups /\ DrainArrives(g)
    BY <2>2 DEF DrainArrives
  <2> QED
    BY <2>1, <2>2
<1>3. batch.retiring = FALSE /\ batch.gone = FALSE /\ g \in pool.worker /\ catalog = FALSE
  <2>1. batch.retiring \in BOOLEAN /\ batch.gone \in BOOLEAN /\ catalog \in BOOLEAN
    BY <1>1 DEF ActorInv, StageInv
  <2>2. ~batch.retiring /\ ~batch.gone
    BY <1>1, <1>2 DEF ActorInv
  <2>3. batch # NoBatch
    BY <1>2 DEF NoBatch
  <2> QED
    BY <1>1, <1>2, <2>1, <2>2, <2>3 DEF ActorInv
<1>4. /\ batch' = Arrive(g)
      /\ UNCHANGED <<pool, locks, stop, stage, catalog, scan, slots, planned, hosts, procs, news, failure>>
      /\ \/ actor' = actor /\ turn' = turn /\ stage = "drain"
         \/ actor' = [actor EXCEPT ![g] = "arrived"] /\ turn' = turn + 1 /\ turn + 1 \in 1 .. Workers + 1
  <2>1. CASE Arrives(g)
    BY <1>2, <1>3, <2>1, ResumedActor DEF Arrives, Moved
  <2>2. CASE DrainArrives(g)
    BY <2>2 DEF DrainArrives, actors
  <2> QED
    BY <2>1, <2>2
<1>5. /\ batch' \in [members : SUBSET Groups, arrived : SUBSET Groups, retiring : BOOLEAN, gone : BOOLEAN]
      /\ batch'.members = batch.members /\ batch'.arrived = batch.arrived \cup {g}
      /\ batch'.gone = FALSE
      /\ batch'.retiring => batch'.arrived = batch'.members
  <2> DEFINE b == batch.arrived \cup {g} = batch.members
  <2>1. batch' = [batch EXCEPT !.arrived = batch.arrived \cup {g}, !.retiring = b]
    BY <1>4 DEF Arrive
  <2>2. b \in BOOLEAN
    OBVIOUS
  <2>3. b => batch.arrived \cup {g} = batch.members
    OBVIOUS
  <2> HIDE DEF b
  <2>4. /\ batch \in [members : SUBSET Groups, arrived : SUBSET Groups, retiring : BOOLEAN, gone : BOOLEAN]
        /\ batch.arrived \cup {g} \subseteq Groups
    BY <1>1, <1>2 DEF ActorInv
  <2>5. /\ batch' \in [members : SUBSET Groups, arrived : SUBSET Groups, retiring : BOOLEAN, gone : BOOLEAN]
        /\ batch'.members = batch.members /\ batch'.arrived = batch.arrived \cup {g}
        /\ batch'.gone = batch.gone /\ batch'.retiring = b
    BY <2>1, <2>2, <2>4
  <2> QED
    BY <1>3, <2>3, <2>5
<1>6. /\ actor' \in [Groups -> ActorStates]
      /\ \A h \in Groups : h # g => actor'[h] = actor[h]
      /\ actor[g] \in Working /\ actor'[g] # "none"
      /\ stage \notin Down => actor'[g] = "arrived"
      /\ actor'[g] \in Working \cup {"arrived"}
  <2>1. actor[g] \in Working
    BY <1>1, <1>2 DEF ActorInv, ActorSound
  <2> QED
    BY <1>1, <1>2, <1>4, <2>1 DEF ActorInv, ActorStates, Working, Down
<1>7. \A h \in Groups : ActorSound(h)'
  <2> SUFFICES ASSUME NEW h \in Groups
               PROVE  ActorSound(h)'
    OBVIOUS
  <2>0. ActorSound(h)
    BY <1>1 DEF ActorInv
  <2>1. CASE h = g
    BY <1>3, <1>4, <1>5, <1>6, <2>0, <2>1 DEF ActorSound, Working
  <2>2. CASE h # g
    BY <1>4, <1>5, <1>6, <2>0, <2>2 DEF ActorSound
  <2> QED
    BY <2>1, <2>2
<1>8. ActorInv'
  BY <1>1, <1>2, <1>3, <1>4, <1>5, <1>6, <1>7 DEF ActorInv
<1>9. SlotInv'
  BY <1>1, <1>4 DEF SlotInv
<1>10. StageInv'
  BY <1>1, <1>4 DEF StageInv, scan
<1>11. \A h \in Groups : actor'[h] = "none" <=> actor[h] = "none"
  BY <1>6 DEF Working
<1> QED
  BY <1>4, <1>8, <1>9, <1>10, <1>11, BatchStep

(* The batch retires, and a process or the last descendant exits. *)
LEMMA RetireSteps ==
  ASSUME IInv, EndOfPass \/ DrainTick \/ DescendantsExit \/ \E g \in Groups : ProcessExits(g)
  PROVE  StepSound
<1>1. ActorInv /\ SlotInv /\ StageInv /\ PoolInv(pool)
  BY DEF IInv
<1>2. /\ UNCHANGED <<pool, locks, slots, turn, actor, hosts, planned, stop, catalog, scan, failure, news>>
      /\ procs' \subseteq procs
      /\ stage' = stage \/ (stage = "resume" /\ stage' = "top")
  BY DEF EndOfPass, DrainTick, DescendantsExit, ProcessExits, actors
<1>3. SlotInv'
  BY <1>1, <1>2 DEF SlotInv
<1>4. StageInv'
  BY <1>1, <1>2 DEF StageInv, scan, Stages, Down
<1>5. stage' \in Down <=> stage \in Down
  BY <1>2 DEF Down
<1>6. CASE batch' = batch
  BY <1>1, <1>2, <1>3, <1>4, <1>5, <1>6, BatchStep DEF ActorInv, ActorSound
<1>7. CASE batch.retiring /\ batch' = [batch EXCEPT !.gone = TRUE]
  <2>1. /\ batch' \in [members : SUBSET Groups, arrived : SUBSET Groups, retiring : BOOLEAN, gone : BOOLEAN]
        /\ batch'.members = batch.members /\ batch'.arrived = batch.arrived
        /\ batch'.retiring = batch.retiring
    BY <1>1, <1>7 DEF ActorInv
  <2>a. ~catalog
    BY <1>1, <1>7 DEF ActorInv, NoBatch
  <2>2. ActorInv'
    BY <1>1, <1>2, <1>5, <1>7, <2>1, <2>a DEF ActorInv, ActorSound
  <2> QED
    BY <1>2, <1>3, <1>4, <2>2, BatchStep
<1>8. CASE batch.gone /\ batch' = NoBatch
  <2>1. /\ batch' \in [members : SUBSET Groups, arrived : SUBSET Groups, retiring : BOOLEAN, gone : BOOLEAN]
        /\ batch'.members = {} /\ batch'.arrived = {} /\ batch'.retiring = FALSE /\ batch'.gone = FALSE
    BY <1>8 DEF NoBatch
  <2>2. batch.arrived = batch.members /\ procs = {}
    BY <1>1, <1>8 DEF ActorInv
  <2>3. \A h \in Groups : ActorSound(h)'
    BY <1>1, <1>2, <1>5, <2>1, <2>2 DEF ActorInv, ActorSound
  <2>4. ActorInv'
    BY <1>1, <1>2, <1>8, <2>1, <2>2, <2>3 DEF ActorInv
  <2> QED
    BY <1>2, <1>3, <1>4, <2>4, BatchStep
<1> QED
  BY <1>6, <1>7, <1>8 DEF EndOfPass, DrainTick, BatchAfterTick, DescendantsExit, ProcessExits

-----------------------------------------------------------------------------
(* Every owner the pool knows of has a slot. *)
LEMMA OwnersHaveSlots ==
  ASSUME IInv
  PROVE  pool.active \subseteq Range(slots) /\ pool.active \subseteq Groups
<1>1. LeaseInv /\ GroupInv(pool) /\ pool \in PoolType
  BY DEF IInv, PoolInv
<1>2. pool.active \subseteq Groups
  BY <1>1 DEF PoolType
<1>3. ASSUME NEW g \in pool.active
      PROVE  g \in Range(slots)
  <2>1. g \in Groups /\ pool.groups[g] = "Running" /\ g \notin pool.retired /\ g \notin pool.canceled
    BY <1>1, <1>2 DEF GroupInv, Outcomes
  <2>2. locks.records[g] \in Receipts
    BY <1>1, <2>1 DEF LeaseInv
  <2> QED
    BY <1>1, <2>1, <2>2 DEF LeaseInv, Receipts, Admitted
<1> QED
  BY <1>2, <1>3

(* StartWorker: the batch has room and the pool accepts the worker. *)
LEMMA StartStep ==
  ASSUME IInv, NEW g, StartWorker(g)
  PROVE  StepSound
<1>0. /\ g \in Groups /\ g \in Range(slots) /\ turn + 1 \in 1 .. Workers + 1
      /\ stage = "resume" /\ failure = "none" /\ (pool.stopped => stop) /\ catalog = FALSE
      /\ g \in pool.active \cup pool.canceled
  BY ResumedActor DEF StartWorker
<1>1. PoolInv(pool) /\ LeaseInv /\ ActorInv /\ SlotInv /\ StageInv /\ ActorSound(g)
  BY <1>0 DEF IInv, ActorInv
<1>2. /\ actor[g] \in {"reserved", "retrying"} /\ ~stop /\ ~batch.retiring
      /\ hosts' = [hosts EXCEPT ![g] = @ + 1] /\ procs' = procs \cup {g}
      /\ UNCHANGED <<locks, stop, catalog, scan, slots, planned, news>>
  BY DEF StartWorker, CanEnroll
<1>3. g \in pool.active /\ g \notin pool.worker /\ ~pool.stopped
  BY <1>0, <1>1, <1>2 DEF PoolInv, GroupInv, ActorSound, Working
<1>4. MayStart(pool, g)
  BY <1>0, <1>1, <1>3 DEF MayStart, PoolInv, GroupInv, Outcomes
<1>5. Cardinality(batch.members) < 8
  <2>1. batch.members \subseteq Range(slots) \ {g}
    BY <1>1, <1>3, OwnersHaveSlots DEF ActorInv, PoolInv, PoolType, GroupInv
  <2>2. IsFiniteSet(Range(slots)) /\ Cardinality(Range(slots)) <= Len(slots)
    BY <1>1, SlotCount DEF SlotInv
  <2>3. IsFiniteSet(Range(slots) \ {g}) /\ Cardinality(Range(slots) \ {g}) = Cardinality(Range(slots)) - 1
    BY <1>0, <2>2, FS_RemoveElement
  <2>4. Cardinality(batch.members) <= Cardinality(Range(slots) \ {g}) /\ IsFiniteSet(batch.members)
    BY <2>1, <2>3, FS_Subset
  <2>5. Cardinality(batch.members) \in Nat /\ Cardinality(Range(slots)) \in Nat
    BY <2>2, <2>4, FS_CardinalityType
  <2>6. Len(slots) \in Nat /\ Len(slots) <= 8
    BY <1>1, LenProperties, WorkGroupAssumption DEF SlotInv
  <2> QED
    BY <2>2, <2>3, <2>4, <2>5, <2>6
<1>6. /\ batch' = Enroll(g) /\ pool' = WorkerStarted(pool, g) /\ failure' = failure
      /\ actor' = [actor EXCEPT ![g] = "loading"] /\ turn' = turn + 1 /\ stage' = stage
  BY <1>4, <1>5 DEF StartWorker, Moved
<1>7. /\ PoolInv(pool') /\ Settles(pool, pool')
      /\ pool'.stopped = pool.stopped /\ pool'.active = pool.active
      /\ pool'.worker = pool.worker \cup {g} /\ pool'.begun = pool.begun \cup {g}
      /\ pool'.retired = pool.retired /\ pool'.canceled = pool.canceled
  BY <1>0, <1>1, <1>4, <1>6, StartPool
<1>8. /\ batch' \in [members : SUBSET Groups, arrived : SUBSET Groups, retiring : BOOLEAN, gone : BOOLEAN]
      /\ batch'.members = batch.members \cup {g} /\ batch'.arrived = batch.arrived
      /\ batch'.retiring = batch.retiring /\ batch'.gone = batch.gone
  BY <1>0, <1>1, <1>6 DEF ActorInv, Enroll
<1>9. /\ actor' \in [Groups -> ActorStates]
      /\ \A h \in Groups : actor'[h] = IF h = g THEN "loading" ELSE actor[h]
  BY <1>0, <1>1, <1>6 DEF ActorInv, ActorStates
<1>10. /\ hosts' \in [Groups -> 0 .. MaxHosts]
       /\ \A h \in Groups : hosts'[h] = IF h = g THEN hosts[g] + 1 ELSE hosts[h]
       /\ hosts[g] + 1 # 0
  <2>1. MaxHosts \in Nat \ {0} /\ hosts \in [Groups -> 0 .. MaxHosts] /\ hosts[g] \in 0 .. MaxHosts
    BY <1>0, <1>1, GroupRunAssumption DEF ActorInv
  <2>2. hosts[g] < MaxHosts
    BY <1>1, <1>2, <2>1 DEF ActorSound
  <2> QED
    BY <1>0, <1>2, <2>1, <2>2
<1>11. g \notin batch.members
  BY <1>1, <1>3 DEF ActorInv
<1>12. \A h \in Groups : ActorSound(h)'
  <2> SUFFICES ASSUME NEW h \in Groups
               PROVE  ActorSound(h)'
    OBVIOUS
  <2>0. ActorSound(h)
    BY <1>1 DEF ActorInv
  <2>1. CASE h = g
    <3>1. g \notin batch'.arrived /\ g \in batch'.members
      BY <1>1, <1>8, <1>11 DEF ActorInv
    <3> QED
      BY <1>7, <1>9, <1>10, <2>1, <3>1 DEF ActorSound, Working
  <2>2. CASE h # g
    BY <1>2, <1>6, <1>7, <1>8, <1>9, <1>10, <2>0, <2>2 DEF ActorSound
  <2> QED
    BY <2>1, <2>2
<1>13. ActorInv'
  BY <1>0, <1>1, <1>2, <1>7, <1>8, <1>9, <1>10, <1>11, <1>12 DEF ActorInv
<1>14. LeaseInv'
  <2>1. \A h \in Groups : actor'[h] = "none" <=> actor[h] = "none"
    BY <1>2, <1>9
  <2>2. pool'.plan = pool.plan
    BY <1>7 DEF Settles
  <2> QED
    BY <1>1, <1>2, <1>7, <2>1, <2>2 DEF LeaseInv, Admitted
<1>15. SlotInv'
  BY <1>0, <1>1, <1>2, <1>6 DEF SlotInv
<1>16. StageInv'
  BY <1>0, <1>1, <1>2, <1>6, <1>7 DEF StageInv, scan, Down
<1> QED
  BY <1>3, <1>7, <1>13, <1>14, <1>15, <1>16 DEF StepSound, IInv, Settles

(* A lease is released: its names are free, and no other holder's.  *)
LEMMA ReleaseLeases ==
  ASSUME LeaseInv, NEW g \in Groups, MayRelease(locks, pool', g),
         locks' = Release(locks, pool', g), Range(slots') = Range(slots) \ {g},
         pool'.plan = pool.plan,
         \A h \in Groups \ {g} :
           /\ h \in pool'.active \cup pool'.canceled <=> h \in pool.active \cup pool.canceled
           /\ h \in pool'.retired <=> h \in pool.retired
           /\ h \in pool.canceled => h \in pool'.canceled
           /\ actor'[h] = "none" <=> actor[h] = "none",
         actor'[g] # "none"
  PROVE  LeaseInv'
<1>1. /\ locks.records[g] = "active" /\ g \in pool'.retired \cup pool'.canceled
      /\ \A n \in pool.plan.names[g] : locks.holders[n] = g
  BY DEF MayRelease
<1>2. 0 \notin Groups
  BY WorkGroupAssumption
<1> DEFINE r == IF g \in pool'.retired THEN "physicalRetired" ELSE "neverStarted"
<1>3. /\ locks' \in [holders : [Names -> Groups \cup {0}], records : [Groups -> Receipts]]
      /\ \A h \in Groups : locks'.records[h] = IF h = g THEN r ELSE locks.records[h]
      /\ \A n \in Names : locks'.holders[n] = IF n \in pool.plan.names[g] THEN 0 ELSE locks.holders[n]
  BY ZenonT(40) DEF LeaseInv, Release, Receipts
<1>4. r \in {"physicalRetired", "neverStarted"} /\ (r = "physicalRetired" <=> g \in pool'.retired)
  OBVIOUS
<1> HIDE DEF r
<1>5. ASSUME NEW h \in Groups
      PROVE  /\ locks'.records[h] = "active" <=> h \in Range(slots')
             /\ locks'.records[h] = "active" => h \in pool'.active \cup pool'.canceled
             /\ locks'.records[h] = "none" => h \notin Admitted(pool')
             /\ locks'.records[h] = "none" <=> actor'[h] = "none"
             /\ locks'.records[h] = "physicalRetired" => h \in pool'.retired
             /\ locks'.records[h] = "neverStarted" => h \in pool'.canceled
  <2>1. CASE h = g
    BY <1>1, <1>3, <1>4, <2>1
  <2>2. CASE h # g
    BY <1>3, <2>2 DEF LeaseInv, Admitted
  <2> QED
    BY <2>1, <2>2
<1>6. ASSUME NEW h \in Groups, NEW n \in Names
      PROVE  locks'.holders[n] = h <=> (locks'.records[h] = "active" /\ n \in pool'.plan.names[h])
  <2>1. CASE h = g
    BY <1>1, <1>2, <1>3, <1>4, <2>1 DEF LeaseInv
  <2>2. CASE h # g
    BY <1>1, <1>2, <1>3, <2>2 DEF LeaseInv
  <2> QED
    BY <2>1, <2>2
<1> QED
  BY <1>3, <1>5, <1>6 DEF LeaseInv

(* What the tail of RunActor may leave in the pool: the owner is settled,   *)
(* and the others are as they were.                                         *)
LEMMA FinishedPool ==
  ASSUME NEW p, PoolInv(p), NEW g \in Groups, g \notin p.worker, stop \in BOOLEAN,
         NEW q \in Finished(p, g)
  PROVE  /\ PoolInv(q) /\ Settles(p, q) /\ q.worker = p.worker /\ q.begun = p.begun
         /\ g \in q.retired \cup q.canceled
         /\ q.stopped => p.stopped \/ stop
         /\ \A h \in Groups \ {g} :
              /\ h \in q.active \cup q.canceled <=> h \in p.active \cup p.canceled
              /\ h \in q.retired <=> h \in p.retired
              /\ h \in p.canceled => h \in q.canceled
<1>1. CASE g \in planned
  <2>1. PICK o \in Outcomes : q = Complete(p, g, o) /\ MayComplete(p, g)
    BY <1>1 DEF Finished
  <2>2. /\ PoolInv(q) /\ Settles(p, q)
        /\ q.stopped = p.stopped /\ q.active = p.active \ {g} /\ q.worker = p.worker
        /\ q.begun = p.begun /\ q.retired = p.retired \cup {g} /\ q.canceled = p.canceled
    BY <2>1, CompletePool
  <2> QED
    BY <2>2
<1>2. CASE g \notin planned
  <2> DEFINE r == IF stop THEN Stop(p) ELSE p
  <2>1. PoolQuiet(p, r) /\ (r.stopped => p.stopped \/ stop)
    BY SameIsQuiet, StopIsQuiet
  <2>2. \/ g \in r.canceled /\ q = r
        \/ g \notin r.canceled /\ StartedWorkerExited(r, g)
           /\ q = Complete(r, g, IF stop THEN "Interrupted" ELSE "Failed")
    BY <1>2 DEF Finished
  <2> HIDE DEF r
  <2>3. CASE g \in r.canceled /\ q = r
    BY <2>1, <2>3 DEF PoolQuiet
  <2>4. CASE StartedWorkerExited(r, g) /\ q = Complete(r, g, IF stop THEN "Interrupted" ELSE "Failed")
    <3> DEFINE o == IF stop THEN "Interrupted" ELSE "Failed"
    <3>1. o \in Outcomes
      BY DEF Outcomes
    <3>2. MayComplete(r, g) /\ g \notin r.worker /\ PoolInv(r) /\ q = Complete(r, g, o)
      BY <2>1, <2>4 DEF StartedWorkerExited, PoolQuiet
    <3> HIDE DEF o
    <3>3. /\ PoolInv(q) /\ Settles(r, q)
          /\ q.stopped = r.stopped /\ q.active = r.active \ {g} /\ q.worker = r.worker
          /\ q.begun = r.begun /\ q.retired = r.retired \cup {g} /\ q.canceled = r.canceled
      BY <3>1, <3>2, CompletePool
    <3>4. Settles(p, q)
      BY <2>1, <3>3 DEF Settles, PoolQuiet
    <3> QED
      BY <2>1, <3>3, <3>4 DEF PoolQuiet
  <2> QED
    BY <2>2, <2>3, <2>4
<1> QED
  BY <1>1, <1>2

(* The tail finds nothing to settle only if no worker could be had. *)
LEMMA AlwaysFinished ==
  ASSUME NEW p, PoolInv(p), NEW g \in Groups, g \notin p.worker, stop \in BOOLEAN,
         g \in p.active \cup p.canceled, planned \subseteq p.begun, p.stopped => stop,
         Finished(p, g) = {}
  PROVE  ~stop /\ g \in p.active \ p.begun
<1>0. GroupInv(p) /\ p \in PoolType
  BY DEF PoolInv
<1>1. ASSUME g \in p.begun
      PROVE  FALSE
  <2>1. g \in p.active /\ p.outcome[g] = NoOutcome
    BY <1>0, <1>1 DEF GroupInv, Outcomes
  <2>2. g \notin planned
    <3>1. CASE g \in planned
      <4>1. MayComplete(p, g)
        BY <1>1, <2>1 DEF MayComplete
      <4>2. Complete(p, g, "Passed") \in Finished(p, g)
        BY <3>1, <4>1 DEF Finished, Outcomes
      <4> QED
        BY <4>2
    <3> QED
      BY <3>1
  <2> DEFINE r == IF stop THEN Stop(p) ELSE p
  <2>3. PoolQuiet(p, r)
    BY SameIsQuiet, StopIsQuiet
  <2>4. /\ ~(g \in r.canceled)
        /\ ~StartedWorkerExited(r, g)
    BY <2>2 DEF Finished
  <2> HIDE DEF r
  <2>5. g \in r.active /\ g \in r.begun /\ g \notin r.worker /\ GroupInv(r)
    BY <1>1, <2>1, <2>3, <2>4 DEF PoolQuiet, PoolInv
  <2>6. StartedWorkerExited(r, g)
    BY <2>5 DEF StartedWorkerExited, MayComplete, GroupInv, Outcomes
  <2> QED
    BY <2>4, <2>6
<1>2. ASSUME g \notin p.begun, stop
      PROVE  FALSE
  <2>1. g \notin planned
    BY <1>2
  <2> DEFINE r == Stop(p)
  <2>2. r.canceled = p.canceled \cup (p.active \ p.begun)
    BY StopPool
  <2>3. g \in r.canceled
    BY <1>2, <2>2
  <2>4. r \in Finished(p, g)
    BY <1>2, <2>1, <2>3 DEF Finished
  <2> QED
    BY <2>4
<1>3. ~p.stopped => p.canceled = {}
  BY <1>0 DEF GroupInv, PoolType
<1> QED
  BY <1>1, <1>2, <1>3

(* An actor that ends frees its slot and its lease, however it ended.      *)
LEMMA FinishStep ==
  ASSUME IInv, NEW g, Resuming(g), NEW p, PoolInv(p), Settles(pool, p),
         p.stopped = pool.stopped, p.active = pool.active, p.worker = pool.worker \ {g},
         p.begun = pool.begun, p.retired = pool.retired, p.canceled = pool.canceled,
         g \notin batch.members, actor[g] \notin Working,
         g \notin pool.begun => p = pool /\ (stop \/ "start" \in Faults),
         Finish(p, g), UNCHANGED <<stop, catalog, scan, planned, hosts, procs, news, batch>>
  PROVE  StepSound
<1>0. /\ g \in Groups /\ g \in Range(slots) /\ locks.records[g] = "active" /\ turn \in 1 .. Len(slots)
      /\ stage = "resume" /\ failure = "none" /\ (pool.stopped => stop) /\ catalog = FALSE
      /\ g \in pool.active \cup pool.canceled
  BY ResumedActor
<1>1. LeaseInv /\ ActorInv /\ SlotInv /\ StageInv /\ PoolInv(pool)
  BY DEF IInv
<1>2. g \notin p.worker /\ stop \in BOOLEAN /\ planned \subseteq p.begun
  BY <1>1 DEF StageInv, ActorInv
<1>3. CASE Finished(p, g) = {} /\ Throw("complete", p) /\ UNCHANGED <<locks, slots, turn, actor>>
  <2>1. ~stop /\ g \in pool.active \ pool.begun
    BY <1>0, <1>2, <1>3, AlwaysFinished
  <2>2. /\ p = pool /\ "start" \in Faults
        /\ stage' = "drain" /\ failure' = "complete" /\ pool' = Stop(pool)
    BY <1>3, <2>1 DEF Throw
  <2>3. /\ PoolQuiet(pool, pool') /\ pool'.canceled = pool.canceled \cup (pool.active \ pool.begun)
        /\ pool'.stopped
    BY <1>1, <2>2, StopIsQuiet, StopPool
  <2>4. SlotInv'
    BY <1>1, <1>3, <2>2 DEF SlotInv
  <2>5. StageInv'
    BY <1>1, <2>1, <2>2, <2>3 DEF StageInv, Stages, Down, scan
  <2> QED
    BY <1>3, <2>2, <2>3, <2>4, <2>5, QuietStep DEF Down, actors
<1>4. CASE \E q \in Finished(p, g) :
             IF MayRelease(locks, q, g)
             THEN /\ pool' = q /\ locks' = Release(locks, q, g)
                  /\ actor' = [actor EXCEPT ![g] = "done"]
                  /\ slots' = RemoveAt(slots, turn)
                  /\ UNCHANGED <<stage, turn, failure>>
             ELSE Throw("release", q) /\ UNCHANGED <<locks, slots, turn, actor>>
  <2>1. PICK q \in Finished(p, g) :
             IF MayRelease(locks, q, g)
             THEN /\ pool' = q /\ locks' = Release(locks, q, g)
                  /\ actor' = [actor EXCEPT ![g] = "done"]
                  /\ slots' = RemoveAt(slots, turn)
                  /\ UNCHANGED <<stage, turn, failure>>
             ELSE Throw("release", q) /\ UNCHANGED <<locks, slots, turn, actor>>
    BY <1>4
  <2>2. /\ PoolInv(q) /\ Settles(p, q) /\ q.worker = p.worker /\ q.begun = p.begun
        /\ g \in q.retired \cup q.canceled
        /\ q.stopped => p.stopped \/ stop
        /\ \A h \in Groups \ {g} :
             /\ h \in q.active \cup q.canceled <=> h \in p.active \cup p.canceled
             /\ h \in q.retired <=> h \in p.retired
             /\ h \in p.canceled => h \in q.canceled
    BY <1>0, <1>2, FinishedPool
  <2>3. Settles(pool, q) /\ q.plan = pool.plan
    BY <2>2 DEF Settles
  <2>4. MayRelease(locks, q, g)
    <3>1. pool.plan.names[g] \subseteq Names
      BY <1>0, <1>1 DEF PoolInv, PoolType, AcceptedPlans, PlanType
    <3> QED
      BY <1>0, <1>1, <2>2, <2>3, <3>1 DEF MayRelease, LeaseInv
  <2>5. /\ pool' = q /\ locks' = Release(locks, q, g) /\ actor' = [actor EXCEPT ![g] = "done"]
        /\ slots' = RemoveAt(slots, turn) /\ UNCHANGED <<stage, turn, failure>>
    BY <2>1, <2>4
  <2>6. /\ slots' \in Seq(Groups) /\ Len(slots') = Len(slots) - 1 /\ Distinct(slots')
        /\ Range(slots') = Range(slots) \ {g}
    <3>1. slots \in Seq(Groups) /\ Distinct(slots) /\ g = slots[turn]
      BY <1>1 DEF SlotInv, Resuming
    <3> QED
      BY <1>0, <2>5, <3>1, RemoveSlot, SMTT(40), ZenonT(60)
  <2>7. /\ actor' \in [Groups -> ActorStates]
        /\ \A h \in Groups : actor'[h] = IF h = g THEN "done" ELSE actor[h]
    BY <1>0, <1>1, <2>5 DEF ActorInv, ActorStates
  <2>8. LeaseInv'
    <3>1. /\ MayRelease(locks, pool', g) /\ locks' = Release(locks, pool', g)
          /\ Range(slots') = Range(slots) \ {g} /\ pool'.plan = pool.plan
      BY <2>3, <2>4, <2>5, <2>6
    <3>2. \A h \in Groups \ {g} :
            /\ h \in pool'.active \cup pool'.canceled <=> h \in pool.active \cup pool.canceled
            /\ h \in pool'.retired <=> h \in pool.retired
            /\ h \in pool.canceled => h \in pool'.canceled
            /\ actor'[h] = "none" <=> actor[h] = "none"
      BY <2>2, <2>5, <2>7
    <3>3. actor'[g] # "none"
      BY <1>0, <2>7
    <3> QED
      BY <1>0, <1>1, <3>1, <3>2, <3>3, ReleaseLeases
  <2>9. SlotInv'
    <3>1. Len(slots) \in Nat
      BY <1>1, LenProperties DEF SlotInv
    <3> QED
      BY <1>0, <1>1, <2>5, <2>6, <3>1, WorkGroupAssumption DEF SlotInv
  <2>10. \A h \in Groups : ActorSound(h)'
    <3> SUFFICES ASSUME NEW h \in Groups
                 PROVE  ActorSound(h)'
      OBVIOUS
    <3>0. ActorSound(h)
      BY <1>1 DEF ActorInv
    <3>1. CASE h = g
      BY <1>2, <2>2, <2>5, <2>6, <2>7, <3>0, <3>1 DEF ActorSound, Working
    <3>2. CASE h # g
      BY <2>2, <2>5, <2>6, <2>7, <3>0, <3>2 DEF ActorSound
    <3> QED
      BY <3>1, <3>2
  <2>11. ActorInv'
    <3>1. batch.members \subseteq pool'.worker
      BY <1>1, <2>2, <2>5 DEF ActorInv
    <3> QED
      BY <1>0, <1>1, <2>2, <2>5, <2>7, <2>10, <3>1 DEF ActorInv
  <2>12. StageInv'
    BY <1>0, <1>1, <2>2, <2>5 DEF StageInv, Stages, Down, scan
  <2> QED
    BY <2>2, <2>3, <2>5, <2>8, <2>9, <2>11, <2>12 DEF StepSound, IInv
<1> QED
  BY <1>3, <1>4 DEF Finish

(* An actor that ends without a worker.                                    *)
LEMMA NoWorkerStep ==
  ASSUME IInv, NEW g, NoWorker(g)
  PROVE  StepSound
<1>1. Resuming(g) /\ actor[g] \in {"reserved", "retrying"} /\ (stop \/ "start" \in Faults)
  BY DEF NoWorker
<1>2. g \in Groups /\ PoolInv(pool) /\ ActorInv /\ ActorSound(g)
  BY <1>1, ResumedActor DEF IInv, ActorInv
<1>3. g \notin pool.worker /\ g \notin batch.members /\ actor[g] \notin Working
  BY <1>1, <1>2 DEF ActorInv, ActorSound, Working
<1>4. pool.worker = pool.worker \ {g} /\ Settles(pool, pool)
  BY <1>3 DEF Settles
<1>5. Finish(pool, g) /\ UNCHANGED <<stop, catalog, scan, planned, hosts, procs, news, batch>>
  BY DEF NoWorker
<1> QED
  BY <1>1, <1>2, <1>3, <1>4, <1>5, FinishStep

(* A worker of the pool goes: the leases and the stage do not see it. *)
LEMMA ExitLeases ==
  ASSUME LeaseInv, Settles(pool, pool'), pool'.active = pool.active,
         pool'.retired = pool.retired, pool'.canceled = pool.canceled, UNCHANGED <<locks, slots>>,
         \A h \in Groups : actor'[h] = "none" <=> actor[h] = "none"
  PROVE  LeaseInv'
BY DEF LeaseInv, Settles, Admitted

(* An actor whose worker has exited: Complete, a retry, or the end.        *)
LEMMA GoneStep ==
  ASSUME IInv, NEW g, WorkerGone(g)
  PROVE  StepSound
<1>1. /\ Resuming(g) /\ actor[g] = "arrived" /\ g \notin batch.members
      /\ UNCHANGED <<stop, catalog, scan, planned, hosts, procs, news, batch>>
  BY DEF WorkerGone
<1>2. /\ g \in Groups /\ stage = "resume" /\ failure = "none" /\ (pool.stopped => stop) /\ catalog = FALSE
      /\ turn + 1 \in 1 .. Workers + 1
  BY <1>1, ResumedActor
<1>3. PoolInv(pool) /\ LeaseInv /\ ActorInv /\ SlotInv /\ StageInv /\ ActorSound(g)
  BY <1>2 DEF IInv, ActorInv
<1>4. g \in pool.worker /\ g \in pool.active /\ g \in pool.begun
  BY <1>1, <1>2, <1>3 DEF ActorSound, Down, PoolInv, GroupInv
<1>5. MayExit(pool, g)
  BY <1>4 DEF MayExit
<1> DEFINE p == WorkerExited(pool, g)
<1>6. /\ PoolInv(p) /\ Settles(pool, p)
      /\ p.stopped = pool.stopped /\ p.active = pool.active /\ p.worker = pool.worker \ {g}
      /\ p.begun = pool.begun /\ p.retired = pool.retired /\ p.canceled = pool.canceled
  BY <1>2, <1>3, <1>5, ExitPool
<1>7. Retries(g) \/ Finish(p, g)
  BY <1>5 DEF WorkerGone
<1>8. CASE Finish(p, g)
  <2>1. actor[g] \notin Working
    BY <1>1 DEF Working
  <2> HIDE DEF p
  <2> QED
    BY <1>1, <1>4, <1>6, <1>8, <2>1, FinishStep
<1>9. CASE Retries(g)
  <2>1. /\ g \in planned /\ hosts[g] < MaxHosts /\ pool' = p
        /\ actor' = [actor EXCEPT ![g] = "retrying"] /\ turn' = turn + 1
        /\ UNCHANGED <<stage, locks, slots, failure>>
    BY <1>9 DEF Retries, Moved
  <2> HIDE DEF p
  <2>2. /\ actor' \in [Groups -> ActorStates]
        /\ \A h \in Groups : actor'[h] = IF h = g THEN "retrying" ELSE actor[h]
    BY <1>2, <1>3, <2>1 DEF ActorInv, ActorStates
  <2>3. LeaseInv'
    <3>1. \A h \in Groups : actor'[h] = "none" <=> actor[h] = "none"
      BY <1>1, <2>2
    <3> QED
      BY <1>3, <1>6, <2>1, <3>1, ExitLeases
  <2>4. \A h \in Groups : ActorSound(h)'
    <3> SUFFICES ASSUME NEW h \in Groups
                 PROVE  ActorSound(h)'
      OBVIOUS
    <3>0. ActorSound(h)
      BY <1>3 DEF ActorInv
    <3>1. CASE h = g
      BY <1>1, <1>6, <2>1, <2>2, <3>0, <3>1 DEF ActorSound, Working
    <3>2. CASE h # g
      BY <1>1, <1>6, <2>1, <2>2, <3>0, <3>2 DEF ActorSound
    <3> QED
      BY <3>1, <3>2
  <2>5. ActorInv'
    <3>1. batch.members \subseteq pool'.worker /\ pool'.begun = pool.begun
      BY <1>1, <1>3, <1>6, <2>1 DEF ActorInv
    <3> QED
      BY <1>1, <1>3, <2>2, <2>4, <3>1 DEF ActorInv
  <2>6. SlotInv'
    BY <1>1, <1>2, <1>3, <2>1 DEF SlotInv
  <2>7. StageInv'
    BY <1>1, <1>2, <1>3, <1>6, <2>1 DEF StageInv, scan
  <2> QED
    BY <1>1, <1>6, <2>1, <2>3, <2>5, <2>6, <2>7 DEF StepSound, IInv, Settles
<1> QED
  BY <1>7, <1>8, <1>9

(* A worker exits during the emergency drain.                              *)
LEMMA DrainExitStep ==
  ASSUME IInv, NEW g \in Groups, DrainExit(g)
  PROVE  StepSound
<1>1. /\ stage = "drain" /\ g \notin batch.members /\ MayExit(pool, g) /\ pool' = WorkerExited(pool, g)
      /\ UNCHANGED <<locks, stop, stage, catalog, scan, slots, turn, actor, planned, hosts, procs, news,
                     batch, failure>>
  BY DEF DrainExit, actors
<1>2. PoolInv(pool) /\ LeaseInv /\ ActorInv /\ SlotInv /\ StageInv
  BY DEF IInv
<1>3. /\ PoolInv(pool') /\ Settles(pool, pool')
      /\ pool'.stopped = pool.stopped /\ pool'.active = pool.active /\ pool'.worker = pool.worker \ {g}
      /\ pool'.begun = pool.begun /\ pool'.retired = pool.retired /\ pool'.canceled = pool.canceled
  BY <1>1, <1>2, ExitPool
<1>4. LeaseInv'
  BY <1>1, <1>2, <1>3, ExitLeases
<1>5. ActorInv'
  <2>1. batch.members \subseteq pool'.worker
    BY <1>1, <1>2, <1>3 DEF ActorInv
  <2>2. \A h \in Groups : ActorSound(h)'
    BY <1>1, <1>2, <1>3 DEF ActorInv, ActorSound, Down
  <2> QED
    BY <1>1, <1>2, <1>3, <2>1, <2>2 DEF ActorInv
<1>6. SlotInv'
  BY <1>1, <1>2 DEF SlotInv
<1>7. StageInv'
  BY <1>1, <1>2, <1>3 DEF StageInv, scan, Down
<1> QED
  BY <1>1, <1>3, <1>4, <1>5, <1>6, <1>7 DEF StepSound, IInv, Settles

(* The slots without the first.                                            *)
LEMMA TailSlot ==
  ASSUME NEW s \in Seq(Groups), Distinct(s), s # <<>>, NEW t, t = Tail(s)
  PROVE  /\ t \in Seq(Groups) /\ Len(t) = Len(s) - 1 /\ Distinct(t)
         /\ Head(s) \in Groups /\ Head(s) \in Range(s) /\ Range(t) = Range(s) \ {Head(s)}
<1>1. Len(s) \in Nat \ {0} /\ DOMAIN s = 1 .. Len(s)
  BY EmptySeq, LenProperties
<1>2. /\ Head(s) \in Groups /\ t \in Seq(Groups) /\ Len(t) = Len(s) - 1
      /\ \A i \in 1 .. Len(t) : t[i] = s[i + 1]
  BY HeadTailProperties
<1>3. Head(s) = s[1]
  OBVIOUS
<1>4. DOMAIN t = 1 .. Len(s) - 1
  BY <1>2, LenProperties
<1>5. Distinct(t)
  BY <1>1, <1>2 DEF Distinct
<1>6. Range(t) \subseteq Range(s) \ {s[1]}
  BY <1>1, <1>2, <1>4 DEF Range, Distinct
<1>7. ASSUME NEW x \in Range(s), x # s[1]
      PROVE  x \in Range(t)
  <2>1. PICK i \in 1 .. Len(s) : x = s[i] /\ i # 1
    BY <1>1, <1>7 DEF Range
  <2>2. i - 1 \in 1 .. Len(s) - 1 /\ t[i - 1] = s[i]
    BY <1>1, <1>2, <2>1
  <2> QED
    BY <1>4, <2>1, <2>2 DEF Range
<1>8. s[1] \in Range(s)
  BY <1>1 DEF Range
<1> QED
  BY <1>2, <1>3, <1>5, <1>6, <1>7, <1>8

(* EmergencyDrain settles an owner and releases its lease. *)
LEMMA FinalizeStep ==
  ASSUME IInv, NEW g \in Groups, FinalizeOwner(g)
  PROVE  StepSound
<1> DEFINE settled == IF g \in pool.retired \cup pool.canceled THEN pool
                      ELSE Complete(pool, g, "Interrupted")
<1>1. /\ stage = "drain" /\ pool.worker = {} /\ batch.members = {} /\ slots # <<>> /\ g = Head(slots)
      /\ UNCHANGED <<stop, catalog, scan, turn, actor, planned, hosts, procs, news, batch, failure>>
  BY DEF FinalizeOwner, Drained, actors
<1>2. PoolInv(pool) /\ LeaseInv /\ ActorInv /\ SlotInv /\ StageInv
  BY DEF IInv
<1>3. CASE stage' = "refused" /\ UNCHANGED <<pool, locks, slots>>
  <2>1. PoolQuiet(pool, pool')
    BY <1>2, <1>3, SameIsQuiet
  <2>2. SlotInv'
    BY <1>1, <1>2, <1>3 DEF SlotInv
  <2>3. StageInv'
    BY <1>1, <1>2, <1>3 DEF StageInv, scan, Down, Stages
  <2> QED
    BY <1>1, <1>3, <2>1, <2>2, <2>3, QuietStep DEF Down, actors
<1>4. CASE /\ g \in pool.retired \cup pool.canceled \/ StartedWorkerExited(pool, g)
           /\ MayRelease(locks, settled, g)
           /\ pool' = settled /\ locks' = Release(locks, settled, g)
           /\ slots' = Tail(slots) /\ UNCHANGED stage
  <2>1. /\ PoolInv(pool') /\ Settles(pool, pool') /\ pool'.stopped = pool.stopped
        /\ pool'.worker = pool.worker /\ pool'.begun = pool.begun /\ pool'.canceled = pool.canceled
        /\ \A h \in Groups \ {g} :
             /\ h \in pool'.active <=> h \in pool.active
             /\ h \in pool'.retired <=> h \in pool.retired
    <3>1. CASE g \in pool.retired \cup pool.canceled
      BY <1>2, <1>4, <3>1 DEF Settles
    <3>2. CASE g \notin pool.retired \cup pool.canceled
      <4>1. pool' = Complete(pool, g, "Interrupted") /\ MayComplete(pool, g) /\ g \notin pool.worker
        BY <1>4, <3>2 DEF StartedWorkerExited
      <4>2. "Interrupted" \in Outcomes
        BY DEF Outcomes
      <4> QED
        BY <1>2, <4>1, <4>2, CompletePool
    <3> QED
      BY <3>1, <3>2
  <2>2. MayRelease(locks, pool', g) /\ locks' = Release(locks, pool', g) /\ pool'.plan = pool.plan
    BY <1>4, <2>1 DEF Settles
  <2> HIDE DEF settled
  <2>3. /\ slots' \in Seq(Groups) /\ Len(slots') = Len(slots) - 1 /\ Distinct(slots')
        /\ g \in Range(slots) /\ Range(slots') = Range(slots) \ {g}
    BY <1>1, <1>2, <1>4, TailSlot DEF SlotInv
  <2>4. actor[g] # "none"
    BY <1>2, <2>3 DEF ActorInv, ActorSound
  <2>5. LeaseInv'
    <3>1. \A h \in Groups \ {g} :
            /\ h \in pool'.active \cup pool'.canceled <=> h \in pool.active \cup pool.canceled
            /\ h \in pool'.retired <=> h \in pool.retired
            /\ h \in pool.canceled => h \in pool'.canceled
            /\ actor'[h] = "none" <=> actor[h] = "none"
      BY <1>1, <2>1
    <3> QED
      BY <1>1, <1>2, <2>2, <2>3, <2>4, <3>1, ReleaseLeases
  <2>6. SlotInv'
    <3>1. Len(slots) \in Nat
      BY <1>2, LenProperties DEF SlotInv
    <3>2. catalog = FALSE
      BY <1>1, <1>2 DEF SlotInv, StageInv
    <3> QED
      BY <1>1, <1>2, <1>4, <2>3, <3>1, <3>2, WorkGroupAssumption DEF SlotInv
  <2>7. ActorInv'
    <3>1. \A h \in Groups : ActorSound(h)'
      BY <1>1, <1>2, <1>4, <2>1, <2>3 DEF ActorInv, ActorSound, Down
    <3> QED
      BY <1>1, <1>2, <1>4, <2>1, <3>1 DEF ActorInv
  <2>8. StageInv'
    BY <1>1, <1>2, <1>4, <2>1 DEF StageInv, scan, Down
  <2> QED
    BY <1>1, <2>1, <2>5, <2>6, <2>7, <2>8 DEF StepSound, IInv, Settles
<1> QED
  BY <1>3, <1>4 DEF FinalizeOwner

-----------------------------------------------------------------------------
(* A new pool of an accepted plan.                                         *)
LEMMA InitPoolSound ==
  ASSUME NEW plan \in AcceptedPlans, NEW q, q = InitPool(plan)
  PROVE  /\ PoolInv(q) /\ q.plan = plan /\ q.stopped = FALSE /\ q.active = {} /\ q.worker = {}
         /\ q.begun = {} /\ q.retired = {} /\ q.canceled = {}
<1>1. /\ q \in PoolType /\ q.plan = plan /\ q.stopped = FALSE
      /\ q.active = {} /\ q.worker = {} /\ q.begun = {} /\ q.retired = {} /\ q.canceled = {}
      /\ \A g \in Groups : q.groups[g] = "Pending" /\ q.outcome[g] = NoOutcome
      /\ \A p \in Projects : q.projects[p] = IF p \in Selected(plan) THEN "Pending" ELSE "NotSelected"
  BY DEF InitPool, PoolType, States, Unsettled, Outcomes
<1>2. GroupInv(q)
  BY <1>1 DEF GroupInv, Outcomes
<1>3. ProjectInv(q)
  <2> SUFFICES ASSUME NEW p \in Projects
               PROVE  ProjectSound(q, p)
    BY DEF ProjectInv
  <2>1. ByProject(plan, p) \subseteq Groups /\ (p \in Selected(plan) <=> ByProject(plan, p) # {})
    BY DEF ByProject, Selected
  <2> QED
    BY <1>1, <2>1 DEF ProjectSound, Unsettled
<1>4. OrderInv(q)
  BY <1>1 DEF OrderInv, Admitted
<1> QED
  BY <1>1, <1>2, <1>3, <1>4 DEF PoolInv

(* The coordinator starts with no slot, no lease and no actor.             *)
LEMMA InitSound ==
  ASSUME Init
  PROVE  IInv
<1>1. PICK plan \in Plans : pool = InitPool(plan)
  BY DEF Init
<1>2. /\ PoolInv(pool) /\ pool.plan = plan /\ pool.stopped = FALSE /\ pool.active = {}
      /\ pool.worker = {} /\ pool.begun = {} /\ pool.retired = {} /\ pool.canceled = {}
  BY <1>1, GroupRunAssumption, InitPoolSound
<1>3. Workers \in 1 .. 8 /\ 0 \notin Groups /\ MaxHosts \in Nat \ {0}
  BY WorkGroupAssumption, GroupRunAssumption
<1>4. Range(slots) = {} /\ slots \in Seq(Groups) /\ Len(slots) = 0
  BY DEF Init, Range
<1>5. LeaseInv
  BY <1>2, <1>3, <1>4 DEF Init, InitLocks, LeaseInv, Receipts, Admitted
<1>6. SlotInv
  BY <1>3, <1>4 DEF Init, SlotInv, Distinct
<1>7. ActorInv
  <2>1. \A g \in Groups : ActorSound(g)
    BY <1>2, <1>4 DEF Init, ActorSound, Working, NoBatch
  <2> QED
    BY <1>2, <1>3, <2>1 DEF Init, ActorInv, ActorStates, NoBatch
<1>8. StageInv
  BY <1>2 DEF Init, StageInv, Stages, Down
<1> QED
  BY <1>2, <1>5, <1>6, <1>7, <1>8 DEF IInv

(* Every step of the coordinator, its actors and their processes.          *)
LEMMA NextSound ==
  ASSUME IInv, Next
  PROVE  StepSound
<1>1. ASSUME NEW g \in Groups, Resume(g)
      PROVE  StepSound
  <2>1. CASE CloseFails(g)
    BY <2>1, ThrowStep DEF CloseFails
  <2> QED
    BY <1>1, <2>1, IdleSteps, StartStep, NoWorkerStep, WorkStep, LatchStep, GoneStep DEF Resume
<1>2. ASSUME NEW g \in Groups, Drain(g)
      PROVE  StepSound
  BY <1>2, LatchStep, DrainExitStep, FinalizeStep DEF Drain
<1>3. CASE DescendantsStay
  BY <1>3, ThrowStep DEF DescendantsStay
<1>4. CASE Coordinator
  BY <1>1, <1>2, <1>3, <1>4, TopStep, CallNextStep, BlockStep, AdmitStep, IdleSteps, RetireSteps,
     ReportStep DEF Coordinator, Filling
<1>5. CASE Environment
  BY <1>5, IdleSteps, RetireSteps DEF Environment
<1> QED
  BY <1>4, <1>5, IdleSteps DEF Next

(* A step that changes nothing.                                            *)
LEMMA StutterSound ==
  ASSUME IInv, UNCHANGED vars
  PROVE  IInv'
<1>1. UNCHANGED <<pool, locks, slots, actor, hosts, planned, batch, procs, stage, catalog, turn,
                  stop, cursor, again, news, failure>>
  BY DEF vars, scan, actors
<1>2. PoolQuiet(pool, pool')
  BY <1>1, SameIsQuiet DEF IInv
<1>3. SlotInv' /\ StageInv'
  BY <1>1 DEF IInv, SlotInv, StageInv, Done
<1>4. StepSound
  BY <1>1, <1>2, <1>3, QuietStep DEF actors
<1> QED
  BY <1>4 DEF StepSound

(* The inductive invariant holds in every run of the coordinator.           *)
THEOREM IInvHolds == Spec => []IInv
<1>1. Init => IInv
  BY InitSound
<1>2. IInv /\ [Next]_vars => IInv'
  BY NextSound, StutterSound DEF StepSound
<1> QED
  BY <1>1, <1>2, PTL DEF Spec

(* Processes are workers of the pool, whose owners hold their leases. *)
LEMMA ProcessOwners ==
  ASSUME IInv, NEW g \in procs
  PROVE  /\ g \in Groups /\ g \in pool.active /\ pool.groups[g] = "Running"
         /\ \A n \in pool.plan.names[g] : n \in Names /\ locks.holders[n] = g
<1>1. PoolInv(pool) /\ LeaseInv /\ ActorInv /\ pool \in PoolType /\ GroupInv(pool)
  BY DEF IInv, PoolInv
<1>2. g \in pool.worker /\ g \in Groups
  BY <1>1 DEF ActorInv, PoolType
<1>3. g \in pool.active /\ pool.groups[g] = "Running"
  BY <1>1, <1>2 DEF GroupInv
<1>4. locks.records[g] = "active"
  BY <1>1, <1>2, <1>3, OwnersHaveSlots DEF LeaseInv
<1>5. pool.plan.names[g] \subseteq Names
  BY <1>1, <1>2 DEF PoolType, AcceptedPlans, PlanType
<1> QED
  BY <1>1, <1>2, <1>3, <1>4, <1>5 DEF LeaseInv

(* A worker process runs only with its locks to itself and after what its   *)
(* project depends on: StartWorker and the scan of WorkGroupPool::Next with *)
(* the leases, through retries, stops and EmergencyDrain, for every plan.   *)
THEOREM RunsAreSound == Spec => []RunsSound
<1>1. IInv => RunsSound
  <2> SUFFICES ASSUME IInv
               PROVE  RunsSound
    OBVIOUS
  <2>0. PoolInv(pool) /\ LeaseInv /\ ActorInv /\ SlotInv /\ StageInv /\ pool \in PoolType /\ pool.plan \in Plans
    BY DEF IInv, PoolInv
  <2>1. TypeOK
    <3>1. pool \in [plan : Plans, stopped : BOOLEAN, projects : [Projects -> States],
               groups : [Groups -> States], started : SUBSET Projects, active : SUBSET Groups,
               worker : SUBSET Groups, begun : SUBSET Groups,
               outcome : [Groups -> Outcomes \cup {NoOutcome}],
               retired : SUBSET Groups, canceled : SUBSET Groups]
      BY <2>0 DEF PoolType
    <3>2. planned \subseteq Groups /\ procs \subseteq Groups
      BY <2>0 DEF ActorInv, PoolType
    <3> QED
      BY <2>0, <3>1, <3>2 DEF TypeOK, LeaseInv, ActorInv, SlotInv, StageInv, Failures
  <2>2. LockExclusion
    BY ProcessOwners DEF LockExclusion
  <2>3. RunsAfterDependencies
    <3> SUFFICES ASSUME NEW g \in procs, NEW q \in Projects
                 PROVE  LET p == pool.plan.project[g] IN
                        /\ q \in Dependencies(pool, p) => pool.projects[q] = "Passed"
                        /\ q \in Dependencies(pool, p) \/ (IsTeardown(pool, p) /\ ~IsTeardown(pool, q)) =>
                             pool.projects[q] \notin Unsettled /\ ByProject(pool.plan, q) \cap procs = {}
      BY DEF RunsAfterDependencies
    <3>1. RanAfter(pool, g)
      BY <2>0, ProcessOwners DEF PoolInv, OrderInv, Admitted
    <3>2. ASSUME pool.projects[q] \notin Unsettled
          PROVE  ByProject(pool.plan, q) \cap procs = {}
      <4>1. \A h \in ByProject(pool.plan, q) : pool.groups[h] \notin Unsettled
        BY <2>0, <3>2 DEF PoolInv, ProjectInv, ProjectSound
      <4> QED
        BY <4>1, ProcessOwners DEF Unsettled
    <3> QED
      BY <3>1, <3>2 DEF RanAfter, Unsettled
  <2> QED
    BY <2>1, <2>2, <2>3 DEF RunsSound
<1> QED
  BY <1>1, IInvHolds, PTL

(* What RunTestGroups reports at its end agrees with the receipts: a        *)
(* project passed if and only if all its groups ran and passed.             *)
THEOREM ReportsAreTrue == Spec => []ReportIsTrue
<1>1. IInv => ReportIsTrue
  <2> SUFFICES ASSUME IInv, stage = "published"
               PROVE  /\ \A p \in Projects :
                           LET states == {pool.groups[g] : g \in ByProject(pool.plan, p)} IN
                           /\ pool.projects[p] = "Passed" <=> (states = {"Passed"})
                           /\ pool.projects[p] = "Blocked" =>
                                \E d \in Dependencies(pool, p) :
                                  pool.projects[d] \in {"Failed", "Interrupted", "Blocked"}
                      /\ \A g \in Groups :
                           pool.groups[g] \in Outcomes <=>
                             (locks.records[g] = "physicalRetired" /\ hosts[g] > 0)
    BY DEF ReportIsTrue
  <2>0. PoolInv(pool) /\ LeaseInv /\ ActorInv /\ SlotInv /\ StageInv /\ pool \in PoolType /\ GroupInv(pool)
    BY DEF IInv, PoolInv
  <2>1. slots = <<>> /\ Range(slots) = {}
    BY <2>0 DEF SlotInv, Range
  <2>2. ASSUME NEW p \in Projects
        PROVE  /\ pool.projects[p] = "Passed" <=> ({pool.groups[g] : g \in ByProject(pool.plan, p)} = {"Passed"})
               /\ pool.projects[p] = "Blocked" =>
                    \E d \in Dependencies(pool, p) : pool.projects[d] \in {"Failed", "Interrupted", "Blocked"}
    <3>1. ProjectSound(pool, p) /\ pool.projects[p] \in States
      BY <2>0 DEF PoolInv, ProjectInv, PoolType
    <3>2. ASSUME {pool.groups[g] : g \in ByProject(pool.plan, p)} = {"Passed"}
          PROVE  pool.projects[p] = "Passed"
      <4>1. \A g \in ByProject(pool.plan, p) : pool.groups[g] = "Passed"
        BY <3>2
      <4>2. ByProject(pool.plan, p) # {}
        BY <3>2
      <4> QED
        BY <3>1, <4>1, <4>2 DEF ProjectSound, States, Unsettled, Outcomes
    <3>3. ASSUME pool.projects[p] = "Passed"
          PROVE  {pool.groups[g] : g \in ByProject(pool.plan, p)} = {"Passed"}
      <4>1. ByProject(pool.plan, p) # {} /\ \A g \in ByProject(pool.plan, p) : pool.groups[g] = "Passed"
        BY <3>1, <3>3 DEF ProjectSound
      <4> QED
        BY <4>1
    <3> QED
      BY <3>1, <3>2, <3>3 DEF ProjectSound
  <2>3. ASSUME NEW g \in Groups
        PROVE  pool.groups[g] \in Outcomes <=> (locks.records[g] = "physicalRetired" /\ hosts[g] > 0)
    <3>1. hosts[g] > 0 <=> g \in pool.begun
      <4>1. hosts[g] \in 0 .. MaxHosts /\ MaxHosts \in Nat
        BY <2>0, GroupRunAssumption DEF ActorInv
      <4> QED
        BY <2>0, <4>1 DEF ActorInv, ActorSound
    <3>2. locks.records[g] \in {"none", "physicalRetired", "neverStarted"}
      BY <2>0, <2>1 DEF LeaseInv, Receipts
    <3> QED
      BY <2>0, <3>1, <3>2 DEF LeaseInv, GroupInv, Admitted, Outcomes
  <2> QED
    BY <2>2, <2>3
<1> QED
  BY <1>1, IInvHolds, PTL

(* No check of the pool, the leases, the batch or the report throws.       *)
LEMMA PoliciesNeverThrow == IInv => OutsideFailure
<1> SUFFICES ASSUME IInv
             PROVE  OutsideFailure
  OBVIOUS
<1>1. StageInv /\ ActorInv /\ GroupInv(pool) /\ pool \in PoolType
  BY DEF IInv, PoolInv
<1>2. ASSUME failure = "complete"
      PROVE  \E g \in Range(slots) \cup pool.canceled : g \notin planned
  <2>1. PICK g \in pool.canceled : g \in Groups
    BY <1>1, <1>2 DEF StageInv, PoolType
  <2>2. g \notin planned
    BY <1>1, <2>1 DEF GroupInv, ActorInv
  <2> QED
    BY <2>2
<1> QED
  BY <1>1, <1>2 DEF OutsideFailure, StageInv

(* EmergencyDrain refuses no owner once every process and descendant has    *)
(* gone: each was canceled before its worker started, has retired, or is    *)
(* retired by the drain, and holds its names.                               *)
LEMMA DrainSettlesOwners ==
  ASSUME IInv, [Next]_vars, stage = "drain", Drained
  PROVE  stage' # "refused"
<1> SUFFICES ASSUME stage' = "refused"
             PROVE  FALSE
  OBVIOUS
<1>1. PICK g \in Groups : FinalizeOwner(g)
  <2>1. CASE UNCHANGED vars
    BY <2>1 DEF vars
  <2>2. CASE Environment
    BY <2>2 DEF Environment, RequestStop, DescendantsExit, HostSpeaks, ProcessExits
  <2>3. CASE Coordinator
    <3>1. \E g \in Groups : Drain(g)
      BY <2>3 DEF Coordinator, Top, Filling, CallNext, BlockProject, ScanAgain, AdmitGroup, AdmitTeardown,
           NothingReady, Resume, Resuming, Yield, StartWorker, NoWorker, Loaded, Close, CloseFails, Arrives,
           WorkerGone, EndOfPass, DescendantsStay, Report, DrainTick, DrainEnds, DrainExpires
    <3> QED
      BY <3>1 DEF Drain, DrainArrives, DrainExit
  <2> QED
    BY <2>1, <2>2, <2>3 DEF Next, Stay, Ended
<1>2. PoolInv(pool) /\ LeaseInv /\ SlotInv /\ StageInv /\ GroupInv(pool) /\ pool \in PoolType
  BY DEF IInv, PoolInv
<1>3. slots # <<>> /\ g = Head(slots) /\ pool.worker = {} /\ pool.stopped
  BY <1>1, <1>2 DEF FinalizeOwner, Drained, StageInv, Down
<1>4. g \in Range(slots)
  BY <1>2, <1>3, TailSlot DEF SlotInv
<1>5. locks.records[g] = "active" /\ g \in pool.active \cup pool.canceled
  BY <1>2, <1>4 DEF LeaseInv
<1>6. \A n \in pool.plan.names[g] : locks.holders[n] = g
  <2>1. pool.plan.names[g] \subseteq Names
    BY <1>2 DEF PoolType, AcceptedPlans, PlanType
  <2> QED
    BY <1>2, <1>5, <2>1 DEF LeaseInv
<1>7. CASE g \in pool.retired \cup pool.canceled
  <2>1. MayRelease(locks, pool, g)
    BY <1>5, <1>6, <1>7 DEF MayRelease
  <2> QED
    BY <1>1, <1>7, <2>1 DEF FinalizeOwner
<1>8. CASE g \notin pool.retired \cup pool.canceled
  <2>1. StartedWorkerExited(pool, g)
    BY <1>2, <1>3, <1>5, <1>8 DEF GroupInv, StartedWorkerExited, MayComplete
  <2> DEFINE q == Complete(pool, g, "Interrupted")
  <2>2. g \in q.retired /\ q.plan = pool.plan
    BY <1>2, <1>3 DEF Complete, Retire, UpdateProject, PoolType, NoOutcome
  <2>3. MayRelease(locks, q, g)
    <3> HIDE DEF q
    <3> QED  BY <1>5, <1>6, <2>2 DEF MayRelease
  <2> QED
    BY <1>1, <1>8, <2>1, <2>3 DEF FinalizeOwner
<1> QED
  BY <1>7, <1>8

(* No check of the pool, the leases, the batch or the report throws, and    *)
(* the emergency drain settles every owner: the run fails only when a       *)
(* worker cannot be had, or does not go away.                               *)
THEOREM OnlyOutsideFails == Spec => FailsOnlyFromOutside
<1>1. ASSUME IInv, IInv', [Next]_vars
      PROVE  OutsideFailure' /\ (stage = "drain" /\ Drained => stage' # "refused")
  <2>1. OutsideFailure'
    BY <1>1, PoliciesNeverThrow, PTL
  <2> QED
    BY <1>1, <2>1, DrainSettlesOwners
<1> QED
  BY <1>1, IInvHolds, PTL DEF Spec, FailsOnlyFromOutside

(* A settled project or group never changes (WorkGroupPool::UpdateProject,  *)
(* Block, Stop), so that dependents act on what is final.                   *)
THEOREM SettledIsFinal == Spec => SettledStays
<1>1. IInv /\ [Next]_vars =>
        [/\ \A p \in Projects : pool.projects[p] \notin Unsettled => pool'.projects[p] = pool.projects[p]
         /\ \A g \in Groups : pool.groups[g] \notin Unsettled => pool'.groups[g] = pool.groups[g]]_vars
  BY NextSound DEF StepSound, Settles
<1> QED
  BY <1>1, IInvHolds, PTL DEF Spec, SettledStays

(* Once the pool has stopped no process is started, not for a retry either. *)
THEOREM StoppedAdmitsNothing == Spec => StopAdmitsNothing
<1>1. IInv /\ [Next]_vars => [pool.stopped => procs' \subseteq procs]_vars
  BY NextSound DEF StepSound
<1> QED
  BY <1>1, IInvHolds, PTL DEF Spec, StopAdmitsNothing
=============================================================================
