---------------------------- MODULE WorkGroupPool ----------------------------
(***************************************************************************)
(* The two policies of a parallel test run: WorkGroupPool decides which    *)
(* group of tests may be given a worker process, WorkGroupLocks which      *)
(* groups may run beside each other.  Both are values that the coordinator *)
(* (GroupRun) threads through its steps.                                   *)
(*                                                                         *)
(* A group is admitted at most once, so a group stands for its admission   *)
(* and no generation is kept; a worker's index and pid identify it to the  *)
(* pool, and here the group does.                                          *)
(***************************************************************************)
EXTENDS Integers, FiniteSets, FiniteSetsExt

CONSTANTS Projects,  \* the declared projects, in order: 1 .. n
          Groups,    \* the work groups of all projects, in order: 1 .. m
          Names,     \* names of resource locks
          Workers    \* limit_, 1 .. kWorkers

ASSUME WorkGroupAssumption ==
  /\ Projects \subseteq Nat \ {0} /\ Groups \subseteq Nat \ {0}
  /\ IsFiniteSet(Projects) /\ IsFiniteSet(Groups)
  /\ Workers \in 1 .. 8

Unsettled == {"Pending", "Running"}
Outcomes == {"Passed", "Failed", "Interrupted"}
States == Unsettled \cup Outcomes \cup {"NotSelected", "Blocked", "NotRun"}
Receipts == {"none", "active", "physicalRetired", "neverStarted"}
NoOutcome == "none"

(* A plan: dependencies and teardown projects, the project of each group,   *)
(* the lock names it inherits, and no_dependencies.                         *)
PlanType ==
  [deps : [Projects -> SUBSET Projects], teardowns : SUBSET Projects,
   project : [Groups -> Projects], names : [Groups -> SUBSET Names], ignore : BOOLEAN]

(* What ProjectGraph's constructor accepts: teardown projects have no       *)
(* dependencies and nothing depends on them, and there is no cycle: of any  *)
(* projects one depends on none of the others.                              *)
ProjectGraph(plan) ==
  /\ \A t \in plan.teardowns : plan.deps[t] = {} /\ \A p \in Projects : t \notin plan.deps[p]
  /\ \A S \in SUBSET Projects \ {{}} : \E p \in S : plan.deps[p] \cap S = {}

ByProject(plan, p) == {g \in Groups : plan.project[g] = p}
Selected(plan) == {p \in Projects : ByProject(plan, p) # {}}

(* What the pool's constructor accepts: unless dependencies are ignored,    *)
(* the selection is closed under them.                                      *)
AcceptedPlans ==
  {plan \in PlanType : /\ ProjectGraph(plan)
                       /\ plan.ignore \/ \A p \in Selected(plan) : plan.deps[p] \subseteq Selected(plan)}

(* active_ is split into the groups it holds (active), those whose owner    *)
(* has a worker, and those whose owner ever had one (begun).                *)
InitPool(plan) ==
  [plan |-> plan, stopped |-> FALSE,
   projects |-> [p \in Projects |-> IF p \in Selected(plan) THEN "Pending" ELSE "NotSelected"],
   groups |-> [g \in Groups |-> "Pending"],
   started |-> {}, active |-> {}, worker |-> {}, begun |-> {},
   outcome |-> [g \in Groups |-> NoOutcome], retired |-> {}, canceled |-> {}]

IsTeardown(pool, p) == ~pool.plan.ignore /\ p \in pool.plan.teardowns
Dependencies(pool, p) == IF pool.plan.ignore THEN {} ELSE pool.plan.deps[p]
Open(pool, p) == ~IsTeardown(pool, p) /\ pool.projects[p] \in Unsettled
Waiting_Unstarted(pool, p) == \E d \in Dependencies(pool, p) : pool.projects[d] = "Pending"
Waiting(pool, p) == \E d \in Dependencies(pool, p) : pool.projects[d] \in Unsettled
FailedDependency(pool, p) ==
  \E d \in Dependencies(pool, p) : pool.projects[d] \notin Unsettled \cup {"Passed"}
Ready(pool, p, Free) == {g \in ByProject(pool.plan, p) \cap Free : pool.groups[g] = "Pending"}

(* Next(): the projects at which its scan stops, to block or to admit.      *)
MayAdmit(pool) == ~pool.stopped /\ Cardinality(pool.active) < Workers
MayBlock(pool, p) == Open(pool, p) /\ FailedDependency(pool, p)
MayRun(pool, p, Free) ==
  /\ Open(pool, p) /\ ~FailedDependency(pool, p) /\ ~Waiting(pool, p)
  /\ Ready(pool, p, Free) # {}
OrdinarySettled(pool) == \A p \in Projects : ~Open(pool, p)
ReadyTeardowns(pool, Free) == {p \in Projects : IsTeardown(pool, p) /\ Ready(pool, p, Free) # {}}

Block(pool, p) ==
  [pool EXCEPT !.groups = [g \in Groups |-> IF g \in ByProject(pool.plan, p) THEN "Blocked" ELSE @[g]],
               !.projects[p] = "Blocked"]
BlockThrows(pool, p) == \E g \in ByProject(pool.plan, p) : pool.groups[g] # "Pending"

Admit(pool, g) ==
  [pool EXCEPT !.active = @ \cup {g}, !.groups[g] = "Running",
               !.projects[pool.plan.project[g]] = "Running"]

ProjectState_Uninterrupted(pool, p) ==
  LET states == {pool.groups[g] : g \in ByProject(pool.plan, p)} IN
  IF states \cap Unsettled # {} THEN "Running"
  ELSE IF "Failed" \in states THEN "Failed"
  ELSE IF "NotRun" \in states THEN "Interrupted" ELSE "Passed"

(* UpdateProject: a project's state from the states of its groups.          *)
ProjectState(pool, p) ==
  LET states == {pool.groups[g] : g \in ByProject(pool.plan, p)}
      begun == p \in pool.started IN
  CASE "Running" \in states -> "Running"
    [] "Running" \notin states /\ "Pending" \in states -> IF begun THEN "Running" ELSE "Pending"
    [] states \cap Unsettled = {} /\ "Failed" \in states -> "Failed"
    [] states \cap (Unsettled \cup {"Failed"}) = {} /\ "Interrupted" \in states -> "Interrupted"
    [] states \cap (Unsettled \cup {"Failed", "Interrupted"}) = {} /\ "NotRun" \in states ->
         IF begun THEN "Interrupted" ELSE "NotRun"
    [] OTHER -> "Passed"
UpdateProject(pool, p) == [pool EXCEPT !.projects[p] = ProjectState(pool, p)]

(* Retire: an owner with an outcome and without a worker is done.           *)
Retire(pool, g) ==
  IF g \in pool.worker \/ pool.outcome[g] = NoOutcome THEN pool
  ELSE UpdateProject([pool EXCEPT !.retired = @ \cup {g}, !.groups[g] = pool.outcome[g],
                                  !.active = @ \ {g}],
                     pool.plan.project[g])

MayStart(pool, g) == g \in pool.active \ pool.worker /\ pool.outcome[g] = NoOutcome
WorkerStarted(pool, g) ==
  [pool EXCEPT !.worker = @ \cup {g}, !.begun = @ \cup {g},
               !.started = @ \cup {pool.plan.project[g]}]

MayExit(pool, g) == g \in pool.active \cap pool.worker
WorkerExited(pool, g) == Retire([pool EXCEPT !.worker = @ \ {g}], g)

MayComplete(pool, g) == g \in pool.active \cap pool.begun /\ pool.outcome[g] = NoOutcome
Complete(pool, g, outcome) == Retire([pool EXCEPT !.outcome[g] = outcome], g)

StopGroups_KeepsReserved(pool) ==
  [pool EXCEPT !.stopped = TRUE,
               !.groups = [g \in Groups |-> IF @[g] = "Pending" THEN "NotRun" ELSE @[g]]]

(* Stop: owners that never had a worker are canceled, pending groups are    *)
(* not run, and owners with a worker stay.                                  *)
StopGroups(pool) ==
  LET never == pool.active \ pool.begun IN
  [pool EXCEPT !.stopped = TRUE, !.active = @ \ never, !.canceled = @ \cup never,
               !.groups = [g \in Groups |-> IF g \in never \/ @[g] = "Pending" THEN "NotRun" ELSE @[g]]]
Stop_Recomputes(pool) ==
  LET stopped == StopGroups(pool) IN
  [stopped EXCEPT !.projects = [p \in Projects |-> ProjectState(stopped, p)]]
Stop(pool) ==
  IF pool.stopped THEN pool
  ELSE LET stopped == StopGroups(pool) IN
       [stopped EXCEPT !.projects = [p \in Projects |-> IF @[p] \in Unsettled
                                                        THEN ProjectState(stopped, p) ELSE @[p]]]

ReservedBeforeStart(pool, g) == g \in pool.active \ pool.begun /\ pool.outcome[g] = NoOutcome
StartedWorkerExited(pool, g) == MayComplete(pool, g) /\ g \notin pool.worker
Done(pool) == pool.active = {} /\ \A g \in Groups : pool.groups[g] \notin Unsettled

-----------------------------------------------------------------------------
(* WorkGroupLocks: holders_ (0 for a free name), and a record per group.    *)
InitLocks == [holders |-> [n \in Names |-> 0], records |-> [g \in Groups |-> "none"]]

ActiveLeases(locks) == {g \in Groups : locks.records[g] = "active"}
CanAcquire_Unnamed(locks, plan, g) ==
  locks.records[g] = "none" /\ Cardinality(ActiveLeases(locks)) < 8
CanAcquire(locks, plan, g) ==
  /\ locks.records[g] = "none" /\ Cardinality(ActiveLeases(locks)) < 8
  /\ \A n \in plan.names[g] : locks.holders[n] = 0
Acquire(locks, plan, g) ==
  [locks EXCEPT !.holders = [n \in Names |-> IF n \in plan.names[g] THEN g ELSE @[n]],
                !.records[g] = "active"]

(* Release wants the pool's receipt for this admission, and throws when a   *)
(* name has another holder.                                                 *)
MayRelease(locks, pool, g) ==
  /\ locks.records[g] = "active" /\ g \in pool.retired \cup pool.canceled
  /\ \A n \in pool.plan.names[g] : locks.holders[n] = g
Release(locks, pool, g) ==
  [locks EXCEPT !.holders = [n \in Names |-> IF n \in pool.plan.names[g] THEN 0 ELSE @[n]],
                !.records[g] = IF g \in pool.retired THEN "physicalRetired" ELSE "neverStarted"]
=============================================================================
