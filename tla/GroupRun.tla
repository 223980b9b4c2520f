------------------------------ MODULE GroupRun ------------------------------
(***************************************************************************)
(* RunTestGroups: the coordinator of a parallel run and its actors, one    *)
(* for each admitted group.  They are coroutines of one thread.  A pass of *)
(* the coordinator's loop fills the free slots (Next of the pool, one step *)
(* for each project the scan stops at), resumes every actor once, and lets *)
(* the batch of descendants retire.  Worker processes exit, and the stop   *)
(* request arrives, at any time.                                           *)
(*                                                                         *)
(* An exception in the coordinator starts EmergencyDrain: the pool stops,  *)
(* every worker is killed, and the owners are settled when all have gone.  *)
(***************************************************************************)
EXTENDS WorkGroupPool, Sequences, SequencesExt

CONSTANTS Plans,    \* plans to consider
          MaxHosts, \* workers a group may use up: 1 + retries
          Faults    \* what else may happen

ASSUME GroupRunAssumption ==
  /\ Plans \subseteq AcceptedPlans
  /\ MaxHosts \in Nat \ {0}
  /\ Faults \subseteq {"stop", "load", "crash", "start", "stuck"}

VARIABLES
  pool, locks,  \* the two policies
  stop,         \* StopRequested
  stage,        \* where the coordinator is
  catalog,      \* the host that loaded the catalog has no group yet
  cursor,       \* Next: the project its scan has come to
  again,        \* Next: blocked, scan once more
  slots,        \* the groups that have an actor, in order
  turn,         \* the slot to resume
  actor,        \* how far each actor has come
  planned,      \* actors with a plan_: their tests have been loaded
  hosts,        \* workers each group has used
  procs,        \* groups whose worker process is running
  news,         \* actors whose worker has sent something
  batch,        \* ProjectDescendants: members, those arrived, retiring_, and
                \* whether the last descendant has gone
  failure       \* the exception that ended the run

vars == <<pool, locks, stop, stage, catalog, cursor, again, slots, turn, actor, planned, hosts,
          procs, news, batch, failure>>
scan == <<cursor, again>>
actors == <<actor, planned, hosts>>

Stages == {"top", "next", "scan", "resume", "report", "published", "drain", "failed", "refused"}
ActorStates == {"none", "reserved", "loading", "executing", "closing", "arrived", "retrying", "done"}
Failures == {"none", "blocked", "reserve", "started", "close", "arrive", "descendants", "exited",
             "complete", "release", "report"}
NoBatch == [members |-> {}, arrived |-> {}, retiring |-> FALSE, gone |-> FALSE]

Init ==
  /\ pool \in {InitPool(plan) : plan \in Plans}
  /\ locks = InitLocks
  /\ stop = FALSE /\ stage = "next" /\ catalog = TRUE
  /\ cursor = 0 /\ again = FALSE
  /\ slots = <<>> /\ turn = 1
  /\ actor = [g \in Groups |-> "none"] /\ planned = {} /\ hosts = [g \in Groups |-> 0]
  /\ procs = {} /\ news = {}
  /\ batch = NoBatch
  /\ failure = "none"

(* An exception leaves the loop: EmergencyDrain stops the pool at once.     *)
Throw(why, p) ==
  /\ stage' = "drain" /\ failure' = why /\ pool' = Stop(p)

CanEnroll == ~batch.retiring
Enroll(g) == [batch EXCEPT !.members = @ \cup {g}]
Arrive(g) ==
  LET arrived == batch.arrived \cup {g} IN
  [batch EXCEPT !.arrived = arrived, !.retiring = (arrived = batch.members)]

-----------------------------------------------------------------------------
(* Free: the groups CanAcquire lets through. *)
Free == {g \in Groups : CanAcquire(locks, pool.plan, g)}
Stops == {p \in Projects : p > cursor /\ (MayBlock(pool, p) \/ MayRun(pool, p, Free))}
NextStop == Min(Stops)

(* while(!pool.Done()||!slots.empty()), and what a pass begins with. *)
Top ==
  /\ stage = "top"
  /\ \/ /\ Done(pool) /\ slots = <<>>
        /\ stage' = "report" /\ UNCHANGED <<pool, turn>>
     \/ /\ ~(Done(pool) /\ slots = <<>>)
        /\ pool' = IF stop THEN Stop(pool) ELSE pool
        /\ stage' = IF CanEnroll /\ Len(slots) < Workers THEN "next" ELSE "resume"
        /\ turn' = 1
  /\ UNCHANGED <<locks, stop, catalog, scan, slots, actors, procs, news, batch, failure>>

(* Without an admission the first call closes the catalog's host. *)
NothingAdmitted == stage' = (IF catalog THEN "top" ELSE "resume") /\ catalog' = FALSE

(* next(): Stop if a stop was requested, then Next's guard. *)
CallNext ==
  /\ stage = "next"
  /\ pool' = IF stop THEN Stop(pool) ELSE pool
  /\ \/ MayAdmit(pool') /\ stage' = "scan" /\ cursor' = 0 /\ again' = FALSE /\ UNCHANGED catalog
     \/ ~MayAdmit(pool') /\ NothingAdmitted /\ UNCHANGED scan
  /\ UNCHANGED <<locks, stop, slots, turn, actors, procs, news, batch, failure>>

(* The scan blocks a project one of whose dependencies did not pass.        *)
BlockProject ==
  /\ stage = "scan" /\ Stops # {}
  /\ LET p == NextStop IN
     /\ MayBlock(pool, p)
     /\ IF BlockThrows(pool, p) THEN Throw("blocked", pool)
        ELSE pool' = Block(pool, p) /\ UNCHANGED <<stage, failure>>
     /\ cursor' = p /\ again' = TRUE
  /\ UNCHANGED <<locks, stop, catalog, slots, turn, actors, procs, news, batch>>

ScanAgain ==
  /\ stage = "scan" /\ Stops = {} /\ again
  /\ cursor' = 0 /\ again' = FALSE
  /\ UNCHANGED <<pool, locks, stop, stage, catalog, slots, turn, actors, procs, news, batch, failure>>

(* reserve(): the lease, and a slot.  The first group gets the catalog's    *)
(* host, which is running.                                                  *)
BorrowCatalog(admitted, g) ==
  /\ pool' = WorkerStarted(admitted, g)
  /\ actor' = [actor EXCEPT ![g] = "loading"] /\ hosts' = [hosts EXCEPT ![g] = 1]
  /\ procs' = procs \cup {g} /\ batch' = Enroll(g)
  /\ catalog' = FALSE /\ stage' = "top"
StageActor(admitted, g) ==
  /\ pool' = admitted
  /\ actor' = [actor EXCEPT ![g] = "reserved"]
  /\ stage' = IF Len(slots') < Workers THEN "next" ELSE "resume"
  /\ UNCHANGED <<catalog, hosts, procs, batch>>
Reserve(g) ==
  LET admitted == Admit(pool, g) IN
  /\ UNCHANGED planned
  /\ IF ReservedBeforeStart(admitted, g) /\ g \in Free /\ MayStart(admitted, g)
     THEN /\ locks' = Acquire(locks, pool.plan, g)
          /\ slots' = Append(slots, g)
          /\ IF catalog THEN BorrowCatalog(admitted, g) ELSE StageActor(admitted, g)
          /\ UNCHANGED failure
     ELSE /\ Throw("reserve", admitted)
          /\ UNCHANGED <<locks, catalog, slots, actor, hosts, procs, batch>>

AdmitGroup ==
  /\ stage = "scan" /\ Stops # {}
  /\ ~MayBlock(pool, NextStop)
  /\ Reserve(Min(Ready(pool, NextStop, Free)))
  /\ UNCHANGED <<stop, scan, turn, news>>

(* Teardown projects, once every other project has settled. *)
AdmitTeardown ==
  /\ stage = "scan" /\ Stops = {} /\ ~again
  /\ OrdinarySettled(pool) /\ ReadyTeardowns(pool, Free) # {}
  /\ Reserve(Min(Ready(pool, Min(ReadyTeardowns(pool, Free)), Free)))
  /\ UNCHANGED <<stop, scan, turn, news>>

NothingReady ==
  /\ stage = "scan" /\ Stops = {} /\ ~again
  /\ ~(OrdinarySettled(pool) /\ ReadyTeardowns(pool, Free) # {})
  /\ NothingAdmitted
  /\ UNCHANGED <<pool, locks, stop, scan, slots, turn, actors, procs, news, batch, failure>>

-----------------------------------------------------------------------------
(* Resuming the actors, in the order of their slots.                        *)
Resuming(g) == stage = "resume" /\ turn <= Len(slots) /\ g = slots[turn]
Moved(g, to) == actor' = [actor EXCEPT ![g] = to] /\ turn' = turn + 1 /\ UNCHANGED stage
Heard(g) == g \in news \/ g \notin procs

(* An actor that waits, for its worker, its batch or a free batch, yields.  *)
Waits(g) ==
  \/ actor[g] \in {"reserved", "retrying"} /\ ~stop /\ ~CanEnroll
  \/ actor[g] \in {"loading", "executing"} /\ ~Heard(g)
  \/ actor[g] = "closing" /\ g \in procs
  \/ actor[g] = "arrived" /\ g \in batch.members
Yield(g) ==
  /\ Resuming(g) /\ Waits(g)
  /\ turn' = turn + 1
  /\ UNCHANGED <<pool, locks, stop, stage, catalog, scan, slots, actors, procs, news, batch, failure>>

StartWorker_AfterStop(g) ==
  /\ Resuming(g) /\ actor[g] \in {"reserved", "retrying"} /\ CanEnroll
  /\ procs' = procs \cup {g} /\ hosts' = [hosts EXCEPT ![g] = @ + 1]
  /\ batch' = Enroll(g) /\ pool' = WorkerStarted(pool, g) /\ Moved(g, "loading")
  /\ UNCHANGED <<locks, stop, catalog, scan, slots, planned, news, failure>>

(* StartWorker: a process, its place in the batch, and the pool's receipt.  *)
(* What the actor cleans up after an exception is left to the drain.        *)
StartWorker(g) ==
  /\ Resuming(g) /\ actor[g] \in {"reserved", "retrying"} /\ ~stop /\ CanEnroll
  /\ procs' = procs \cup {g} /\ hosts' = [hosts EXCEPT ![g] = @ + 1]
  /\ IF Cardinality(batch.members) < 8 /\ MayStart(pool, g)
     THEN /\ batch' = Enroll(g)
          /\ pool' = WorkerStarted(pool, g)
          /\ Moved(g, "loading") /\ UNCHANGED failure
     ELSE Throw("started", pool) /\ UNCHANGED <<actor, turn, batch>>
  /\ UNCHANGED <<locks, stop, catalog, scan, slots, planned, news>>

(* The worker has loaded its suite, and runs tests.  MaxHosts bounds the    *)
(* retries.                                                                 *)
Loaded(g) ==
  /\ Resuming(g) /\ actor[g] = "loading" /\ g \in news /\ g \in procs /\ ~stop
  /\ planned' = planned \cup {g} /\ Moved(g, "executing")
  /\ news' = news \ {g}
  /\ UNCHANGED <<pool, locks, stop, catalog, scan, slots, hosts, procs, batch, failure>>

(* CloseWorker is called: the tests are done, one failed, the worker died,  *)
(* a stop was requested, or loading failed.                                 *)
Close(g) ==
  /\ Resuming(g) /\ Heard(g)
  /\ \/ actor[g] = "executing"
     \/ actor[g] = "loading" /\ (stop \/ g \notin procs \/ "load" \in Faults)
  /\ Moved(g, "closing")
  /\ news' = news \ {g}
  /\ UNCHANGED <<pool, locks, stop, catalog, scan, slots, planned, hosts, procs, batch, failure>>

(* CloseWorker throws, or gives up: the actor still owns its process.       *)
CloseFails(g) ==
  /\ "stuck" \in Faults /\ Resuming(g) /\ actor[g] = "closing"
  /\ Throw("close", pool)
  /\ UNCHANGED <<locks, stop, catalog, scan, slots, turn, actors, procs, news, batch>>

(* RetireDescendants, after the exit: the worker arrives in its batch.      *)
Arrives(g) ==
  /\ Resuming(g) /\ actor[g] = "closing" /\ g \notin procs
  /\ IF ~batch.retiring /\ g \in batch.members \ batch.arrived
     THEN batch' = Arrive(g) /\ Moved(g, "arrived") /\ UNCHANGED <<pool, failure>>
     ELSE Throw("arrive", pool) /\ UNCHANGED <<batch, actor, turn>>
  /\ UNCHANGED <<locks, stop, catalog, scan, slots, planned, hosts, procs, news>>

(* The tail of RunActor: Complete with the outcome, or, before there is a   *)
(* plan, with what the stop request says; then the lease, and the slot.     *)
Finished(p, g) ==
  IF g \in planned
  THEN {Complete(p, g, outcome) : outcome \in IF MayComplete(p, g) THEN Outcomes ELSE {}}
  ELSE LET q == IF stop THEN Stop(p) ELSE p IN
       IF g \in q.canceled THEN {q}
       ELSE IF StartedWorkerExited(q, g) THEN {Complete(q, g, IF stop THEN "Interrupted" ELSE "Failed")}
       ELSE {}
Finish(p, g) ==
  \/ Finished(p, g) = {} /\ Throw("complete", p) /\ UNCHANGED <<locks, slots, turn, actor>>
  \/ \E q \in Finished(p, g) :
       IF MayRelease(locks, q, g)
       THEN /\ pool' = q /\ locks' = Release(locks, q, g)
            /\ actor' = [actor EXCEPT ![g] = "done"]
            /\ slots' = RemoveAt(slots, turn)
            /\ UNCHANGED <<stage, turn, failure>>
       ELSE Throw("release", q) /\ UNCHANGED <<locks, slots, turn, actor>>

(* ProjectWorkerExited, and then another worker or the end.                 *)
Retries(g) ==
  /\ g \in planned /\ hosts[g] < MaxHosts
  /\ pool' = WorkerExited(pool, g)
  /\ Moved(g, "retrying") /\ UNCHANGED <<locks, slots, failure>>
WorkerGone(g) ==
  /\ Resuming(g) /\ actor[g] = "arrived" /\ g \notin batch.members
  /\ IF MayExit(pool, g) THEN Retries(g) \/ Finish(WorkerExited(pool, g), g)
     ELSE Throw("exited", pool) /\ UNCHANGED <<locks, slots, turn, actor>>
  /\ UNCHANGED <<stop, catalog, scan, planned, hosts, procs, news, batch>>

(* StartWorker throws: a stop was requested, or no worker can be had.       *)
NoWorker(g) ==
  /\ Resuming(g) /\ actor[g] \in {"reserved", "retrying"}
  /\ stop \/ ("start" \in Faults /\ CanEnroll)
  /\ Finish(pool, g)
  /\ UNCHANGED <<stop, catalog, scan, planned, hosts, procs, news, batch>>

BatchAfterTick_StaysClosed == IF batch.gone THEN [NoBatch EXCEPT !.retiring = TRUE] ELSE batch
(* The end of a pass: TickDescendants. *)
BatchAfterTick == IF batch.gone THEN NoBatch ELSE batch
EndOfPass ==
  /\ stage = "resume" /\ turn > Len(slots)
  /\ stage' = "top" /\ batch' = BatchAfterTick
  /\ UNCHANGED <<pool, locks, stop, catalog, scan, slots, turn, actors, procs, news, failure>>

(* Tick throws when the descendants outlive their six seconds.              *)
DescendantsStay ==
  /\ stage = "resume" /\ turn > Len(slots)
  /\ "stuck" \in Faults /\ batch.retiring /\ ~batch.gone
  /\ Throw("descendants", pool)
  /\ UNCHANGED <<locks, stop, catalog, scan, slots, turn, actors, procs, news, batch>>

(* The report wants every receipt.                                          *)
Reportable ==
  /\ procs = {} /\ pool.worker = {} /\ batch.members = {} /\ ActiveLeases(locks) = {}
  /\ \A g \in Groups :
       /\ pool.groups[g] \notin Unsettled
       /\ locks.records[g] # "none" => g \in pool.retired \cup pool.canceled
  /\ \A p \in Projects :
       /\ pool.projects[p] \notin Unsettled
       /\ pool.projects[p] = "Passed" => ByProject(pool.plan, p) \subseteq pool.retired
Report ==
  /\ stage = "report"
  /\ IF Reportable THEN stage' = "published" /\ UNCHANGED <<pool, failure>> ELSE Throw("report", pool)
  /\ UNCHANGED <<locks, stop, catalog, scan, slots, turn, actors, procs, news, batch>>

-----------------------------------------------------------------------------
(* EmergencyDrain: workers are killed, retire with their batch, and then    *)
(* every owner is settled and its lease released.                           *)
DrainArrives(g) ==
  /\ stage = "drain" /\ g \in batch.members \ batch.arrived /\ g \notin procs
  /\ batch' = Arrive(g)
  /\ UNCHANGED <<pool, locks, stop, stage, catalog, scan, slots, turn, actors, procs, news, failure>>

DrainTick ==
  /\ stage = "drain" /\ batch.gone
  /\ batch' = BatchAfterTick
  /\ UNCHANGED <<pool, locks, stop, stage, catalog, scan, slots, turn, actors, procs, news, failure>>

DrainExit(g) ==
  /\ stage = "drain" /\ g \notin procs \cup batch.members /\ MayExit(pool, g)
  /\ pool' = WorkerExited(pool, g)
  /\ UNCHANGED <<locks, stop, stage, catalog, scan, slots, turn, actors, procs, news, batch, failure>>

Drained == procs = {} /\ batch.members = {} /\ pool.worker = {}
FinalizeOwner(g) ==
  LET settled == IF g \in pool.retired \cup pool.canceled THEN pool
                 ELSE Complete(pool, g, "Interrupted") IN
  /\ stage = "drain" /\ Drained /\ slots # <<>> /\ g = Head(slots)
  /\ IF /\ g \in pool.retired \cup pool.canceled \/ StartedWorkerExited(pool, g)
        /\ MayRelease(locks, settled, g)
     THEN /\ pool' = settled /\ locks' = Release(locks, settled, g)
          /\ slots' = Tail(slots) /\ UNCHANGED stage
     ELSE stage' = "refused" /\ UNCHANGED <<pool, locks, slots>>
  /\ UNCHANGED <<stop, catalog, scan, turn, actors, procs, news, batch, failure>>

DrainEnds ==
  /\ stage = "drain" /\ Drained /\ slots = <<>>
  /\ stage' = "failed"
  /\ UNCHANGED <<pool, locks, stop, catalog, scan, slots, turn, actors, procs, news, batch, failure>>

(* Six seconds were not enough. *)
DrainExpires ==
  /\ stage = "drain" /\ "stuck" \in Faults /\ ~Drained
  /\ stage' = "refused"
  /\ UNCHANGED <<pool, locks, stop, catalog, scan, slots, turn, actors, procs, news, batch, failure>>

-----------------------------------------------------------------------------
(* What the coordinator does not decide.                                    *)
Ended == stage \in {"published", "failed", "refused"}

RequestStop ==
  /\ "stop" \in Faults /\ ~stop /\ ~Ended
  /\ stop' = TRUE
  /\ UNCHANGED <<pool, locks, stage, catalog, scan, slots, turn, actors, procs, news, batch, failure>>

HostSpeaks(g) ==
  /\ g \in procs \ news /\ actor[g] \in {"loading", "executing"} /\ stage # "drain"
  /\ news' = news \cup {g}
  /\ UNCHANGED <<pool, locks, stop, stage, catalog, scan, slots, turn, actors, procs, batch, failure>>

ProcessExits(g) ==
  /\ g \in procs
  /\ "crash" \in Faults \/ actor[g] = "closing" \/ stage = "drain"
  /\ procs' = procs \ {g}
  /\ UNCHANGED <<pool, locks, stop, stage, catalog, scan, slots, turn, actors, news, batch, failure>>

DescendantsExit ==
  /\ batch.retiring /\ ~batch.gone
  /\ batch' = [batch EXCEPT !.gone = TRUE]
  /\ UNCHANGED <<pool, locks, stop, stage, catalog, scan, slots, turn, actors, procs, news, failure>>

Stay == Ended /\ UNCHANGED vars

Filling == CallNext \/ BlockProject \/ ScanAgain \/ AdmitGroup \/ AdmitTeardown \/ NothingReady
Resume(g) ==
  \/ Yield(g) \/ StartWorker(g) \/ NoWorker(g) \/ Loaded(g) \/ Close(g) \/ CloseFails(g)
  \/ Arrives(g) \/ WorkerGone(g)
Drain(g) == DrainArrives(g) \/ DrainExit(g) \/ FinalizeOwner(g)
Coordinator ==
  \/ Top \/ Filling \/ (\E g \in Groups : Resume(g) \/ Drain(g))
  \/ EndOfPass \/ DescendantsStay \/ Report \/ DrainTick \/ DrainEnds \/ DrainExpires
Environment ==
  RequestStop \/ DescendantsExit \/ (\E g \in Groups : HostSpeaks(g) \/ ProcessExits(g))
Next == Coordinator \/ Environment \/ Stay

(* The coordinator's thread runs.  A worker answers or reaches a deadline,  *)
(* one that is to close exits or is killed, and so are its descendants.     *)
Fairness ==
  /\ WF_vars(Coordinator)
  /\ \A g \in Groups :
       /\ WF_vars(HostSpeaks(g))
       /\ WF_vars(ProcessExits(g) /\ (actor[g] = "closing" \/ stage = "drain"))
  /\ WF_vars(DescendantsExit)
Spec == Init /\ [][Next]_vars /\ Fairness

-----------------------------------------------------------------------------
(* The shape of the state.  No group uses up more workers than its retries  *)
(* allow, and no more actors live than there are slots.                     *)
TypeOK ==
  /\ pool \in [plan : Plans, stopped : BOOLEAN, projects : [Projects -> States],
               groups : [Groups -> States], started : SUBSET Projects, active : SUBSET Groups,
               worker : SUBSET Groups, begun : SUBSET Groups,
               outcome : [Groups -> Outcomes \cup {NoOutcome}],
               retired : SUBSET Groups, canceled : SUBSET Groups]
  /\ locks \in [holders : [Names -> Groups \cup {0}], records : [Groups -> Receipts]]
  /\ stop \in BOOLEAN /\ stage \in Stages /\ catalog \in BOOLEAN
  /\ cursor \in Projects \cup {0} /\ again \in BOOLEAN
  /\ slots \in Seq(Groups) /\ Len(slots) <= Workers /\ turn \in 1 .. Workers + 1
  /\ actor \in [Groups -> ActorStates] /\ planned \subseteq Groups
  /\ hosts \in [Groups -> 0 .. MaxHosts]
  /\ procs \subseteq Groups /\ news \subseteq Groups
  /\ batch \in [members : SUBSET Groups, arrived : SUBSET Groups, retiring : BOOLEAN, gone : BOOLEAN]
  /\ failure \in Failures

(* Two worker processes that run at the same time never belong to groups    *)
(* that share a lock name: a lease outlives the processes it stands for,    *)
(* through retries, stops and the emergency drain.                          *)
LockExclusion ==
  \A g, h \in procs : g # h => pool.plan.names[g] \cap pool.plan.names[h] = {}

(* While a worker process runs, every project it depends on has passed and  *)
(* has no process left; for a teardown project, every other project has     *)
(* settled.  ("prove dependency and teardown callbacks begin only after     *)
(* actual predecessor exit", project_parallel_plan.md:80.)                  *)
RunsAfterDependencies ==
  \A g \in procs :
    LET p == pool.plan.project[g] IN
    \A q \in Projects :
      /\ q \in Dependencies(pool, p) => pool.projects[q] = "Passed"
      /\ q \in Dependencies(pool, p) \/ (IsTeardown(pool, p) /\ ~IsTeardown(pool, q)) =>
           pool.projects[q] \notin Unsettled /\ ByProject(pool.plan, q) \cap procs = {}

(* A worker process runs only when its group may: with its locks to itself, *)
(* after what its project depends on, and within its slots and retries.     *)
RunsSound == TypeOK /\ LockExclusion /\ RunsAfterDependencies

(* What a published report says: a project passed only if each of its       *)
(* groups ran and passed, and is blocked only by one that did not pass; a   *)
(* group that was not stopped or blocked has a receipt of its worker.       *)
ReportIsTrue ==
  stage = "published" =>
    /\ \A p \in Projects :
         LET states == {pool.groups[g] : g \in ByProject(pool.plan, p)} IN
         /\ pool.projects[p] = "Passed" <=> (states = {"Passed"})
         /\ pool.projects[p] = "Blocked" =>
              \E d \in Dependencies(pool, p) : pool.projects[d] \in {"Failed", "Interrupted", "Blocked"}
    /\ \A g \in Groups :
         pool.groups[g] \in Outcomes <=> (locks.records[g] = "physicalRetired" /\ hosts[g] > 0)

(* The exceptions of the policies themselves never happen: the run fails    *)
(* only when a worker cannot be had, or does not go away.  Nor does         *)
(* EmergencyDrain refuse with "lacks exact actual owner" whatever an actor  *)
(* was doing when another one threw: once every process and descendant is   *)
(* gone, it finds for each owner of a slot a receipt that settles it.       *)
OutsideFailure ==
  /\ failure \in {"none", "close", "descendants", "complete"}
  /\ failure = "complete" => \E g \in Range(slots) \cup pool.canceled : g \notin planned
  /\ failure # "none" => Faults \cap {"stuck", "start"} # {}
FailsOnlyFromOutside ==
  [][OutsideFailure' /\ (stage = "drain" /\ Drained => stage' # "refused")]_vars

(* What a project's dependents act on is final: a settled project never     *)
(* changes, nor does a settled group.                                       *)
SettledStays ==
  [][/\ \A p \in Projects : pool.projects[p] \notin Unsettled => pool'.projects[p] = pool.projects[p]
     /\ \A g \in Groups : pool.groups[g] \notin Unsettled => pool'.groups[g] = pool.groups[g]]_vars

(* Once the pool has stopped, for a stop request or for the drain, no       *)
(* worker process is started, not for a retry either ("no ordinary queued   *)
(* callback is admitted afterward", project_parallel_plan.md).              *)
StopAdmitsNothing ==
  [][pool.stopped => procs' \subseteq procs]_vars

(* Locks, dependencies, capacity and the batch of descendants never wait    *)
(* for each other in a circle: every run ends.                              *)
RunEnds == <>Ended
=============================================================================
