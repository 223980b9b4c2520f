----------------------------- MODULE MCGroupRun -----------------------------
(* Small instances of a parallel run for TLC. *)
EXTENDS GroupRun
MCProjects == 1 .. 3
MCGroups == 1 .. 4
MCProject == <<1, 1, 2, 3>>
MCNoLocks == [g \in MCGroups |-> {}]

(* Every dependency graph of three projects and every teardown it allows,   *)
(* the first project having two groups; groups 1, 3 and 4 share a lock.     *)
EveryGraph ==
  {plan \in [deps : [MCProjects -> SUBSET MCProjects], teardowns : SUBSET MCProjects,
             project : {MCProject}, names : {MCNoLocks, <<{"l"}, {}, {"l"}, {"l"}>>},
             ignore : BOOLEAN] :
     plan \in AcceptedPlans /\ (plan.ignore => plan.deps[1] = {2} /\ plan.deps[2] = {})}

(* A project and its dependent, a teardown, and locks that cross both.      *)
OnePlan ==
  {[deps |-> <<{}, {1}, {}>>, teardowns |-> {3}, project |-> MCProject,
    names |-> <<{"l"}, {"k"}, {"l"}, {"k", "l"}>>, ignore |-> FALSE]}

(* Two projects of two groups each, with locks that leave one pair free.    *)
TwoProjects ==
  {[deps |-> <<{}, d, {}>>, teardowns |-> {}, project |-> <<1, 1, 2, 2>>,
    names |-> <<{"l"}, {"k"}, {"k"}, {"l"}>>, ignore |-> FALSE] : d \in {{}, {1}}}

LivePlans == OnePlan \cup TwoProjects
=============================================================================
