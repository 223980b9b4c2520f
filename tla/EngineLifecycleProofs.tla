------------------------ MODULE EngineLifecycleProofs ------------------------
(***************************************************************************)
(* What EngineLifecycle keeps for every set of command ids, pages and      *)
(* jobs and for every capacity.  The inductive invariant IInv has three    *)
(* parts:                                                                  *)
(*   RegistryInv  the registry's entries have generations of their own,    *)
(*                its counters count them, and each operation that is no   *)
(*                longer registered was answered once;                     *)
(*   PageInv      a callback that creates a page belongs to the operation  *)
(*                that reserved it, no page is created twice, and a page   *)
(*                that is open was handed to its creator;                  *)
(*   StateInv     the types of the rest, and what closing means: CloseAll  *)
(*                has answered every operation, and the fence commits only *)
(*                in an Engine that closes.                                *)
(***************************************************************************)
EXTENDS EngineLifecycle, FiniteSetTheorems, TLAPS

(* The ids registered as ordinary commands, and as controls. *)
OrdinaryOps == {i \in DOMAIN operations : ~operations[i].control}
ControlOps == {i \in DOMAIN operations : operations[i].control}

RegistryInv ==
  /\ DOMAIN operations \subseteq Ids /\ IsFiniteSet(DOMAIN operations)
  /\ \A i \in DOMAIN operations : operations[i] \in Entry /\ operations[i].generation <= generation
  /\ \A i, j \in DOMAIN operations : i # j => operations[i].generation # operations[j].generation
  /\ generation \in 0 .. MaxGeneration
  /\ answers \in [Generations -> Seq(0 .. MaxGeneration)]
  /\ ordinary = Cardinality(OrdinaryOps) /\ ordinary <= OrdinaryCap
  /\ controls = Cardinality(ControlOps) /\ controls <= ControlCap
  /\ AnsweredOnce

PageInv ==
  /\ pages \in [Pages -> PageStates] /\ creator \in [Pages -> 0 .. MaxGeneration]
  /\ callbacks \subseteq [id : Ids, generation : Generations, page : Pages \cup {0}]
  /\ \A c \in callbacks : c.page # 0 => creator[c.page] = c.generation /\ pages[c.page] # "absent"
  /\ NoOrphanPages

StateInv ==
  /\ timer \in BOOLEAN /\ closing \in BOOLEAN /\ refused \in BOOLEAN
  /\ download \in [Pages -> DownloadStates]
  /\ descriptor \in [Pages -> BOOLEAN] /\ finishing \in [Pages -> BOOLEAN]
  /\ work \subseteq Works /\ fence \in {"idle", "queued", "committed"}
  /\ closing => DOMAIN operations = {}
  /\ fence = "committed" => closing

IInv == RegistryInv /\ PageInv /\ StateInv

(***************************************************************************)
(* The registry.                                                           *)
(***************************************************************************)

(* CompleteContext of a set of operations for one reason, and of one       *)
(* operation by its own callback.                                          *)
Completes ==
  \E S \in SUBSET DOMAIN operations, by \in 0 .. MaxGeneration :
    /\ Complete(S, by)
    /\ by = 0 \/ \A i \in S : operations[i].generation = by

(* An answer that is the first one. *)
LEMMA FirstAnswer == \A x : Append(<<>>, x) = <<x>>
  OBVIOUS

(* A removal from a class of operations takes its size from the counter.   *)
LEMMA CountAfterRemoval ==
  ASSUME NEW D, IsFiniteSet(D), NEW S \in SUBSET D
  PROVE  /\ Cardinality(D \ S) = Cardinality(D) - Cardinality(S)
         /\ Cardinality(D \ S) \in Nat /\ Cardinality(S) \in Nat
<1>1. IsFiniteSet(S) /\ S = D \cap S
  BY FS_Subset
<1>2. IsFiniteSet(D \ S)
  BY FS_Difference
<1> QED  BY <1>1, <1>2, FS_Difference, FS_CardinalityType, SMTT(40), ZenonT(60)

(* Both classes are finite, and so are their counters.                     *)
LEMMA ClassesFinite ==
  RegistryInv => /\ IsFiniteSet(OrdinaryOps) /\ IsFiniteSet(ControlOps)
                 /\ Cardinality(OrdinaryOps) \in Nat /\ Cardinality(ControlOps) \in Nat
<1>1. OrdinaryOps \subseteq DOMAIN operations /\ ControlOps \subseteq DOMAIN operations
  BY DEF OrdinaryOps, ControlOps
<1> QED  BY <1>1, FS_Subset, FS_CardinalityType DEF RegistryInv

(* Completing operations keeps the registry: they are answered once, by    *)
(* what was done for them, and leave their counters.                       *)
LEMMA CompleteRegistry == RegistryInv /\ Completes => RegistryInv'
<1> SUFFICES ASSUME RegistryInv, Completes PROVE RegistryInv'
  OBVIOUS
<1>1. PICK S \in SUBSET DOMAIN operations, by \in 0 .. MaxGeneration :
         Complete(S, by) /\ (by = 0 \/ \A i \in S : operations[i].generation = by)
  BY DEF Completes
<1>2. /\ DOMAIN operations' = DOMAIN operations \ S
      /\ \A i \in DOMAIN operations \ S : operations'[i] = operations[i]
      /\ generation' = generation
  BY <1>1 DEF Complete
<1>3. DOMAIN operations' \subseteq Ids /\ IsFiniteSet(DOMAIN operations')
  BY <1>2, FS_Subset DEF RegistryInv
<1>4. /\ \A i \in DOMAIN operations' : operations'[i] \in Entry /\ operations'[i].generation <= generation'
      /\ \A i, j \in DOMAIN operations' : i # j => operations'[i].generation # operations'[j].generation
      /\ generation' \in 0 .. MaxGeneration
  BY <1>2 DEF RegistryInv
<1>5. /\ ordinary' = Cardinality(OrdinaryOps') /\ ordinary' <= OrdinaryCap
      /\ controls' = Cardinality(ControlOps') /\ controls' <= ControlCap
  <2> DEFINE T == {i \in S : ~operations[i].control}
             U == {i \in S : operations[i].control}
  <2>1. OrdinaryOps' = OrdinaryOps \ T /\ ControlOps' = ControlOps \ U
    BY <1>2 DEF OrdinaryOps, ControlOps
  <2>2. T \subseteq OrdinaryOps /\ U \subseteq ControlOps
    BY DEF OrdinaryOps, ControlOps
  <2>3. ordinary' = ordinary - Cardinality(T) /\ controls' = controls - Cardinality(U)
    BY <1>1 DEF Complete
  <2> HIDE DEF T, U
  <2>4. /\ Cardinality(OrdinaryOps') = Cardinality(OrdinaryOps) - Cardinality(T)
        /\ Cardinality(ControlOps') = Cardinality(ControlOps) - Cardinality(U)
        /\ Cardinality(T) \in Nat /\ Cardinality(U) \in Nat
    BY <2>1, <2>2, ClassesFinite, CountAfterRemoval
  <2> QED  BY <2>3, <2>4, ClassesFinite, EngineAssumption DEF RegistryInv
<1>6. ASSUME NEW g \in Generations
      PROVE  /\ answers'[g] \in Seq(0 .. MaxGeneration)
             /\ answers'[g] \in IF g > generation' \/ \E i \in DOMAIN operations' : operations'[i].generation = g
                                THEN {<<>>} ELSE {<<0>>, <<g>>}
  <2>1. answers'[g] = IF \E i \in S : operations[i].generation = g THEN Append(answers[g], by) ELSE answers[g]
    BY <1>1 DEF Complete
  <2>2. CASE \E i \in S : operations[i].generation = g
    <3>1. PICK i \in S : operations[i].generation = g
      BY <2>2
    <3>2. answers[g] = <<>>
      BY <3>1 DEF RegistryInv, AnsweredOnce
    <3>3. answers'[g] = <<by>>
      BY <2>1, <2>2, <3>2, FirstAnswer
    <3>4. by \in {0, g}
      BY <1>1, <3>1
    <3>5. ~(g > generation) /\ ~ \E j \in DOMAIN operations \ S : operations[j].generation = g
      BY <3>1 DEF RegistryInv, Generations, Entry
    <3> QED  BY <1>2, <3>3, <3>4, <3>5
  <2>3. CASE ~ \E i \in S : operations[i].generation = g
    BY <1>2, <2>1, <2>3 DEF RegistryInv, AnsweredOnce
  <2> QED  BY <2>2, <2>3
<1>7. answers' \in [Generations -> Seq(0 .. MaxGeneration)]
  <2>1. answers' = [g \in Generations |-> answers'[g]]
    BY <1>1 DEF Complete
  <2> QED  BY <1>6, <2>1
<1> QED  BY <1>3, <1>4, <1>5, <1>6, <1>7 DEF RegistryInv, AnsweredOnce

(* Route keeps the registry: the new operation has a generation and a      *)
(* place of its own.                                                       *)
LEMMA BeginRegistry ==
  ASSUME RegistryInv, NEW id \in Ids, NEW control \in BOOLEAN, NEW deadline \in {"none", "ahead"},
         NEW p \in Pages \cup {0}, Begin(id, control, deadline, p)
  PROVE  RegistryInv'
<1> DEFINE new == [generation |-> generation + 1, control |-> control, deadline |-> deadline]
<1>1. /\ id \notin DOMAIN operations /\ HasRoom(control) /\ generation < MaxGeneration
      /\ generation' = generation + 1 /\ answers' = answers
      /\ operations' = [i \in DOMAIN operations \cup {id} |-> IF i = id THEN new ELSE operations[i]]
  BY DEF Begin
<1>2. new \in Entry /\ new.generation = generation + 1 /\ new.control = control
  BY <1>1, EngineAssumption DEF RegistryInv, Entry, Generations
<1> HIDE DEF new
<1>3. /\ DOMAIN operations' = DOMAIN operations \cup {id} /\ operations'[id] = new
      /\ \A i \in DOMAIN operations : operations'[i] = operations[i]
  BY <1>1
<1>4. DOMAIN operations' \subseteq Ids /\ IsFiniteSet(DOMAIN operations')
  BY <1>3, FS_AddElement DEF RegistryInv
<1>5. /\ \A i \in DOMAIN operations' : operations'[i] \in Entry /\ operations'[i].generation <= generation'
      /\ \A i, j \in DOMAIN operations' : i # j => operations'[i].generation # operations'[j].generation
      /\ generation' \in 0 .. MaxGeneration
  BY <1>1, <1>2, <1>3, EngineAssumption, SMTT(40), ZenonT(60) DEF RegistryInv, Entry, Generations
<1>6. /\ ordinary' = Cardinality(OrdinaryOps') /\ ordinary' <= OrdinaryCap
      /\ controls' = Cardinality(ControlOps') /\ controls' <= ControlCap
  <2>1. CASE control
    <3>1. /\ OrdinaryOps' = OrdinaryOps
          /\ ControlOps' = ControlOps \cup {id} /\ id \notin ControlOps
      BY <1>1, <1>2, <1>3, <2>1 DEF OrdinaryOps, ControlOps
    <3>2. Cardinality(ControlOps') = Cardinality(ControlOps) + 1
      BY <3>1, ClassesFinite, FS_AddElement
    <3>3. controls' = controls + 1 /\ ordinary' = ordinary /\ controls < ControlCap
      BY <1>1, <2>1 DEF Begin, HasRoom
    <3> QED  BY <3>1, <3>2, <3>3, ClassesFinite, EngineAssumption DEF RegistryInv
  <2>2. CASE ~control
    <3>1. /\ ControlOps' = ControlOps
          /\ OrdinaryOps' = OrdinaryOps \cup {id} /\ id \notin OrdinaryOps
      BY <1>1, <1>2, <1>3, <2>2 DEF OrdinaryOps, ControlOps
    <3>2. Cardinality(OrdinaryOps') = Cardinality(OrdinaryOps) + 1
      BY <3>1, ClassesFinite, FS_AddElement
    <3>3. ordinary' = ordinary + 1 /\ controls' = controls /\ ordinary < OrdinaryCap
      BY <1>1, <2>2 DEF Begin, HasRoom
    <3> QED  BY <3>1, <3>2, <3>3, ClassesFinite, EngineAssumption DEF RegistryInv
  <2> QED  BY <2>1, <2>2
<1>7. AnsweredOnce'
  <2> SUFFICES ASSUME NEW g \in Generations
      PROVE  answers[g] \in IF g > generation' \/ \E i \in DOMAIN operations' : operations'[i].generation = g
                            THEN {<<>>} ELSE {<<0>>, <<g>>}
    BY <1>1 DEF AnsweredOnce
  <2>1. g > generation' \/ (\E i \in DOMAIN operations' : operations'[i].generation = g)
        <=> g > generation \/ (\E i \in DOMAIN operations : operations[i].generation = g)
    <3>1. CASE g = generation + 1
      BY <1>1, <1>2, <1>3, <3>1 DEF RegistryInv
    <3>2. CASE g # generation + 1
      <4>1. g > generation' <=> g > generation
        BY <1>1, <3>2 DEF RegistryInv, Generations
      <4>2. (\E i \in DOMAIN operations' : operations'[i].generation = g)
            <=> \E i \in DOMAIN operations : operations[i].generation = g
        BY <1>1, <1>2, <1>3, <3>2
      <4> QED  BY <4>1, <4>2
    <3> QED  BY <3>1, <3>2
  <2> QED  BY <2>1 DEF RegistryInv, AnsweredOnce
<1> QED  BY <1>1, <1>4, <1>5, <1>6, <1>7 DEF RegistryInv

(* A deadline that passes changes nothing else of its operation.           *)
LEMMA DeadlineRegistry ==
  ASSUME RegistryInv, NEW id \in DOMAIN operations, DeadlinePasses(id)
  PROVE  RegistryInv'
<1>1. /\ DOMAIN operations' = DOMAIN operations
      /\ UNCHANGED <<ordinary, controls, generation, answers>>
      /\ operations' = [operations EXCEPT ![id].deadline = "passed"]
  BY DEF DeadlinePasses
<1>2. \A i \in DOMAIN operations : /\ operations'[i] \in Entry
                                   /\ operations'[i].generation = operations[i].generation
                                   /\ operations'[i].control = operations[i].control
  BY <1>1 DEF RegistryInv, Entry
<1>3. OrdinaryOps' = OrdinaryOps /\ ControlOps' = ControlOps
  BY <1>1, <1>2 DEF OrdinaryOps, ControlOps
<1>4. AnsweredOnce'
  BY <1>1, <1>2 DEF RegistryInv, AnsweredOnce
<1>5. /\ DOMAIN operations' \subseteq Ids /\ IsFiniteSet(DOMAIN operations')
      /\ \A i \in DOMAIN operations' : operations'[i] \in Entry /\ operations'[i].generation <= generation'
      /\ \A i, j \in DOMAIN operations' : i # j => operations'[i].generation # operations'[j].generation
  <2>1. DOMAIN operations' \subseteq Ids /\ IsFiniteSet(DOMAIN operations')
    BY <1>1 DEF RegistryInv
  <2>2. \A i \in DOMAIN operations' : operations'[i] \in Entry /\ operations'[i].generation <= generation'
    BY <1>1, <1>2 DEF RegistryInv
  <2>3. \A i, j \in DOMAIN operations' : i # j => operations'[i].generation # operations'[j].generation
    BY <1>1, <1>2 DEF RegistryInv
  <2> QED  BY <2>1, <2>2, <2>3
<1>6. /\ ordinary' = Cardinality(OrdinaryOps') /\ ordinary' <= OrdinaryCap
      /\ controls' = Cardinality(ControlOps') /\ controls' <= ControlCap
      /\ generation' \in 0 .. MaxGeneration /\ answers' \in [Generations -> Seq(0 .. MaxGeneration)]
  BY <1>1, <1>3 DEF RegistryInv
<1> QED  BY <1>4, <1>5, <1>6 DEF RegistryInv

(* The registry does not notice what leaves its variables alone.           *)
LEMMA StillRegistry == RegistryInv /\ UNCHANGED registryVars => RegistryInv'
  BY DEF RegistryInv, registryVars, OrdinaryOps, ControlOps, AnsweredOnce

(* A step of the registry: a command is routed, operations are completed,  *)
(* a deadline passes, or nothing.                                          *)
Routes ==
  \E id \in Ids, control \in BOOLEAN, deadline \in {"none", "ahead"}, p \in Pages \cup {0} :
    Begin(id, control, deadline, p)
RegistryStep ==
  \/ Routes \/ Completes
  \/ \E id \in DOMAIN operations : DeadlinePasses(id)
  \/ UNCHANGED registryVars

(* The callback of an operation that is still registered completes it and  *)
(* no other; a late one leaves the registry alone.                         *)
LEMMA CallbackCompletes ==
  ASSUME RegistryInv, PageInv, NEW c \in callbacks,
         IF IsCurrent(c) THEN Complete({c.id}, c.generation) ELSE UNCHANGED registryVars
  PROVE  Completes \/ UNCHANGED registryVars
<1>1. CASE IsCurrent(c)
  <2>1. Complete({c.id}, c.generation)
    BY <1>1
  <2>2. {c.id} \in SUBSET DOMAIN operations /\ \A i \in {c.id} : operations[i].generation = c.generation
    BY <1>1 DEF IsCurrent
  <2>3. c.generation \in 0 .. MaxGeneration
    BY EngineAssumption DEF PageInv, Generations
  <2> QED  BY <2>1, <2>2, <2>3 DEF Completes
<1>2. CASE ~IsCurrent(c)
  BY <1>2
<1> QED  BY <1>1, <1>2

(* Every step of the Engine is a step of the registry.                     *)
LEMMA NextIsRegistryStep == RegistryInv /\ PageInv /\ [Next]_vars => RegistryStep
<1> SUFFICES ASSUME RegistryInv, PageInv, [Next]_vars PROVE RegistryStep
  OBVIOUS
<1>1. CASE Routes
  BY <1>1 DEF RegistryStep
<1>2. ASSUME NEW c \in callbacks, Callback(c) \/ \E left \in {"closed", "leaving"} : CreationFails(c, left)
      PROVE  RegistryStep
  <2>1. IF IsCurrent(c) THEN Complete({c.id}, c.generation) ELSE UNCHANGED registryVars
    BY <1>2 DEF Callback, CreationFails
  <2> QED  BY <2>1, CallbackCompletes DEF RegistryStep
<1>3. ASSUME NEW id \in DOMAIN operations, Cancel(id) PROVE RegistryStep
  <2>1. Complete({id}, 0) /\ {id} \in SUBSET DOMAIN operations
    BY <1>3 DEF Cancel
  <2> QED  BY <2>1, EngineAssumption DEF Completes, RegistryStep
<1>4. ASSUME NEW id \in DOMAIN operations, DeadlinePasses(id) PROVE RegistryStep
  BY <1>4 DEF RegistryStep
<1>5. ASSUME NEW p \in Pages,
             \/ \E refuse \in BOOLEAN : DownloadStarts(p, refuse)
             \/ \E ended \in BOOLEAN : DownloadUpdated(p, ended)
             \/ CancelDownload(p) \/ FileCloses(p) \/ FinishTask(p)
             \/ ClosePage(p) \/ PageDrained(p) \/ PageClosed(p)
      PROVE  RegistryStep
  BY <1>5 DEF RegistryStep, DownloadStarts, DownloadUpdated, CancelDownload, FileCloses, FinishTask,
       ClosePage, PageDrained, PageClosed
<1>6. ASSUME NEW w, WorkStarts(w) \/ WorkSettles(w) PROVE RegistryStep
  BY <1>6 DEF RegistryStep, WorkStarts, WorkSettles
<1>7. CASE Deadlines
  <2>1. Complete({i \in DOMAIN operations : operations[i].deadline = "passed"}, 0)
    BY <1>7 DEF Deadlines
  <2> QED  BY <2>1, EngineAssumption DEF Completes, RegistryStep
<1>8. CASE CloseAll
  <2>1. Complete(DOMAIN operations, 0)
    BY <1>8 DEF CloseAll
  <2> QED  BY <2>1, EngineAssumption DEF Completes, RegistryStep
<1>9. CASE QuitTask \/ UNCHANGED vars
  BY <1>9 DEF RegistryStep, QuitTask, vars
<1>10. DownloadPages \subseteq Pages
  BY EngineAssumption
<1> QED  BY <1>1, <1>2, <1>3, <1>4, <1>5, <1>6, <1>7, <1>8, <1>9, <1>10 DEF Next, Routes

(* The registry's part of the invariant is inductive.                      *)
LEMMA RegistryNext == RegistryInv /\ RegistryStep => RegistryInv'
  BY BeginRegistry, CompleteRegistry, DeadlineRegistry, StillRegistry DEF RegistryStep, Routes

(* An answer is final: no step adds to an operation that has one.          *)
LEMMA AnswersStay ==
  RegistryInv /\ RegistryStep => \A g \in Generations : answers[g] # <<>> => answers'[g] = answers[g]
<1> SUFFICES ASSUME RegistryInv, RegistryStep, NEW g \in Generations, answers[g] # <<>>
             PROVE  answers'[g] = answers[g]
  OBVIOUS
<1>1. CASE Completes
  <2>1. PICK S \in SUBSET DOMAIN operations, by \in 0 .. MaxGeneration : Complete(S, by)
    BY <1>1 DEF Completes
  <2>2. ~ \E i \in DOMAIN operations : operations[i].generation = g
    BY DEF RegistryInv, AnsweredOnce
  <2> QED  BY <2>1, <2>2 DEF Complete
<1>2. CASE UNCHANGED answers
  BY <1>2
<1> QED  BY <1>1, <1>2 DEF RegistryStep, Routes, Begin, DeadlinePasses, registryVars

(***************************************************************************)
(* The pages.                                                              *)
(***************************************************************************)

(* A step that neither reserves nor opens a page keeps PageInv.            *)
LEMMA QuietPages ==
  ASSUME RegistryInv, RegistryStep, PageInv,
         UNCHANGED creator, callbacks' \subseteq callbacks,
         pages' \in [Pages -> PageStates],
         \A p \in Pages : /\ pages'[p] = "absent" => pages[p] = "absent"
                          /\ pages'[p] = "open" => pages[p] = "open"
  PROVE  PageInv'
<1>1. callbacks' \subseteq [id : Ids, generation : Generations, page : Pages \cup {0}]
  BY DEF PageInv
<1>2. \A c \in callbacks' : c.page # 0 => creator'[c.page] = c.generation /\ pages'[c.page] # "absent"
  BY DEF PageInv
<1>3. NoOrphanPages'
  <2> SUFFICES ASSUME NEW p \in Pages, pages'[p] = "open", creator'[p] # 0
               PROVE  answers'[creator'[p]] = <<creator'[p]>>
    BY DEF NoOrphanPages
  <2>1. creator[p] \in Generations /\ answers[creator[p]] = <<creator[p]>>
    BY EngineAssumption DEF PageInv, NoOrphanPages, Generations
  <2>2. answers[creator[p]] # <<>>
    BY <2>1
  <2>3. answers'[creator[p]] = answers[creator[p]]
    BY <2>1, <2>2, AnswersStay
  <2> QED  BY <2>1, <2>3
<1> QED  BY <1>1, <1>2, <1>3 DEF PageInv

(* Route of a newPage command reserves an absent page for its operation.   *)
LEMMA BeginPages ==
  ASSUME RegistryInv, PageInv, NEW id \in Ids, NEW control \in BOOLEAN,
         NEW deadline \in {"none", "ahead"}, NEW p \in Pages \cup {0}, Begin(id, control, deadline, p)
  PROVE  PageInv'
<1> DEFINE new == [id |-> id, generation |-> generation + 1, page |-> p]
<1>1. /\ generation < MaxGeneration /\ generation \in 0 .. MaxGeneration /\ answers' = answers
      /\ p # 0 => pages[p] = "absent"
      /\ callbacks' = callbacks \cup {new}
      /\ pages' = [q \in Pages |-> IF q = p THEN "creating" ELSE pages[q]]
      /\ creator' = [q \in Pages |-> IF q = p THEN generation + 1 ELSE creator[q]]
  BY DEF Begin, RegistryInv
<1>2. new \in [id : Ids, generation : Generations, page : Pages \cup {0}]
  BY <1>1, EngineAssumption DEF Generations
<1>3. pages' \in [Pages -> PageStates] /\ creator' \in [Pages -> 0 .. MaxGeneration]
  BY <1>1, EngineAssumption DEF PageInv, PageStates
<1>4. \A c \in callbacks' : c.page # 0 => creator'[c.page] = c.generation /\ pages'[c.page] # "absent"
  <2> SUFFICES ASSUME NEW c \in callbacks', c.page # 0
               PROVE  creator'[c.page] = c.generation /\ pages'[c.page] # "absent"
    OBVIOUS
  <2>1. CASE c = new
    BY <1>1, <1>2, <2>1
  <2>2. CASE c \in callbacks
    <3>1. c.page \in Pages /\ creator[c.page] = c.generation /\ pages[c.page] # "absent"
      BY <2>2 DEF PageInv
    <3> QED  BY <1>1, <3>1
  <2> QED  BY <1>1, <2>1, <2>2
<1>5. NoOrphanPages'
  BY <1>1 DEF PageInv, NoOrphanPages
<1> QED  BY <1>1, <1>2, <1>3, <1>4, <1>5 DEF PageInv

(* CEF has created a browser: the page is handed to the operation that     *)
(* reserved it if that is still waiting, and is closed again otherwise.    *)
LEMMA CallbackPages ==
  ASSUME RegistryInv, RegistryStep, PageInv, NEW c \in callbacks, Callback(c)
  PROVE  PageInv'
<1>1. /\ callbacks' \subseteq callbacks /\ creator' = creator
      /\ pages' = [p \in Pages |-> IF p = c.page THEN Created(c) ELSE pages[p]]
  BY DEF Callback
<1>2. Created(c) \in {"open", "draining"}
  BY DEF Created
<1>3. pages' \in [Pages -> PageStates]
  BY <1>1, <1>2 DEF PageInv, PageStates
<1>4. CASE IsCurrent(c) /\ c.page \in Pages
  <2>1. /\ c.page # 0 /\ creator[c.page] = c.generation /\ c.generation \in Generations
        /\ c.id \in DOMAIN operations /\ operations[c.id].generation = c.generation
    BY <1>4, EngineAssumption DEF PageInv, IsCurrent
  <2>2. answers[c.generation] = <<>>
    BY <2>1 DEF RegistryInv, AnsweredOnce
  <2>3. answers'[c.generation] = <<c.generation>>
    <3>1. Complete({c.id}, c.generation)
      BY <1>4 DEF Callback
    <3>2. answers'[c.generation] = Append(answers[c.generation], c.generation)
      BY <2>1, <3>1 DEF Complete
    <3> QED  BY <2>2, <3>2, FirstAnswer
  <2>4. NoOrphanPages'
    <3> SUFFICES ASSUME NEW p \in Pages, pages'[p] = "open", creator'[p] # 0
                 PROVE  answers'[creator'[p]] = <<creator'[p]>>
      BY DEF NoOrphanPages
    <3>1. CASE p = c.page
      BY <1>1, <2>1, <2>3, <3>1
    <3>2. CASE p # c.page
      <4>1. creator[p] \in Generations /\ answers[creator[p]] = <<creator[p]>>
        BY <1>1, <3>2, EngineAssumption DEF PageInv, NoOrphanPages, Generations
      <4> QED  BY <1>1, <4>1, AnswersStay
    <3> QED  BY <3>1, <3>2
  <2>5. \A d \in callbacks' : d.page # 0 => creator'[d.page] = d.generation /\ pages'[d.page] # "absent"
    BY <1>1, <1>2 DEF PageInv
  <2> QED  BY <1>1, <1>3, <2>4, <2>5 DEF PageInv
<1>5. CASE ~(IsCurrent(c) /\ c.page \in Pages)
  <2>1. \A p \in Pages : /\ pages'[p] = "absent" => pages[p] = "absent"
                         /\ pages'[p] = "open" => pages[p] = "open"
    BY <1>1, <1>5 DEF Created
  <2> QED  BY <1>1, <1>3, <2>1, QuietPages
<1> QED  BY <1>4, <1>5

(* What BeginPageClose and CheckClosures may do to a page. *)
LEMMA ClosingPages ==
  ASSUME PageInv, NEW S, NEW where \in [Pages -> PageStates], NEW record
  PROVE  /\ BeginClose(S) \in [Pages -> PageStates]
         /\ \A p \in Pages : BeginClose(S)[p] \in {"doomed", "draining", pages[p]}
         /\ Released(where, record) \in [Pages -> PageStates]
         /\ \A p \in Pages : Released(where, record)[p] \in {"leaving", where[p]}
  BY DEF PageInv, BeginClose, Released, PageStates

(* PageInv is inductive, given the registry's part.                        *)
LEMMA PagesNext == RegistryInv /\ PageInv /\ [Next]_vars => PageInv'
<1> SUFFICES ASSUME RegistryInv, PageInv, [Next]_vars PROVE PageInv'
  OBVIOUS
<1>1. RegistryStep
  BY NextIsRegistryStep
<1>2. CASE Routes
  BY <1>2, BeginPages DEF Routes
<1>3. ASSUME NEW c \in callbacks, Callback(c) PROVE PageInv'
  BY <1>1, <1>3, CallbackPages
<1>4. ASSUME NEW c \in callbacks, NEW left \in {"closed", "leaving"}, CreationFails(c, left) PROVE PageInv'
  <2>1. /\ UNCHANGED creator /\ callbacks' \subseteq callbacks
        /\ pages' = [pages EXCEPT ![c.page] = left]
    BY <1>4 DEF CreationFails
  <2>2. pages' \in [Pages -> PageStates]
    BY <2>1 DEF PageInv, PageStates
  <2>3. \A p \in Pages : pages'[p] \in {left, pages[p]}
    BY <2>1 DEF PageInv
  <2> QED  BY <1>1, <2>1, <2>2, <2>3, QuietPages
<1>5. ASSUME UNCHANGED <<callbacks, pages, creator>> PROVE PageInv'
  <2>1. pages' \in [Pages -> PageStates]
    BY <1>5 DEF PageInv
  <2> QED  BY <1>1, <1>5, <2>1, QuietPages
<1>6. ASSUME NEW p \in Pages,
             \/ \E refuse \in BOOLEAN : DownloadStarts(p, refuse)
             \/ \E ended \in BOOLEAN : DownloadUpdated(p, ended)
             \/ CancelDownload(p) \/ FileCloses(p)
      PROVE  PageInv'
  BY <1>5, <1>6 DEF DownloadStarts, DownloadUpdated, CancelDownload, FileCloses, pageVars
<1>7. ASSUME NEW p \in Pages, FinishTask(p) PROVE PageInv'
  <2>1. pages' = Released(pages, download') /\ UNCHANGED <<callbacks, creator>>
    BY <1>7 DEF FinishTask
  <2>2. pages \in [Pages -> PageStates]
    BY DEF PageInv
  <2> QED  BY <1>1, <2>1, <2>2, ClosingPages, QuietPages
<1>8. ASSUME NEW p \in Pages, ClosePage(p) PROVE PageInv'
  <2>1. pages' = BeginClose({p}) /\ UNCHANGED <<callbacks, creator>>
    BY <1>8 DEF ClosePage
  <2>2. pages \in [Pages -> PageStates]
    BY DEF PageInv
  <2> QED  BY <1>1, <2>1, <2>2, ClosingPages, QuietPages
<1>9. ASSUME NEW p \in Pages, PageDrained(p) PROVE PageInv'
  <2> DEFINE where == [pages EXCEPT ![p] = "closing"]
             record == Canceled({p})
  <2>1. pages' = Released(where, record) /\ UNCHANGED <<callbacks, creator>>
    BY <1>9 DEF PageDrained
  <2>2. where \in [Pages -> PageStates] /\ \A q \in Pages : where[q] \in {"closing", pages[q]}
    BY DEF PageInv, PageStates
  <2> HIDE DEF where, record
  <2>3. pages' \in [Pages -> PageStates] /\ \A q \in Pages : pages'[q] \in {"leaving", "closing", pages[q]}
    BY <2>1, <2>2, ClosingPages
  <2> QED  BY <1>1, <2>1, <2>3, QuietPages
<1>10. ASSUME NEW p \in Pages, PageClosed(p) PROVE PageInv'
  <2>1. pages' = [pages EXCEPT ![p] = "closed"] /\ UNCHANGED <<callbacks, creator>>
    BY <1>10 DEF PageClosed
  <2>2. pages' \in [Pages -> PageStates] /\ \A q \in Pages : pages'[q] \in {"closed", pages[q]}
    BY <2>1 DEF PageInv, PageStates
  <2> QED  BY <1>1, <2>1, <2>2, QuietPages
<1>11. CASE Deadlines
  <2>1. pages' = Released(pages, Ticked) /\ UNCHANGED <<callbacks, creator>>
    BY <1>11 DEF Deadlines
  <2>2. pages \in [Pages -> PageStates]
    BY DEF PageInv
  <2> QED  BY <1>1, <2>1, <2>2, ClosingPages, QuietPages
<1>12. CASE CloseAll
  <2>1. pages' = BeginClose(Pages) /\ UNCHANGED <<callbacks, creator>>
    BY <1>12 DEF CloseAll
  <2>2. pages \in [Pages -> PageStates]
    BY DEF PageInv
  <2> QED  BY <1>1, <2>1, <2>2, ClosingPages, QuietPages
<1>13. ASSUME NEW w, WorkStarts(w) \/ WorkSettles(w) PROVE PageInv'
  BY <1>5, <1>13 DEF WorkStarts, WorkSettles, pageVars
<1>14. ASSUME NEW id, Cancel(id) \/ DeadlinePasses(id) PROVE PageInv'
  BY <1>5, <1>14 DEF Cancel, DeadlinePasses, pageVars
<1>15. CASE QuitTask \/ UNCHANGED vars
  BY <1>5, <1>15 DEF QuitTask, vars, pageVars
<1>16. DownloadPages \subseteq Pages
  BY EngineAssumption
<1> QED  BY <1>2, <1>3, <1>4, <1>6, <1>7, <1>8, <1>9, <1>10, <1>11, <1>12, <1>13, <1>14, <1>15, <1>16 DEF Next, Routes

(***************************************************************************)
(* The rest of the state, and the theorems.                                *)
(***************************************************************************)

(* Asking for the shutdown never commits it.                               *)
LEMMA IdleEffect ==
  ASSUME StateInv, Idle
  PROVE  fence' \in {fence, "queued"} /\ refused' \in BOOLEAN
  BY DEF StateInv, Idle

(* What the steps of the download protocol leave is a table of records.    *)
LEMMA DownloadTypes ==
  ASSUME StateInv, NEW S
  PROVE  Canceled(S) \in [Pages -> DownloadStates] /\ Ticked \in [Pages -> DownloadStates]
  BY DEF StateInv, Canceled, Ticked, DownloadStates

(* A registered operation means that the Engine does not close.            *)
LEMMA ClosingNext ==
  ASSUME RegistryInv, PageInv, StateInv, [Next]_vars, closing'
  PROVE  DOMAIN operations' = {}
<1>1. CASE closing
  <2>1. DOMAIN operations = {}
    BY <1>1 DEF StateInv
  <2>2. ~Routes
    BY <1>1 DEF Routes, Begin, Accepting
  <2>3. CASE Completes
    BY <2>1, <2>3 DEF Completes, Complete
  <2> QED  BY <2>1, <2>2, <2>3, NextIsRegistryStep DEF RegistryStep, registryVars
<1>2. CASE ~closing
  <2>1. CloseAll
    BY <1>2 DEF Next, Begin, Callback, CreationFails, Cancel, DeadlinePasses, DownloadStarts,
         DownloadUpdated, CancelDownload, FileCloses, FinishTask, ClosePage, PageDrained, PageClosed,
         WorkStarts, WorkSettles, Deadlines, QuitTask, vars
  <2> QED  BY <2>1 DEF CloseAll, Complete
<1> QED  BY <1>1, <1>2

(* StateInv is inductive, given the other two parts.                       *)
LEMMA StateNext == RegistryInv /\ PageInv /\ StateInv /\ [Next]_vars => StateInv'
<1> SUFFICES ASSUME RegistryInv, PageInv, StateInv, [Next]_vars PROVE StateInv'
  OBVIOUS
<1> DEFINE Files == /\ download' \in [Pages -> DownloadStates]
                    /\ descriptor' \in [Pages -> BOOLEAN] /\ finishing' \in [Pages -> BOOLEAN]
           Ends == /\ fence' \in {"idle", "queued", "committed"} /\ refused' \in BOOLEAN
                   /\ work' \subseteq Works
                   /\ timer' \in BOOLEAN /\ closing' \in BOOLEAN /\ (closing => closing')
                   /\ fence' = "committed" => closing'
<1>1. closing' => DOMAIN operations' = {}
  BY ClosingNext
<1>2. SUFFICES Files /\ Ends
  BY <1>1 DEF StateInv
<1>3. UNCHANGED downloadVars => Files
  BY DEF StateInv, downloadVars
<1>4. UNCHANGED <<fence, refused, work, closing>> /\ timer' \in BOOLEAN => Ends
  BY DEF StateInv
<1>5. CASE Routes
  BY <1>3, <1>4, <1>5 DEF Routes, Begin, WakeTimer
<1>6. ASSUME NEW c \in callbacks, Callback(c) PROVE Files /\ Ends
  BY <1>3, <1>4, <1>6 DEF Callback, StateInv
<1>7. ASSUME NEW c \in callbacks, NEW left, CreationFails(c, left) PROVE Files /\ Ends
  <2>1. UNCHANGED <<timer, closing, work>> /\ UNCHANGED downloadVars /\ Idle
    BY <1>7 DEF CreationFails
  <2> QED  BY <1>3, <2>1, IdleEffect DEF StateInv
<1>8. ASSUME NEW id, Cancel(id) \/ DeadlinePasses(id) PROVE Files /\ Ends
  BY <1>3, <1>4, <1>8 DEF Cancel, DeadlinePasses, StateInv
<1>9. ASSUME NEW p \in Pages, NEW refuse \in BOOLEAN, DownloadStarts(p, refuse) PROVE Files /\ Ends
  <2>1. Ends
    BY <1>4, <1>9 DEF DownloadStarts, WakeTimer
  <2>2. /\ download' = [download EXCEPT ![p] = IF refuse THEN "canceling" ELSE "running"]
        /\ descriptor' = [descriptor EXCEPT ![p] = ~refuse] /\ finishing' = finishing
    BY <1>9 DEF DownloadStarts
  <2>3. (IF refuse THEN "canceling" ELSE "running") \in DownloadStates /\ (~refuse) \in BOOLEAN
    BY DEF DownloadStates
  <2> QED  BY <2>1, <2>2, <2>3 DEF StateInv
<1>10. ASSUME NEW p \in Pages, NEW ended \in BOOLEAN, DownloadUpdated(p, ended) PROVE Files /\ Ends
  <2>1. Ends
    BY <1>4, <1>10 DEF DownloadUpdated, WakeTimer
  <2>2. download' \in [Pages -> DownloadStates] /\ descriptor' = descriptor
    BY <1>10 DEF DownloadUpdated, StateInv, DownloadStates
  <2>3. finishing' = [finishing EXCEPT ![p] = @ \/ download'[p] = "settled"]
    BY <1>10 DEF DownloadUpdated
  <2>4. (finishing[p] \/ download'[p] = "settled") \in BOOLEAN
    BY DEF StateInv
  <2> QED  BY <2>1, <2>2, <2>3, <2>4 DEF StateInv
<1>11. ASSUME NEW p \in Pages, CancelDownload(p) PROVE Files /\ Ends
  <2>1. Ends
    BY <1>4, <1>11 DEF CancelDownload, WakeTimer
  <2> QED  BY <1>11, <2>1, DownloadTypes DEF CancelDownload, StateInv
<1>12. ASSUME NEW p \in Pages, FileCloses(p) PROVE Files /\ Ends
  <2>1. Ends
    BY <1>4, <1>12 DEF FileCloses, StateInv
  <2> QED  BY <1>12, <2>1 DEF FileCloses, StateInv
<1>13. ASSUME NEW p \in Pages, FinishTask(p) PROVE Files /\ Ends
  <2>1. UNCHANGED <<timer, closing, work>> /\ Idle
    BY <1>13 DEF FinishTask
  <2>2. Ends
    BY <2>1, IdleEffect DEF StateInv
  <2> QED  BY <1>13, <2>2 DEF FinishTask, StateInv, DownloadStates
<1>14. CASE Deadlines
  <2>1. UNCHANGED <<closing, work, descriptor, finishing>> /\ Idle /\ download' = Ticked
    BY <1>14 DEF Deadlines
  <2>2. timer' \in BOOLEAN
    <3> DEFINE stops == TimerMayStop'
    <3>1. timer' = ~stops
      BY <1>14 DEF Deadlines
    <3> HIDE DEF stops
    <3> QED  BY <3>1, Zenon
  <2> QED  BY <2>1, <2>2, IdleEffect, DownloadTypes DEF StateInv
<1>15. ASSUME NEW p \in Pages, ClosePage(p) PROVE Files /\ Ends
  BY <1>3, <1>4, <1>15 DEF ClosePage, StateInv
<1>16. ASSUME NEW p \in Pages, PageDrained(p) PROVE Files /\ Ends
  <2>1. Ends
    BY <1>4, <1>16 DEF PageDrained, WakeTimer
  <2> QED  BY <1>16, <2>1, DownloadTypes DEF PageDrained, StateInv
<1>17. ASSUME NEW p \in Pages, PageClosed(p) PROVE Files /\ Ends
  <2>1. UNCHANGED <<closing, descriptor, finishing>> /\ Idle /\ timer' = TRUE /\ download' = Canceled({p})
    BY <1>17 DEF PageClosed, WakeTimer
  <2>2. work' \subseteq Works
    BY <1>17 DEF PageClosed, StateInv
  <2> QED  BY <2>1, <2>2, IdleEffect, DownloadTypes DEF StateInv
<1>18. ASSUME NEW w \in Works, WorkStarts(w) PROVE Files /\ Ends
  <2>1. UNCHANGED <<closing, fence, refused>> /\ UNCHANGED downloadVars /\ timer' = TRUE
    BY <1>18 DEF WorkStarts, WakeTimer
  <2>2. work' \subseteq Works
    BY <1>18 DEF WorkStarts, StateInv
  <2> QED  BY <1>3, <2>1, <2>2 DEF StateInv
<1>19. ASSUME NEW w \in work, WorkSettles(w) PROVE Files /\ Ends
  <2>1. UNCHANGED closing /\ UNCHANGED downloadVars /\ timer' = TRUE /\ Idle
    BY <1>19 DEF WorkSettles, WakeTimer
  <2>2. work' \subseteq Works
    BY <1>19 DEF WorkSettles, StateInv
  <2> QED  BY <1>3, <2>1, <2>2, IdleEffect DEF StateInv
<1>20. CASE CloseAll
  <2>1. closing' = TRUE /\ UNCHANGED <<descriptor, finishing, work>> /\ timer' = TRUE /\ Idle
        /\ download' = Canceled(Pages)
    BY <1>20 DEF CloseAll, WakeTimer
  <2> QED  BY <2>1, IdleEffect, DownloadTypes DEF StateInv
<1>21. CASE QuitTask
  <2>1. /\ UNCHANGED <<timer, closing, work, refused>> /\ UNCHANGED downloadVars
        /\ fence' = IF CanShutdown THEN "committed" ELSE "idle"
    BY <1>21 DEF QuitTask
  <2>2. CanShutdown => closing
    BY DEF CanShutdown
  <2> QED  BY <1>3, <2>1, <2>2 DEF StateInv
<1>22. CASE UNCHANGED vars
  BY <1>3, <1>4, <1>22 DEF vars, StateInv
<1>23. DownloadPages \subseteq Pages
  BY EngineAssumption
<1> HIDE DEF Files, Ends
<1> QED  BY <1>5, <1>6, <1>7, <1>8, <1>9, <1>10, <1>11, <1>12, <1>13, <1>14, <1>15, <1>16, <1>17,
            <1>18, <1>19, <1>20, <1>21, <1>22, <1>23 DEF Next, Routes

(* IInv holds in the Engine as it is constructed.                          *)
LEMMA InitIInv == Init => IInv
<1> SUFFICES ASSUME Init PROVE IInv
  OBVIOUS
<1>1. DOMAIN operations = {}
  BY DEF Init
<1>2. OrdinaryOps = {} /\ ControlOps = {}
  BY <1>1 DEF OrdinaryOps, ControlOps
<1>3. answers \in [Generations -> Seq(0 .. MaxGeneration)]
  BY DEF Init
<1>4. AnsweredOnce
  BY <1>1 DEF Init, AnsweredOnce, Generations
<1>5. RegistryInv
  <2>1. generation = 0 /\ ordinary = 0 /\ controls = 0
    BY DEF Init
  <2> QED  BY <1>1, <1>2, <1>3, <1>4, <2>1, FS_EmptySet, EngineAssumption DEF RegistryInv
<1>6. PageInv
  BY EngineAssumption DEF Init, PageInv, PageStates, NoOrphanPages
<1>7. StateInv
  BY <1>1 DEF Init, StateInv, DownloadStates
<1> QED  BY <1>5, <1>6, <1>7 DEF IInv

(* The inductive invariant of the Engine's UI thread.                      *)
THEOREM IInvHolds == Spec => []IInv
<1>1. IInv /\ [Next]_vars => IInv'
  BY NextIsRegistryStep, RegistryNext, PagesNext, StateNext DEF IInv
<1> QED  BY <1>1, InitIInv, PTL DEF Spec

(* Within its capacities, the registry answers every operation exactly     *)
(* once, by its own completion or a failure, and all of them before the    *)
(* message loop quits (operation_registry.h, Engine::CloseAll,             *)
(* shutdown_fence.h).                                                      *)
THEOREM AnswersAreSound == Spec => []AnswersSound
<1>1. IInv => AnswersSound
  <2> SUFFICES ASSUME IInv PROVE AnswersSound
    OBVIOUS
  <2>1. ordinary \in Nat /\ controls \in Nat
    BY ClassesFinite DEF IInv, RegistryInv
  <2>2. TypeOK
    BY <2>1, EngineAssumption, SMTT(40), ZenonT(60) DEF IInv, RegistryInv, PageInv, StateInv, TypeOK
  <2>3. AnsweredBeforeQuit
    <3> SUFFICES ASSUME fence = "committed", NEW g \in 1 .. generation PROVE answers[g] # <<>>
      BY DEF AnsweredBeforeQuit
    <3>1. DOMAIN operations = {}
      BY DEF IInv, StateInv
    <3>2. g \in Generations /\ ~(g > generation)
      BY EngineAssumption DEF IInv, RegistryInv, Generations
    <3>3. answers[g] \in {<<0>>, <<g>>}
      BY <3>1, <3>2 DEF IInv, RegistryInv, AnsweredOnce
    <3>4. <<0>> # <<>> /\ <<g>> # <<>>
      OBVIOUS
    <3> QED  BY <3>3, <3>4
  <2>4. AnsweredOnce
    BY DEF IInv, RegistryInv
  <2> QED  BY <2>2, <2>3, <2>4 DEF AnswersSound
<1> QED  BY <1>1, IInvHolds, PTL

(* A page that is open was handed to the command that asked for it: one    *)
(* whose command was canceled or timed out meanwhile is closed again       *)
(* (Engine::PageCreated).                                                  *)
THEOREM NoPageIsOrphaned == Spec => []NoOrphanPages
<1>1. IInv => NoOrphanPages
  BY DEF IInv, PageInv
<1> QED  BY <1>1, IInvHolds, PTL
==============================================================================
