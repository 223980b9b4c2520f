--------------------------- MODULE EngineLifecycle ---------------------------
(***************************************************************************)
(* The Engine of the browser process, on its UI thread: the operations it  *)
(* has accepted and their deadlines (operation_registry.h,                 *)
(* Engine::Deadlines), the pages, the downloads that hold a page back      *)
(* while it closes (download_controls.cc), background work that is still   *)
(* physical, and the fence that quits the message loop once all of it has  *)
(* drained (shutdown_fence.h).                                             *)
(*                                                                         *)
(* Every action is one UI task or CEF callback.  The answer of a command   *)
(* that is refused at once changes nothing here; launch recording,         *)
(* popups, locator handlers and the copies of saveAs are left out.  A page *)
(* has at most one download.  Works are the blockers of CanShutdown that   *)
(* also keep the deadline timer going (traces, HAR, routes, screenshots,   *)
(* http); each asks for the shutdown when it ends.  Recordings, streams    *)
(* and the browsers of workers, which do not use the timer, are left out.  *)
(***************************************************************************)
EXTENDS Naturals, Sequences, FiniteSets

CONSTANTS Ids,           \* command ids of the client
          OrdinaryCap,   \* kCapacity (64)
          ControlCap,    \* kControlCapacity (64)
          MaxGeneration, \* bound: operations a behaviour begins
          Pages,         \* page 1 is there from the start
          DownloadPages, \* the pages that may download a file
          Works,         \* background jobs
          PostMayFail    \* CefPostTask may refuse the quit task

ASSUME EngineAssumption ==
  /\ Ids \subseteq Nat \ {0} /\ Pages \subseteq Nat \ {0} /\ 1 \in Pages
  /\ OrdinaryCap \in Nat /\ ControlCap \in Nat /\ MaxGeneration \in Nat
  /\ DownloadPages \subseteq Pages
  /\ PostMayFail \in BOOLEAN

VARIABLES
  operations, \* operations_: id -> entry
  ordinary, controls, generation, \* the registry's counters
  callbacks,  \* completions that CEF or a controller may still deliver
  answers,    \* history: what answered each operation, 0 for a failure
  timer,      \* deadline_timer_active_, and the posted Deadlines task it stands for
  closing,    \* closing_
  pages,      \* where each page is between its creation and OnBeforeClose
  creator,    \* history: the operation that created each page, 0 for none
  download,   \* the record of each page's download
  descriptor, \* HasOpenDescriptor: CEF has the download's file open
  finishing,  \* finish_queued: a task will call Finish
  work,       \* the works that are still physical
  fence,      \* queued_ and committed_
  refused     \* history: CEF refused the quit task

registryVars == <<operations, ordinary, controls, generation, answers>>
pageVars == <<pages, creator>>
downloadVars == <<download, descriptor, finishing>>
vars == <<registryVars, callbacks, timer, closing, pageVars, downloadVars, work,
          fence, refused>>

Generations == 1 .. MaxGeneration
Entry == [generation : Generations, control : BOOLEAN, deadline : {"none", "ahead", "passed"}]
PageStates == {"absent", "creating", "doomed", "open", "draining", "closing", "leaving", "closed"}
DownloadStates == {"none", "running", "canceling", "settled", "done"}

Init ==
  /\ operations = [i \in {} |-> 0]
  /\ ordinary = 0 /\ controls = 0 /\ generation = 0
  /\ callbacks = {}
  /\ answers = [g \in Generations |-> <<>>]
  /\ timer = FALSE /\ closing = FALSE
  /\ pages = [p \in Pages |-> IF p = 1 THEN "open" ELSE "absent"]
  /\ creator = [p \in Pages |-> 0]
  /\ download = [p \in Pages |-> "none"]
  /\ descriptor = [p \in Pages |-> FALSE]
  /\ finishing = [p \in Pages |-> FALSE]
  /\ work = {}
  /\ fence = "idle" /\ refused = FALSE

(* CefQuitMessageLoop ends the UI thread. *)
Alive == fence # "committed"

(***************************************************************************)
(* The deadline timer and the shutdown fence.                              *)
(***************************************************************************)
PageSettled(p) == download[p] \in {"none", "done"}

(* DownloadControls::NeedsTick *)
NeedsTick == \E p \in Pages : ~PageSettled(p) \/ pages[p] = "closing"

(* The condition under which Deadlines does not post itself again. *)
TimerMayStop_ForgetsDownloads == work = {} /\ (closing \/ DOMAIN operations = {})
TimerMayStop ==
  /\ work = {}
  /\ closing \/ (DOMAIN operations = {} /\ ~NeedsTick)

WakeTimer == timer' = TRUE

CanShutdown ==
  /\ closing
  /\ \A p \in Pages : pages[p] \in {"absent", "closed"}
  /\ work = {} /\ ~NeedsTick

(* Idle: the fence posts the quit task if the Engine is ready now, ...     *)
Idle ==
  IF fence = "idle" /\ CanShutdown'
  THEN \/ fence' = "queued" /\ UNCHANGED refused
       \/ PostMayFail /\ refused' = TRUE /\ UNCHANGED fence
  ELSE UNCHANGED <<fence, refused>>

(* ... and the task looks again before it quits. *)
QuitTask ==
  /\ fence = "queued"
  /\ fence' = IF CanShutdown THEN "committed" ELSE "idle"
  /\ UNCHANGED <<registryVars, callbacks, timer, closing, pageVars, downloadVars,
                 work, refused>>

(***************************************************************************)
(* The registry.                                                           *)
(***************************************************************************)

(* CompleteContext for each operation of S: Finish, then the reply. *)
Complete(S, by) ==
  /\ operations' = [i \in DOMAIN operations \ S |-> operations[i]]
  /\ ordinary' = ordinary - Cardinality({i \in S : ~operations[i].control})
  /\ controls' = controls - Cardinality({i \in S : operations[i].control})
  /\ answers' = [g \in Generations |-> IF \E i \in S : operations[i].generation = g
                                       THEN Append(answers[g], by) ELSE answers[g]]
  /\ UNCHANGED generation

HasRoom(control) == IF control THEN controls < ControlCap ELSE ordinary < OrdinaryCap

Accepting == Alive /\ ~closing

(* Route of a context or http command, which starts the timer.  timeoutMs  *)
(* 0 asks for no deadline.  A newPage command (not a control) reserves     *)
(* page p and has CEF create its browser; p = 0 is any other command.      *)
Begin(id, control, deadline, p) ==
  /\ Accepting
  /\ id \notin DOMAIN operations /\ HasRoom(control) /\ generation < MaxGeneration
  /\ p # 0 => ~control /\ pages[p] = "absent"
  /\ generation' = generation + 1
  /\ operations' = [i \in DOMAIN operations \cup {id} |->
                      IF i = id THEN [generation |-> generation + 1, control |-> control,
                                      deadline |-> deadline]
                      ELSE operations[i]]
  /\ IF control THEN controls' = controls + 1 /\ UNCHANGED ordinary
                ELSE ordinary' = ordinary + 1 /\ UNCHANGED controls
  /\ callbacks' = callbacks \cup {[id |-> id, generation |-> generation + 1, page |-> p]}
  /\ pages' = [q \in Pages |-> IF q = p THEN "creating" ELSE pages[q]]
  /\ creator' = [q \in Pages |-> IF q = p THEN generation + 1 ELSE creator[q]]
  /\ WakeTimer
  /\ UNCHANGED <<answers, closing, downloadVars, work, fence, refused>>

IsCurrent_AnyGeneration(c) == c.id \in DOMAIN operations
IsCurrent(c) == c.id \in DOMAIN operations /\ operations[c.id].generation = c.generation

(* BeginPageClose: a page without a browser yet is closed on its creation. *)
BeginClose(S) ==
  [p \in Pages |-> IF p \in S /\ pages[p] = "creating" THEN "doomed"
                   ELSE IF p \in S /\ pages[p] = "open" THEN "draining" ELSE pages[p]]

(* A page that was created for an operation that is over is closed again.  *)
Created_Kept(c) == "open"
Created(c) == IF IsCurrent(c) /\ pages[c.page] = "creating" THEN "open" ELSE "draining"

Callback(c) ==
  /\ Alive
  /\ callbacks' = callbacks \ {c}
  /\ IF IsCurrent(c) THEN Complete({c.id}, c.generation) ELSE UNCHANGED registryVars
  /\ pages' = [p \in Pages |-> IF p = c.page THEN Created(c) ELSE pages[p]]
  /\ UNCHANGED <<timer, closing, creator, downloadVars, work, fence, refused>>

(* PageCreationFailed, before CEF made a browser or with one that must go. *)
CreationFails(c, left) ==
  /\ Alive /\ c.page # 0
  /\ callbacks' = callbacks \ {c}
  /\ IF IsCurrent(c) THEN Complete({c.id}, c.generation) ELSE UNCHANGED registryVars
  /\ pages' = [pages EXCEPT ![c.page] = left]
  /\ UNCHANGED <<timer, closing, creator, downloadVars, work>>
  /\ Idle

(* Route of a cancel command. *)
Cancel(id) ==
  /\ Alive /\ ~closing
  /\ Complete({id}, 0)
  /\ UNCHANGED <<callbacks, timer, closing, pageVars, downloadVars, work, fence, refused>>

(* The clock passes a deadline. *)
DeadlinePasses(id) ==
  /\ operations[id].deadline = "ahead"
  /\ operations' = [operations EXCEPT ![id].deadline = "passed"]
  /\ UNCHANGED <<ordinary, controls, generation, answers, callbacks, timer, closing, pageVars, downloadVars, work,
                 fence, refused>>

(***************************************************************************)
(* Downloads.                                                              *)
(***************************************************************************)

(* RequestCancel of the downloads of the pages in S. *)
Canceled(S) ==
  [p \in Pages |-> IF p \in S /\ download[p] = "running" THEN "canceling" ELSE download[p]]

(* CheckClosures: a page whose download has settled may close its browser. *)
Released(where, record) ==
  [p \in Pages |-> IF where[p] = "closing" /\ record[p] \in {"none", "done"} THEN "leaving"
                   ELSE where[p]]

(* DownloadControls::Before.  A download that policy or quota refuses, or  *)
(* a context or page that closes, is canceled before it has a file.        *)
DownloadStarts(p, refuse) ==
  /\ Alive /\ pages[p] \in {"open", "draining", "leaving"} /\ download[p] = "none"
  /\ closing \/ pages[p] = "leaving" => refuse
  /\ download' = [download EXCEPT ![p] = IF refuse THEN "canceling" ELSE "running"]
  /\ descriptor' = [descriptor EXCEPT ![p] = ~refuse]
  /\ WakeTimer
  /\ UNCHANGED <<registryVars, callbacks, closing, pageVars, finishing, work,
                 fence, refused>>

(* DownloadControls::Handle of a cancel: the client gives the download up. *)
CancelDownload(p) ==
  /\ Alive /\ ~closing /\ download[p] = "running"
  /\ download' = Canceled({p})
  /\ WakeTimer
  /\ UNCHANGED <<registryVars, callbacks, closing, pageVars, descriptor, finishing, work,
                 fence, refused>>

(* DownloadControls::Updated: CEF reports progress, or that the download   *)
(* has ended.                                                              *)
DownloadUpdated(p, ended) ==
  /\ Alive /\ ~PageSettled(p)
  /\ download' = [download EXCEPT ![p] = IF ended THEN "settled" ELSE @]
  /\ finishing' = [finishing EXCEPT ![p] = @ \/ download'[p] = "settled"]
  /\ WakeTimer
  /\ UNCHANGED <<registryVars, callbacks, closing, pageVars, descriptor, work,
                 fence, refused>>

(* CEF closes the file, on a thread of its own. *)
FileCloses(p) ==
  /\ descriptor[p]
  /\ descriptor' = [descriptor EXCEPT ![p] = FALSE]
  /\ UNCHANGED <<registryVars, callbacks, timer, closing, pageVars, download, finishing,
                 work, fence, refused>>

(* The task of QueueFinish: Finish does nothing while the file is open. *)
FinishTask(p) ==
  /\ Alive /\ finishing[p]
  /\ finishing' = [finishing EXCEPT ![p] = FALSE]
  /\ download' = [download EXCEPT ![p] = IF @ = "settled" /\ ~descriptor[p] THEN "done" ELSE @]
  /\ pages' = Released(pages, download')
  /\ UNCHANGED <<registryVars, callbacks, timer, closing, creator, descriptor, work>>
  /\ Idle

(* DownloadControls::Tick *)
Ticked ==
  [p \in Pages |->
     IF /\ ~descriptor[p]
        /\ download[p] = "settled" \/ (download[p] = "canceling" /\ pages[p] = "closed")
     THEN "done" ELSE download[p]]

(***************************************************************************)
(* Engine::Deadlines, every 10 ms while the timer is active.               *)
(***************************************************************************)
Deadlines ==
  /\ Alive /\ timer
  /\ Complete({i \in DOMAIN operations : operations[i].deadline = "passed"}, 0)
  /\ download' = Ticked
  /\ pages' = Released(pages, Ticked)
  /\ UNCHANGED <<callbacks, closing, creator, descriptor, finishing, work>>
  /\ Idle
  /\ timer' = ~TimerMayStop'

(***************************************************************************)
(* Pages, background work and the end.                                     *)
(***************************************************************************)

(* closePage and context close commands. *)
ClosePage(p) ==
  /\ Alive /\ ~closing /\ pages[p] \in {"creating", "open"}
  /\ pages' = BeginClose({p})
  /\ UNCHANGED <<registryVars, callbacks, timer, closing, creator, downloadVars, work,
                 fence, refused>>

(* HAR, recording and streaming have let the page go; the download is the  *)
(* last to be asked (DownloadControls::BeforePageClose).                   *)
PageDrained(p) ==
  /\ Alive /\ pages[p] = "draining"
  /\ download' = Canceled({p})
  /\ pages' = Released([pages EXCEPT ![p] = "closing"], Canceled({p}))
  /\ WakeTimer
  /\ UNCHANGED <<registryVars, callbacks, closing, creator, descriptor, finishing, work,
                 fence, refused>>

(* OnBeforeClose, because the Engine closed the browser or because the     *)
(* page closed itself, at any time.  Traces and archives of the page may still be       *)
(* written afterwards.                                                     *)
PageClosed(p) ==
  /\ Alive /\ pages[p] \in {"open", "draining", "closing", "leaving"}
  /\ download' = Canceled({p})
  /\ pages' = [pages EXCEPT ![p] = "closed"]
  /\ work' \in {work} \cup {work \cup {w} : w \in Works}
  /\ WakeTimer
  /\ UNCHANGED <<registryVars, callbacks, closing, creator, descriptor, finishing>>
  /\ Idle

WorkStarts(w) ==
  /\ Alive /\ ~closing /\ w \notin work
  /\ work' = work \cup {w}
  /\ WakeTimer
  /\ UNCHANGED <<registryVars, callbacks, closing, pageVars, downloadVars, fence, refused>>

WorkSettles(w) ==
  /\ Alive
  /\ work' = work \ {w}
  /\ WakeTimer
  /\ UNCHANGED <<registryVars, callbacks, closing, pageVars, downloadVars>>
  /\ Idle

(* CloseAll: every operation is answered, every download canceled and      *)
(* every page asked to close.                                              *)
CloseAll_KeepsPages ==
  /\ Alive /\ ~closing
  /\ closing' = TRUE
  /\ Complete(DOMAIN operations, 0)
  /\ download' = Canceled(Pages)
  /\ WakeTimer
  /\ UNCHANGED <<callbacks, pageVars, descriptor, finishing, work>>
  /\ Idle

CloseAll ==
  /\ Alive /\ ~closing
  /\ closing' = TRUE
  /\ Complete(DOMAIN operations, 0)
  /\ download' = Canceled(Pages)
  /\ pages' = BeginClose(Pages)
  /\ WakeTimer
  /\ UNCHANGED <<callbacks, creator, descriptor, finishing, work>>
  /\ Idle

Next ==
  \/ \E id \in Ids, control \in BOOLEAN, deadline \in {"none", "ahead"}, p \in Pages \cup {0} :
       Begin(id, control, deadline, p)
  \/ \E c \in callbacks : Callback(c) \/ \E left \in {"closed", "leaving"} : CreationFails(c, left)
  \/ \E id \in DOMAIN operations : Cancel(id) \/ DeadlinePasses(id)
  \/ \E p \in DownloadPages : \/ \E refuse \in BOOLEAN : DownloadStarts(p, refuse)
                              \/ \E ended \in BOOLEAN : DownloadUpdated(p, ended)
                              \/ CancelDownload(p) \/ FileCloses(p) \/ FinishTask(p)
  \/ \E p \in Pages : ClosePage(p) \/ PageDrained(p) \/ PageClosed(p)
  \/ \E w \in Works : WorkStarts(w)
  \/ \E w \in work : WorkSettles(w)
  \/ Deadlines \/ CloseAll \/ QuitTask

Spec == Init /\ [][Next]_vars

(* Posted tasks and the timer run, clocks advance, CEF creates and closes  *)
(* the browsers it was asked to and closes the files of ended downloads,   *)
(* and background work ends.  It reports the end of a canceled download    *)
(* while the page's browser exists, and need not once that is gone.        *)
Fairness ==
  /\ WF_vars(Deadlines) /\ WF_vars(QuitTask)
  /\ \A id \in Ids : WF_vars(id \in DOMAIN operations /\ DeadlinePasses(id))
  /\ \A p \in Pages :
       /\ WF_vars(\E c \in callbacks :
                    c.page = p /\ (Callback(c) \/ \E left \in {"closed", "leaving"} : CreationFails(c, left)))
       /\ WF_vars(PageDrained(p)) /\ WF_vars(pages[p] = "leaving" /\ PageClosed(p))
       /\ WF_vars(download[p] = "canceling" /\ pages[p] # "closed" /\ DownloadUpdated(p, TRUE))
       /\ WF_vars(download[p] # "running" /\ FileCloses(p)) /\ WF_vars(FinishTask(p))
  /\ \A w \in Works : WF_vars(w \in work /\ WorkSettles(w))

FairSpec == Spec /\ Fairness

(***************************************************************************)
(* Properties.                                                             *)
(***************************************************************************)

(* The types: in particular the registry's size_t counters stay within     *)
(* their capacities.                                                       *)
TypeOK ==
  /\ DOMAIN operations \subseteq Ids /\ \A i \in DOMAIN operations : operations[i] \in Entry
  /\ ordinary \in 0 .. OrdinaryCap /\ controls \in 0 .. ControlCap
  /\ generation \in 0 .. MaxGeneration
  /\ callbacks \subseteq [id : Ids, generation : Generations, page : Pages \cup {0}]
  /\ answers \in [Generations -> Seq(0 .. MaxGeneration)]
  /\ timer \in BOOLEAN /\ closing \in BOOLEAN /\ refused \in BOOLEAN
  /\ pages \in [Pages -> PageStates] /\ creator \in [Pages -> 0 .. MaxGeneration]
  /\ download \in [Pages -> DownloadStates]
  /\ descriptor \in [Pages -> BOOLEAN] /\ finishing \in [Pages -> BOOLEAN]
  /\ work \subseteq Works /\ fence \in {"idle", "queued", "committed"}

(* Every operation is answered exactly once, by its own completion or by a *)
(* failure (canceled, timed out, closing), and not before it ends: a late  *)
(* callback never answers a later operation that reuses its id.            *)
AnsweredOnce ==
  \A g \in Generations :
    answers[g] \in IF g > generation \/ \E i \in DOMAIN operations : operations[i].generation = g
                   THEN {<<>>} ELSE {<<0>>, <<g>>}

(* A page that is open to the client belongs to a newPage command that     *)
(* was answered with it: no page is left over from a command that was      *)
(* canceled or timed out while CEF created the browser.                    *)
NoOrphanPages ==
  \A p \in Pages : pages[p] = "open" /\ creator[p] # 0 => answers[creator[p]] = <<creator[p]>>

(* CanShutdown does not look at operations_: nevertheless the message loop *)
(* quits only after every accepted command was answered.                   *)
AnsweredBeforeQuit ==
  fence = "committed" => \A g \in 1 .. generation : answers[g] # <<>>

(* The registry keeps its promise to the client: within its capacities,    *)
(* each accepted operation is answered once, by what was done for it, and  *)
(* before the message loop quits.                                          *)
AnswersSound == TypeOK /\ AnsweredOnce /\ AnsweredBeforeQuit

(* An operation with a deadline ends: the timer does not stop before.      *)
DeadlinesFire ==
  \A g \in Generations :
    (\E i \in DOMAIN operations : operations[i].generation = g /\ operations[i].deadline # "none")
      ~> answers[g] # <<>>

(* A page that was asked to close is closed, whatever its download does,   *)
(* unless the whole browser starts to close meanwhile.                     *)
PagesClose == \A p \in Pages : pages[p] = "draining" ~> (pages[p] = "closed" \/ closing)

(* The one timer, which stops itself, runs as long as someone needs it:    *)
(* an operation with a deadline or a page that waits for its download.     *)
TimerServes == DeadlinesFire /\ PagesClose

(* The engine waits for an empty Source registry and physical work to      *)
(* drain, then commits one quit request.                                   *)
ShutdownCompletes == closing ~> fence = "committed"

(* The same, as far as the code keeps it: a canceled download whose file   *)
(* outlives the last tick of the timer holds the shutdown back, and so     *)
(* does a quit task that CEF refuses.                                      *)
ShutdownWithoutDownloads ==
  closing ~> (fence = "committed" \/ refused \/ \E p \in Pages : ~PageSettled(p))
=============================================================================
