---------------------------- MODULE CommandIntake ----------------------------
(***************************************************************************)
(* The path of a command line through the browser process:                 *)
(*   - the reader thread, Source::ReadCommands (page/commands.cc), which   *)
(*     waits for UI-queue capacity, admits the line to the ReaderLedger,   *)
(*     reserves a reply credit (command_credits.h) and posts a UI task;    *)
(*   - the UI thread, which runs Engine::Route for the task, completes     *)
(*     operations, takes and releases barrier cuts, closes the browser and *)
(*     finally stops and joins the reader (Source::StopReader);            *)
(*   - the writer thread, which returns a credit after the reply was       *)
(*     written, and may die of a write error;                              *)
(*   - the client, which writes lines to stdin and closes it.              *)
(*                                                                         *)
(* stage[c] is what really happened to command c, whatever the ledger      *)
(* says: the properties compare the two.  The counters of Snapshot and the *)
(* text of lines and replies are left out.                                 *)
(***************************************************************************)
EXTENDS ReaderLedger, Integers

CONSTANTS N,            \* command lines the client may send
          QueueCap,     \* UI commands queued at most (64 in the code)
          CreditCap,    \* reply credits (128)
          Depth,        \* Route frames on the UI stack at most (re-entrancy)
          PostMayFail,  \* CefPostTask may refuse a task
          MayThrow,     \* CefPostTask and Route may throw
          WriterMayFail \* writing stdout may fail

ASSUME IntakeAssumption ==
  /\ N \in Nat
  /\ QueueCap \in Nat \ {0} /\ CreditCap \in Nat \ {0} /\ Depth \in Nat \ {0}
  /\ PostMayFail \in BOOLEAN /\ MayThrow \in BOOLEAN /\ WriterMayFail \in BOOLEAN

VARIABLES
  sent,       \* lines the client has written
  eof,        \* the client has closed stdin
  rpc,        \* where the reader thread is
  cur,        \* the line it is working on
  queued,     \* queued_commands_
  stopped,    \* stopped_ of the reader Source
  used,       \* used_ of the reply credits; -1 stands for std::abort
  creditLock, \* the reader holds the credits' mutex between a false predicate and its sleep
  stage,      \* history: what happened to each command
  ticket,     \* the ticket in each command's receipt; 0 for none, which Admit only
              \* returns on a poisoned ledger, where reporting on it changes nothing
  reply,      \* what became of each command's reply credit
  promised,   \* history: the commands accepted before each cut was taken
  uipc,       \* "loop", or how far StopReader got on the UI thread
  closeTask,  \* the task that ReadCommands posts on its way out
  closing,    \* closing_ of the Engine
  writing     \* the writer thread is alive

readerVars == <<sent, eof, rpc, cur, queued, stopped>>
creditVars == <<used, creditLock, reply>>
uiVars == <<uipc, closeTask, closing, writing>>
vars == <<ledgerVars, readerVars, creditVars, uiVars, stage, ticket, promised>>

Commands == 1 .. N
Stages == {"unread", "counted", "held", "posting", "inqueue", "running", "routed", "refused"}
Settled == {"routed", "refused"}
Outstanding == {"owed", "engine", "page", "barrier", "sent", "lost"}
Replies == Outstanding \cup {"none", "released"}

(* The types: in particular queued_commands_ never passes QueueCap and the *)
(* credits in use never pass CreditCap nor fall below zero (std::abort).   *)
TypeOK ==
  /\ LedgerType
  /\ sent \in 0 .. N /\ cur \in 0 .. N /\ eof \in BOOLEAN
  /\ rpc \in {"read", "capacity", "admit", "reserve", "evaluated", "asleep",
              "post", "accepted", "declined", "exit", "done", "crashed"}
  /\ queued \in 0 .. QueueCap /\ stopped \in BOOLEAN
  /\ used \in 0 .. CreditCap /\ creditLock \in BOOLEAN
  /\ stage \in [Commands -> Stages]
  /\ ticket \in [Commands -> 0 .. MaxTicket]
  /\ reply \in [Commands -> Replies]
  /\ promised \in [1 .. MaxNonce -> SUBSET Commands]
  /\ uipc \in {"loop", "wake", "join", "joined"}
  /\ closeTask \in BOOLEAN /\ closing \in BOOLEAN /\ writing \in BOOLEAN

Init ==
  /\ LedgerInit
  /\ sent = 0 /\ eof = FALSE /\ rpc = "read" /\ cur = 0 /\ queued = 0 /\ stopped = FALSE
  /\ used = 0 /\ creditLock = FALSE
  /\ stage = [c \in Commands |-> "unread"]
  /\ ticket = [c \in Commands |-> 0]
  /\ reply = [c \in Commands |-> "none"]
  /\ promised = [n \in 1 .. MaxNonce |-> {}]
  /\ uipc = "loop" /\ closeTask = FALSE /\ closing = FALSE /\ writing = TRUE

(***************************************************************************)
(* The client's end of the pipe.                                           *)
(***************************************************************************)
ClientSends ==
  /\ ~eof /\ sent < N
  /\ sent' = sent + 1
  /\ UNCHANGED <<ledgerVars, creditVars, uiVars, stage, ticket, promised,
                 eof, rpc, cur, queued, stopped>>

ClientCloses ==
  /\ ~eof
  /\ eof' = TRUE
  /\ UNCHANGED <<ledgerVars, creditVars, uiVars, stage, ticket, promised,
                 sent, rpc, cur, queued, stopped>>

(***************************************************************************)
(* The reader thread.                                                      *)
(***************************************************************************)

(* poll and read; a pipe that stays silent is polled every 100 ms, so a    *)
(* stop is noticed without a line.                                         *)
ReadLine ==
  /\ rpc = "read"
  /\ \/ /\ ~stopped /\ cur < sent
        /\ cur' = cur + 1 /\ rpc' = "capacity"
     \/ /\ stopped \/ (eof /\ cur = sent)
        /\ rpc' = "exit" /\ UNCHANGED cur
  /\ UNCHANGED <<ledgerVars, creditVars, uiVars, stage, ticket, promised,
                 sent, eof, queued, stopped>>

HasCapacity_OffByOne == queued <= QueueCap
HasCapacity == queued < QueueCap

(* command_capacity_.wait: every writer of its predicate holds             *)
(* command_mutex_ and notifies afterwards, so the wait is a guard.         *)
AwaitCapacity ==
  /\ rpc = "capacity"
  /\ \/ /\ stopped
        /\ rpc' = "exit" /\ UNCHANGED <<queued, stage>>
     \/ /\ ~stopped /\ HasCapacity
        /\ queued' = queued + 1 /\ rpc' = "admit"
        /\ stage' = [stage EXCEPT ![cur] = "counted"]
  /\ UNCHANGED <<ledgerVars, creditVars, uiVars, ticket, promised, sent, eof, cur, stopped>>

AdmitLine ==
  /\ rpc = "admit"
  /\ Admit
  /\ ticket' = [ticket EXCEPT ![cur] = AdmitTicket]
  /\ stage' = [stage EXCEPT ![cur] = "held"]
  /\ rpc' = "reserve"
  /\ UNCHANGED <<creditVars, uiVars, promised, sent, eof, cur, queued, stopped>>

(* Reserve, canceled: the line is given up.                                *)
ReserveCanceled_KeepsCount ==
  /\ rpc = "reserve" /\ stopped
  /\ NeverPosted(ticket[cur])
  /\ stage' = [stage EXCEPT ![cur] = "refused"]
  /\ rpc' = "exit"
  /\ UNCHANGED <<creditVars, uiVars, ticket, promised, sent, eof, cur, queued, stopped>>

ReserveCanceled ==
  /\ rpc = "reserve" /\ stopped
  /\ queued' = queued - 1
  /\ NeverPosted(ticket[cur])
  /\ stage' = [stage EXCEPT ![cur] = "refused"]
  /\ rpc' = "exit"
  /\ UNCHANGED <<creditVars, uiVars, ticket, promised, sent, eof, cur, stopped>>

(* Reserve, with a credit left. *)
CreditFree_OffByOne == used <= CreditCap
CreditFree == used < CreditCap

ReserveReply ==
  /\ rpc = "reserve" /\ ~stopped /\ CreditFree
  /\ used' = used + 1
  /\ reply' = [reply EXCEPT ![cur] = "owed"]
  /\ stage' = [stage EXCEPT ![cur] = "posting"]
  /\ rpc' = "post"
  /\ UNCHANGED <<ledgerVars, uiVars, ticket, promised, creditLock, sent, eof, cur, queued, stopped>>

(* Reserve, without: the predicate is false and the mutex still held ...   *)
ReserveEvaluated ==
  /\ rpc = "reserve" /\ ~stopped /\ ~CreditFree
  /\ creditLock' = TRUE /\ rpc' = "evaluated"
  /\ UNCHANGED <<ledgerVars, uiVars, ticket, promised, stage, used, reply, sent, eof, cur, queued, stopped>>

(* ... until the condition variable releases it and sleeps in one step. *)
SleepForCredit ==
  /\ rpc = "evaluated"
  /\ rpc' = "asleep" /\ creditLock' = FALSE
  /\ UNCHANGED <<ledgerVars, uiVars, stage, ticket, promised, used, reply,
                 sent, eof, cur, queued, stopped>>

(* Inside CefPostTask: the task is in the UI queue, and may run, before the *)
(* call returns; or the call refuses it.                                   *)
PostTask ==
  /\ rpc = "post"
  /\ \/ /\ rpc' = "accepted"
        /\ stage' = [stage EXCEPT ![cur] = "inqueue"]
     \/ /\ PostMayFail /\ rpc' = "declined" /\ UNCHANGED stage
  /\ UNCHANGED <<ledgerVars, creditVars, uiVars, ticket, promised, sent, eof, cur, queued, stopped>>

(* SuiteCutCommandCredits::Release, by any thread: notify_one after the    *)
(* mutex is free again.                                                    *)
Wakened_NoNotify == rpc
Wakened == IF rpc = "asleep" THEN "reserve" ELSE rpc

ReleaseReply == ~creditLock /\ used' = used - 1 /\ UNCHANGED creditLock

PostReturned ==
  /\ \/ /\ rpc = "accepted"
        /\ PostingReturned(ticket[cur], TRUE)
        /\ rpc' = "read" /\ UNCHANGED <<creditVars, stage, queued, stopped>>
     \/ /\ rpc = "declined"
        /\ PostingReturned(ticket[cur], FALSE)
        /\ ReleaseReply
        /\ reply' = [reply EXCEPT ![cur] = "released"]
        /\ stage' = [stage EXCEPT ![cur] = "refused"]
        /\ queued' = queued - 1
        /\ stopped' = TRUE /\ rpc' = "exit"
  /\ UNCHANGED <<uiVars, ticket, promised, sent, eof, cur>>

(* An exception leaves the post call with its outcome unknown: the receipt *)
(* is destroyed, and so is the thread; the UI may go on for a while.       *)
PostThrows ==
  /\ MayThrow /\ rpc \in {"post", "accepted"}
  /\ PostingUnwound(ticket[cur])
  /\ rpc' = "crashed"
  /\ UNCHANGED <<creditVars, uiVars, stage, ticket, promised, sent, eof, cur, queued, stopped>>

(* After the loop the reader posts the task that closes the browser. *)
PostCloseAll ==
  /\ rpc = "exit"
  /\ rpc' = "done"
  /\ closeTask' \in {TRUE} \cup (IF PostMayFail THEN {closeTask} ELSE {})
  /\ UNCHANGED <<ledgerVars, creditVars, stage, ticket, promised, uipc, closing, writing,
                 sent, eof, cur, queued, stopped>>

Reader == \/ ReadLine \/ AwaitCapacity \/ AdmitLine \/ ReserveCanceled \/ ReserveReply
          \/ ReserveEvaluated \/ SleepForCredit \/ PostTask \/ PostReturned \/ PostThrows \/ PostCloseAll

(***************************************************************************)
(* The UI thread.  It is in StopReader unless uipc = "loop".               *)
(***************************************************************************)
Running == {c \in Commands : stage[c] = "running"}

(* A posted task runs from the message loop, or from one nested in Route.  *)
TaskMayRun == uipc = "loop" /\ Cardinality(Running) < Depth

(* The posted task starts: it leaves the queue and enters its route frame. *)
(* UI tasks run in the order they were posted.                             *)
EnterRoute(c) ==
  /\ TaskMayRun
  /\ stage[c] = "inqueue" /\ \A d \in Commands : stage[d] = "inqueue" => c <= d
  /\ stage' = [stage EXCEPT ![c] = "running"]
  /\ queued' = queued - 1
  /\ Enter(ticket[c])
  /\ UNCHANGED <<creditVars, uiVars, ticket, promised, sent, eof, rpc, cur, stopped>>

(* What Route does with the command: answer it at once, reject the line    *)
(* (invalid, or a duplicate id) and hand the credit back, or begin an      *)
(* operation of the Engine or of a page that answers later.                *)
Route(c) ==
  /\ uipc = "loop" /\ stage[c] = "running" /\ reply[c] = "owed"
  /\ \/ /\ \E r \in {"sent"} \cup (IF closing THEN {} ELSE {"engine", "page"}) :
             reply' = [reply EXCEPT ![c] = r]
        /\ UNCHANGED <<used, creditLock, rpc>>
     \/ /\ reply' = [reply EXCEPT ![c] = "released"]
        /\ ReleaseReply /\ rpc' = Wakened
  /\ UNCHANGED <<ledgerVars, uiVars, stage, ticket, promised, sent, eof, cur, queued, stopped>>

(* Route of nativeWorkBarrier: OriginalAcceptedWorkBarrier takes the cut   *)
(* while its own command is still on the stack.                            *)
RouteBarrier(c) ==
  /\ uipc = "loop" /\ ~closing /\ stage[c] = "running" /\ reply[c] = "owed"
  /\ cuts = {} /\ ~CutRefused \* one native_work_ at a time
  /\ Cut
  /\ promised' = [promised EXCEPT ![nonce + 1] =
                    {d \in Commands : stage[d] \notin {"unread", "counted"}}]
  /\ reply' = [reply EXCEPT ![c] = "barrier"]
  /\ UNCHANGED <<readerVars, uiVars, stage, ticket, used, creditLock>>

RouteReturns(c) ==
  /\ uipc = "loop" /\ stage[c] = "running" /\ reply[c] # "owed"
  /\ stage' = [stage EXCEPT ![c] = "routed"]
  /\ Returned(ticket[c], FALSE)
  /\ UNCHANGED <<readerVars, creditVars, uiVars, ticket, promised>>

(* Route throws before it answered: the frame is unwound. *)
RouteThrows(c) ==
  /\ MayThrow /\ uipc = "loop" /\ stage[c] = "running" /\ reply[c] = "owed"
  /\ stage' = [stage EXCEPT ![c] = "routed"]
  /\ reply' = [reply EXCEPT ![c] = "lost"]
  /\ Returned(ticket[c], TRUE)
  /\ UNCHANGED <<readerVars, uiVars, ticket, promised, used, creditLock>>

(* An operation ends (done, canceled or past its deadline) and is answered. *)
Complete(c) ==
  /\ uipc = "loop" /\ reply[c] \in {"engine", "page"}
  /\ reply' = [reply EXCEPT ![c] = "sent"]
  /\ UNCHANGED <<ledgerVars, readerVars, uiVars, stage, ticket, promised, used, creditLock>>

(* PumpAcceptedWork grants the barrier once its cut is through and gives   *)
(* the cut back, or refuses it and keeps the cut; it does neither once the *)
(* Engine is closing.                                                      *)
EndBarrier(c) ==
  /\ TaskMayRun /\ ~closing /\ reply[c] = "barrier"
  /\ \/ \E k \in cuts : Through(k) /\ ReleaseCut(k)
     \/ UNCHANGED ledgerVars
  /\ reply' = [reply EXCEPT ![c] = "sent"]
  /\ UNCHANGED <<readerVars, uiVars, stage, ticket, promised, used, creditLock>>

(* CloseAll answers every operation of the Engine; those of the pages end  *)
(* as the pages close.                                                     *)
CloseAll ==
  /\ closing' = TRUE
  /\ reply' = [c \in Commands |->
                IF ~closing /\ reply[c] = "engine" THEN "sent" ELSE reply[c]]
  /\ UNCHANGED <<ledgerVars, readerVars, stage, ticket, promised, used, creditLock, uipc, writing>>

RunCloseTask == TaskMayRun /\ closeTask /\ closeTask' = FALSE /\ CloseAll

(* StartupFailed and a network policy failure close the browser too. *)
FatalFailure == uipc = "loop" /\ ~closing /\ UNCHANGED closeTask /\ CloseAll

(* The shutdown fence commits: StopReader sets stopped_ under              *)
(* command_mutex_, ...                                                     *)
StopReader ==
  /\ uipc = "loop" /\ closing /\ Running = {}
  /\ stopped' = TRUE
  /\ uipc' = "wake"
  /\ UNCHANGED <<ledgerVars, creditVars, stage, ticket, promised, closeTask, closing, writing,
                 sent, eof, rpc, cur, queued>>

(* ... wakes a reader that waits for a credit (Wake passes through the     *)
(* credits' mutex first) ...                                               *)
WakeReaders_NoMutex ==
  /\ uipc = "wake"
  /\ uipc' = "join"
  /\ rpc' = Wakened
  /\ UNCHANGED <<ledgerVars, creditVars, stage, ticket, promised, closeTask, closing, writing,
                 sent, eof, cur, queued, stopped>>

WakeReaders ==
  /\ uipc = "wake" /\ ~creditLock
  /\ uipc' = "join"
  /\ rpc' = Wakened
  /\ UNCHANGED <<ledgerVars, creditVars, stage, ticket, promised, closeTask, closing, writing,
                 sent, eof, cur, queued, stopped>>

(* ... and joins it. *)
JoinReader ==
  /\ uipc = "join" /\ rpc = "done"
  /\ uipc' = "joined"
  /\ UNCHANGED <<ledgerVars, readerVars, creditVars, stage, ticket, promised,
                 closeTask, closing, writing>>

UI == \/ \E c \in Commands : \/ EnterRoute(c) \/ Route(c) \/ RouteBarrier(c)
                              \/ RouteReturns(c) \/ RouteThrows(c)
                              \/ Complete(c) \/ EndBarrier(c)
      \/ RunCloseTask \/ FatalFailure \/ StopReader \/ WakeReaders \/ JoinReader

(***************************************************************************)
(* The writer thread: the credit of a reply comes back once it is written. *)
(***************************************************************************)
WriteReply(c) ==
  /\ writing /\ reply[c] = "sent"
  /\ reply' = [reply EXCEPT ![c] = "released"]
  /\ ReleaseReply /\ rpc' = Wakened
  /\ UNCHANGED <<ledgerVars, uiVars, stage, ticket, promised, sent, eof, cur, queued, stopped>>

WriterFails ==
  /\ WriterMayFail /\ writing
  /\ writing' = FALSE
  /\ UNCHANGED <<ledgerVars, readerVars, creditVars, stage, ticket, promised,
                 uipc, closeTask, closing>>

Writer == WriterFails \/ \E c \in Commands : WriteReply(c)

(* The process is over when the reader is joined, or an exception left it. *)
Finished == uipc = "joined" \/ rpc = "crashed"

Next == ClientSends \/ ClientCloses \/ Reader \/ UI \/ Writer
        \/ (Finished /\ UNCHANGED vars)

Spec == Init /\ [][Next]_vars

(* Every thread runs; operations end, because the client gave each a       *)
(* deadline (timeoutMs 0 would ask for none) that Engine::Deadlines        *)
(* enforces; nothing is assumed of the client otherwise, of the granting   *)
(* of a barrier or of a fatal failure.                                     *)
Fairness ==
  /\ WF_vars(Reader)
  /\ \A c \in Commands :
       /\ WF_vars(EnterRoute(c)) /\ WF_vars(Route(c) \/ RouteBarrier(c))
       /\ WF_vars(RouteReturns(c)) /\ WF_vars(Complete(c)) /\ WF_vars(WriteReply(c))
  /\ WF_vars(RunCloseTask) /\ WF_vars(WakeReaders) /\ WF_vars(JoinReader)

FairSpec == Spec /\ Fairness

(***************************************************************************)
(* Properties.                                                             *)
(***************************************************************************)

(* When AcceptedReaderWork::Through says a cut has passed, every command   *)
(* that was accepted before the cut was taken has really finished: its     *)
(* route frame returned or it was never posted, and the reader is no       *)
(* longer inside its CefPostTask.                                          *)
CutSound ==
  \A k \in cuts : Through(k) =>
    \A c \in promised[k.nonce] :
      stage[c] \in Settled /\ ~(c = cur /\ rpc \in {"post", "accepted", "declined"})

(* queued_commands_ counts exactly the commands between the capacity wait  *)
(* and the start of their UI task, through every refusal path.             *)
QueueAccounting ==
  /\ queued = Cardinality({c \in Commands : stage[c] \in {"counted", "held", "posting", "inqueue"}})
  /\ queued <= QueueCap

(* Every reserved reply credit belongs to exactly one unanswered command,  *)
(* so Release never meets used_ = 0 (std::abort) and Reserve never         *)
(* exceeds the capacity.                                                   *)
CreditConservation ==
  /\ used = Cardinality({c \in Commands : reply[c] \in Outstanding})
  /\ used <= CreditCap

(* The ledger's rows outlast the UI queue and the route stack: only an     *)
(* exception or the end of its ticket counter poisons it.                  *)
NeverPoisonedByLoad ==
  poisoned => next = MaxTicket \/ rpc = "crashed" \/ \E c \in Commands : reply[c] = "lost"

(* A cut that passed stays passed until it is released or the ledger is    *)
(* poisoned: a later admission does not join an earlier cut.               *)
PassedCutsStay == [][\A k \in cuts \cap cuts' : Through(k) /\ ~poisoned' => Through(k)']_vars

(* "Shutdown wakes blocked readers": once StopReader has set stopped_, its *)
(* join returns, wherever the reader thread was waiting.                   *)
StopReaderReturns == uipc = "wake" ~> uipc = "joined"

(* "EOF requests graceful browser shutdown": after the client closes stdin *)
(* the Engine starts to close, as long as the writer thread lives (with    *)
(* stdout gone, a reader that waits for a credit never meets the end).     *)
EofClosesWhileWriting == eof ~> (closing \/ ~writing)

(* A cut passes once the commands before it have been routed: the barrier  *)
(* command's own frame, which took the cut, does not hold it forever.      *)
CutsPass == cuts # {} ~> (cuts = {} \/ poisoned \/ closing \/ ~writing \/ \E k \in cuts : Through(k))
==============================================================================
