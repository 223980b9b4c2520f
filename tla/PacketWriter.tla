---------------------------- MODULE PacketWriter ----------------------------
(***************************************************************************)
(* Writer (native/browser/protocol/writer.cc): the bounded output queues   *)
(* of the browser process, the thread that drains them to stdout, and the  *)
(* work watermarks of the accepted-work barrier.                           *)
(*                                                                         *)
(* Producers (any CEF thread) call Send, TryEvent and DropPage under       *)
(* mutex_; the Engine queues and retires watermarks; the writer thread is  *)
(* split at every point where it holds no lock, and between the false      *)
(* predicate of its condition variable and its sleep, where it holds       *)
(* mutex_; the main thread calls Stop, which does not take mutex_.         *)
(*                                                                         *)
(* A packet is its kind, its page, its size in abstract units and its      *)
(* ledger ticket; id numbers the packets in the order they were accepted.  *)
(* Headers, the per-page count of dropped frames, the failure path of an   *)
(* allocation and the publication audit are left out.                      *)
(***************************************************************************)
EXTENDS PublicationLedger, Erase, Integers, SequencesExt, FiniteSetsExt

CONSTANTS Pages, AudioPages,                  \* pages; the ones whose sound is captured
          FrameSizes, EventSizes, ReplySizes, \* sizes that producers use
          FrameBudget,                        \* 256 MiB of queued frames
          AudioCap,                           \* 100 queued audio packets
          EventCap, EventBudget,              \* 4096 events, 8 MiB
          MaxResponse, ReplyBudget,           \* 192 MiB each, 256 MiB in all
          CreditCap,                          \* reply credits
          MarkSlots,                          \* slots of watermarks_ (8)
          MaxPackets,                         \* bound: packets a behaviour accepts
          WriteMayFail,                       \* the kernel may refuse the output
          ReaderMayPoison                     \* the reader's ledger may be poisoned

ASSUME WriterAssumption ==
  /\ AudioPages \subseteq Pages
  /\ FrameSizes \subseteq Nat /\ EventSizes \subseteq Nat /\ ReplySizes \subseteq Nat
  /\ \A c \in {FrameBudget, AudioCap, EventCap, EventBudget, MaxResponse, ReplyBudget,
               CreditCap, MarkSlots, MaxPackets} : c \in Nat
  /\ AudioCap > 0
  /\ \A s \in FrameSizes : s <= FrameBudget \* a capture is at most 3840 x 2160
  /\ MaxResponse <= ReplyBudget
  /\ WriteMayFail \in BOOLEAN /\ ReaderMayPoison \in BOOLEAN

VARIABLES
  pub,        \* publication_
  control,    \* control_
  audio,      \* audio_
  frames,     \* frames_: page -> packet
  frameOrder, \* frame_order_
  frameBytes, eventCount, eventBytes, replyBytes, eventFailed,
  marks,      \* watermarks_: the slots in use
  readerPoisoned, \* the reader's ledger was poisoned: its cuts no longer pass
  credits,    \* replies that hold a credit and are not written
  stopping,   \* stopping_
  wpc,        \* where the writer thread is
  locked,     \* the writer thread keeps mutex_ across a step
  packet,     \* the packet it is writing
  spc,        \* how far Stop got
  made,       \* history: the kind of every accepted packet, by id
  wire,       \* history: what stdout carries
  gone        \* history: ids of the packets that were dropped

markVars == <<marks, readerPoisoned>>
queueVars == <<control, audio, frames, frameOrder>>
countVars == <<frameBytes, eventCount, eventBytes, replyBytes, eventFailed>>
threadVars == <<wpc, locked, packet>>
stopVars == <<stopping, spc>>
vars == <<pub, queueVars, countVars, marks, readerPoisoned, credits, threadVars, stopVars,
          made, wire, gone>>

NoPage == 0
PacketKinds == {"reply", "event", "error", "frame", "audio", "watermark"}
Packet == [id : Nat, ticket : 0 .. MaxTicket, kind : PacketKinds, page : Pages \cup {NoPage},
           size : Nat, barrier : 0 .. MaxNonce, through : Nat]
NoPacket == [id |-> 0, ticket |-> 0, kind |-> "error", page |-> NoPage, size |-> 0,
             barrier |-> 0, through |-> 0]

Mark == [barrier : 1 .. MaxNonce, cut : CutOf, through : Nat, queued : BOOLEAN, written : BOOLEAN]
NoMark == [barrier |-> 0, cut |-> NextCut(NewLedger), through |-> 0, queued |-> FALSE, written |-> FALSE]

(* The ledger's kind of a packet: the overflow error is a Control packet. *)
LedgerKind(kind) == IF kind \in {"reply", "error"} THEN "control" ELSE kind

Ids(s) == {s[i].id : i \in DOMAIN s}

SumSizes(packets) == MapThenSumSet(LAMBDA p : p.size, packets)
QueuedFrames == {frames[p] : p \in DOMAIN frames}

Init ==
  /\ pub = NewLedger
  /\ control = <<>> /\ audio = <<>> /\ frames = [p \in {} |-> NoPacket] /\ frameOrder = <<>>
  /\ frameBytes = 0 /\ eventCount = 0 /\ eventBytes = 0 /\ replyBytes = 0 /\ eventFailed = FALSE
  /\ marks = [s \in {} |-> NoMark] /\ readerPoisoned = FALSE /\ credits = 0
  /\ stopping = FALSE /\ spc = "run"
  /\ wpc = "check" /\ locked = FALSE /\ packet = NoPacket
  /\ made = <<>> /\ wire = <<>> /\ gone = {}

(***************************************************************************)
(* Producers.                                                              *)
(***************************************************************************)
Entered == ~locked /\ ~stopping /\ Len(made) < MaxPackets

(* notify_one under or after mutex_: only a sleeping writer notices. *)
Notify_Lost == UNCHANGED wpc
Notify == wpc' = IF wpc = "asleep" THEN "check" ELSE wpc

(* The packet that TrackedPacket builds on ledger l. *)
Tracked(l, kind, page, size) ==
  [NoPacket EXCEPT !.id = Len(made) + 1, !.ticket = AdmitTicket(l), !.kind = kind,
                   !.page = page, !.size = size]

PushBack_Front(queue, p) == <<p>> \o queue
PushBack(queue, p) == Append(queue, p)

Accept(l, kind) == pub' = Admit(l, LedgerKind(kind)) /\ made' = Append(made, kind)

(* Send of a frame.  The page keeps its place in frame_order_; the loop    *)
(* pops pages until the frame fits or no frame is left, and moves its own  *)
(* page to the back when it meets it.                                      *)
Others(page) == [p \in DOMAIN frames \ {page} |-> frames[p]]
Popped(order, m) == {order[i] : i \in 1 .. m}
KeptFrames(page, order, m) ==
  {frames[p] : p \in DOMAIN frames \ ({page} \cup Popped(order, m))}
PopsNeeded(page, size, order) ==
  CHOOSE m \in 0 .. Len(order) :
    LET enough(n) == \/ KeptFrames(page, order, n) = {}
                     \/ size <= FrameBudget - SumSizes(KeptFrames(page, order, n))
    IN enough(m) /\ \A n \in 0 .. m - 1 : ~enough(n)

SendFrame(page, size) ==
  LET order   == IF page \in DOMAIN frames THEN frameOrder ELSE Append(frameOrder, page)
      m       == PopsNeeded(page, size, order)
      evicted == (DOMAIN frames \cap Popped(order, m)) \ {page}
      replaced == {frames[p] : p \in DOMAIN frames \cap {page}}
      evictedPackets == {frames[p] : p \in evicted}
      dropped == Dropped(Dropped(pub, {p.ticket : p \in replaced}, "FrameReplaced"),
                         {p.ticket : p \in evictedPackets}, "FrameBudget")
  IN /\ Entered
     /\ frameOrder' = SubSeq(order, m + 1, Len(order))
                      \o (IF page \in Popped(order, m) THEN <<page>> ELSE <<>>)
     /\ frames' = [p \in (DOMAIN frames \ evicted) \cup {page} |->
                    IF p = page THEN Tracked(dropped, "frame", page, size) ELSE frames[p]]
     /\ frameBytes' = frameBytes - SumSizes(replaced) - SumSizes(evictedPackets) + size
     /\ Accept(dropped, "frame")
     /\ gone' = gone \cup {p.id : p \in replaced \cup evictedPackets}
     /\ Notify
     /\ UNCHANGED <<control, audio, eventCount, eventBytes, replyBytes, eventFailed, 
                    markVars, credits, locked, packet, stopVars, wire>>

SendAudio(page) ==
  LET full    == Len(audio) >= AudioCap
      oldest  == IF full THEN {Head(audio)} ELSE {}
      dropped == Dropped(pub, {p.ticket : p \in oldest}, "AudioBudget")
  IN /\ Entered
     /\ audio' = Append(IF full THEN Tail(audio) ELSE audio, Tracked(dropped, "audio", page, 0))
     /\ Accept(dropped, "audio")
     /\ gone' = gone \cup {p.id : p \in oldest}
     /\ Notify
     /\ UNCHANGED <<control, frames, frameOrder, countVars, markVars, credits,
                    locked, packet, stopVars, wire>>

(* Reply: the command holds a credit; an answer over budget is sent empty. *)
SendReply(size) ==
  LET sent == IF size > MaxResponse \/ size > ReplyBudget - replyBytes THEN 0 ELSE size
  IN /\ Entered /\ credits < CreditCap
     /\ control' = PushBack(control, Tracked(pub, "reply", NoPage, sent))
     /\ replyBytes' = replyBytes + sent
     /\ credits' = credits + 1
     /\ Accept(pub, "reply")
     /\ Notify
     /\ UNCHANGED <<audio, frames, frameOrder, frameBytes, eventCount, eventBytes, eventFailed,
                    markVars, locked, packet, stopVars, wire, gone>>

EventFits(size) == eventCount < EventCap /\ size <= EventBudget - eventBytes

(* An event that fits, from Send or from TryEvent (which refuses the       *)
(* others and changes nothing).                                            *)
PublishEvent(size) ==
  /\ Entered /\ ~eventFailed /\ EventFits(size)
  /\ control' = PushBack(control, Tracked(pub, "event", NoPage, size))
  /\ eventCount' = eventCount + 1
  /\ eventBytes' = eventBytes + size
  /\ Accept(pub, "event")
  /\ Notify
  /\ UNCHANGED <<audio, frames, frameOrder, frameBytes, replyBytes, eventFailed, markVars, credits,
                 locked, packet, stopVars, wire, gone>>

(* Send of the first event that does not fit: one error packet goes to the *)
(* front, and every later event is discarded.                              *)
OverflowEvents(size) ==
  /\ Entered /\ ~eventFailed /\ ~EventFits(size)
  /\ eventFailed' = TRUE
  /\ control' = <<Tracked(pub, "error", NoPage, 0)>> \o control
  /\ Accept(pub, "error")
  /\ Notify
  /\ UNCHANGED <<audio, frames, frameOrder, frameBytes, eventCount, eventBytes, replyBytes,
                 markVars, credits, locked, packet, stopVars, wire, gone>>

FrameOf_Any(page) == QueuedFrames
FrameOf(page) == {frames[p] : p \in DOMAIN frames \cap {page}}
OrderWithout(page) == Kept(frameOrder, {i \in DOMAIN frameOrder : frameOrder[i] # page})

DropPage(page) ==
  LET silent == {i \in DOMAIN audio : audio[i].page # page}
      sounds == {audio[i] : i \in DOMAIN audio \ silent}
  IN /\ ~locked /\ sounds \cup FrameOf(page) # {}
     /\ frames' = Others(page)
     /\ frameBytes' = frameBytes - SumSizes(FrameOf(page))
     /\ frameOrder' = OrderWithout(page)
     /\ audio' = Kept(audio, silent)
     /\ pub' = Dropped(pub, {p.ticket : p \in sounds \cup FrameOf(page)}, "PageDropped")
     /\ gone' = gone \cup {p.id : p \in sounds \cup FrameOf(page)}
     /\ UNCHANGED <<control, eventCount, eventBytes, replyBytes, eventFailed, markVars,
                    credits, threadVars, stopVars, made, wire>>

(***************************************************************************)
(* The Engine's watermarks.  PumpAcceptedWork queues one only after the    *)
(* reader's cut has passed, with a nonce it never used before; a passed    *)
(* reader cut stays passed until that ledger is poisoned (PassedCutsStay   *)
(* of CommandIntake).                                                      *)
(***************************************************************************)
ReaderPoisoned ==
  /\ ReaderMayPoison /\ ~readerPoisoned
  /\ readerPoisoned' = TRUE
  /\ UNCHANGED <<pub, queueVars, countVars, marks, credits, threadVars, stopVars,
                 made, wire, gone>>

FreeSlots == (1 .. MarkSlots) \ DOMAIN marks

QueueWorkWatermark ==
  /\ ~locked /\ ~stopping /\ ~CutRefused(pub)
  /\ IF FreeSlots = {}
     THEN pub' = Unsupported(pub) /\ UNCHANGED <<marks, wpc>>
     ELSE /\ pub' = Cut(pub)
          /\ marks' = [s \in DOMAIN marks \cup {Min(FreeSlots)} |->
                         IF s \in DOMAIN marks THEN marks[s]
                         ELSE [barrier |-> pub.nonce + 1, cut |-> NextCut(pub),
                               through |-> Len(made), queued |-> FALSE, written |-> FALSE]]
          /\ Notify
  /\ UNCHANGED <<queueVars, countVars, readerPoisoned, credits, locked, packet,
                 stopVars, made, wire, gone>>

(* WorkWatermarkWritten, then RetireWorkWatermark. *)
MayRetire(s) == marks[s].written /\ ~readerPoisoned /\ Through(pub, marks[s].cut)

RetireWorkWatermark(s) ==
  /\ ~locked /\ MayRetire(s)
  /\ pub' = ReleaseCut(pub, marks[s].cut)
  /\ marks' = [t \in DOMAIN marks \ {s} |-> marks[t]]
  /\ UNCHANGED <<queueVars, countVars, readerPoisoned, credits, threadVars, stopVars,
                 made, wire, gone>>

WorkWatermarkReady(s) ==
  ~marks[s].queued /\ ~readerPoisoned /\ Through(pub, marks[s].cut)

(***************************************************************************)
(* The writer thread.                                                      *)
(***************************************************************************)
HasPackets == control # <<>> \/ audio # <<>> \/ DOMAIN frames # {}
HasWork_AnyMark == HasPackets \/ marks # <<>>
HasWork == HasPackets \/ \E s \in DOMAIN marks : WorkWatermarkReady(s)

(* It takes mutex_ and evaluates the predicate; a false one keeps mutex_   *)
(* until the thread sleeps.                                                *)
CheckQueues ==
  /\ wpc = "check"
  /\ \/ stopping /\ wpc' = "done" /\ UNCHANGED locked
     \/ ~stopping /\ HasWork /\ wpc' = "enqueue" /\ locked' = TRUE
     \/ ~stopping /\ ~HasWork /\ wpc' = "evaluated" /\ locked' = TRUE
  /\ UNCHANGED <<pub, queueVars, countVars, markVars, credits, packet, stopVars,
                 made, wire, gone>>

Sleep ==
  /\ wpc = "evaluated"
  /\ wpc' = "asleep" /\ locked' = FALSE
  /\ UNCHANGED <<pub, queueVars, countVars, markVars, credits, packet, stopVars,
                 made, wire, gone>>

(* WorkChanged notifies without mutex_, and a condition variable may wake  *)
(* for no reason: neither is relied upon.                                  *)
WorkChanged ==
  /\ wpc = "asleep" /\ wpc' = "check"
  /\ UNCHANGED <<pub, queueVars, countVars, markVars, credits, locked, packet,
                 stopVars, made, wire, gone>>

(* EnqueueReadyWorkWatermarks, slot by slot, each to the front. *)
EnqueueReadyWorkWatermark ==
  LET ready == {s \in DOMAIN marks : WorkWatermarkReady(s)}
      s == Min(ready)
      marker == [Tracked(pub, "watermark", NoPage, 0) EXCEPT !.barrier = marks[s].barrier,
                                                              !.through = marks[s].through]
  IN /\ wpc = "enqueue" /\ ready # {}
     /\ control' = <<marker>> \o control
     /\ marks' = [marks EXCEPT ![s].queued = TRUE]
     /\ Accept(pub, "watermark")
     /\ UNCHANGED <<audio, frames, frameOrder, countVars, readerPoisoned, credits,
                    threadVars, stopVars, wire, gone>>

(* Control first, then audio, then the frame of the oldest page. *)
TakePacket ==
  LET from == IF control # <<>> THEN Head(control)
              ELSE IF audio # <<>> THEN Head(audio) ELSE frames[Head(frameOrder)]
      event == from.kind = "event"
      frame == from.kind = "frame"
  IN /\ wpc = "enqueue" /\ HasPackets /\ \A s \in DOMAIN marks : ~WorkWatermarkReady(s)
     /\ control' = IF control # <<>> THEN Tail(control) ELSE control
     /\ audio' = IF from.kind = "audio" THEN Tail(audio) ELSE audio
     /\ frames' = IF frame THEN Others(from.page) ELSE frames
     /\ frameOrder' = IF frame THEN Tail(frameOrder) ELSE frameOrder
     /\ frameBytes' = IF frame THEN frameBytes - from.size ELSE frameBytes
     /\ eventCount' = IF event THEN eventCount - 1 ELSE eventCount
     /\ eventBytes' = IF event THEN eventBytes - from.size ELSE eventBytes
     /\ pub' = Dequeue(pub, from.ticket)
     /\ packet' = from
     /\ wpc' = "write" /\ locked' = FALSE
     /\ UNCHANGED <<replyBytes, eventFailed, markVars, credits, stopVars,
                    made, wire, gone>>

(* The predicate was true for a watermark alone, and a ledger was poisoned *)
(* before the watermark was enqueued: the thread reads frame_order_.front() *)
(* of an empty deque, which is undefined; here the process ends.           *)
TakeFromEmpty ==
  /\ wpc = "enqueue" /\ ~HasPackets /\ \A s \in DOMAIN marks : ~WorkWatermarkReady(s)
  /\ wpc' = "crashed"
  /\ UNCHANGED <<pub, queueVars, countVars, markVars, credits, locked, packet,
                 stopVars, made, wire, gone>>

(* WriteNativePacket: writev takes part or all of what is left, ... *)
WriteSome ==
  /\ wpc = "write" /\ ~stopping
  /\ \E amount \in {"part", "all"} :
       /\ amount = "part" => RowAt(pub, packet.ticket).written = "none"
       /\ pub' = Wrote(pub, packet.ticket, amount)
       /\ wpc' = IF amount = "all" THEN "written" ELSE wpc
  /\ UNCHANGED <<queueVars, countVars, markVars, credits, locked, packet, stopVars,
                 made, wire, gone>>

(* ... or the write fails, or Stop interrupts it: the thread ends.         *)
WriteFails ==
  /\ wpc = "write" /\ (stopping \/ WriteMayFail)
  /\ pub' = WriteFailed(pub, packet.ticket)
  /\ wpc' = "done"
  /\ UNCHANGED <<queueVars, countVars, markVars, credits, locked, packet, stopVars,
                 made, wire, gone>>

WriteEnds ==
  /\ wpc = "written"
  /\ pub' = FullWrite(pub, packet.ticket)
  /\ wire' = Append(wire, packet)
  /\ wpc' = "settle"
  /\ UNCHANGED <<queueVars, countVars, markVars, credits, locked, packet, stopVars,
                 made, gone>>

(* After FullWrite, under mutex_ again: a watermark is marked as written   *)
(* if the ledger accepted the report, a reply returns its bytes and credit. *)
SettlePacket ==
  /\ wpc = "settle"
  /\ marks' = [s \in DOMAIN marks |->
                IF marks[s].barrier = packet.barrier THEN [marks[s] EXCEPT !.written = packet.ticket # 0]
                ELSE marks[s]]
  /\ replyBytes' = IF packet.kind = "reply" THEN replyBytes - packet.size ELSE replyBytes
  /\ credits' = IF packet.kind = "reply" THEN credits - 1 ELSE credits
  /\ packet' = NoPacket
  /\ wpc' = "check"
  /\ UNCHANGED <<pub, queueVars, frameBytes, eventCount, eventBytes, eventFailed, 
                 readerPoisoned, locked, stopVars, made, wire, gone>>

WriterThread == \/ CheckQueues \/ Sleep \/ EnqueueReadyWorkWatermark \/ TakePacket \/ TakeFromEmpty
                \/ WriteSome \/ WriteFails \/ WriteEnds \/ SettlePacket

(***************************************************************************)
(* Stop, on the main thread after CefShutdown: neither the flag nor the    *)
(* notification takes mutex_.                                              *)
(***************************************************************************)
StopPoison ==
  /\ spc = "run"
  /\ pub' = Unsupported(pub)
  /\ spc' = "flag"
  /\ UNCHANGED <<queueVars, countVars, markVars, credits, threadVars, stopping,
                 made, wire, gone>>

StopFlag ==
  /\ spc = "flag"
  /\ stopping' = TRUE
  /\ spc' = "notify"
  /\ UNCHANGED <<pub, queueVars, countVars, markVars, credits, threadVars,
                 made, wire, gone>>

StopNotify_Silent ==
  /\ spc = "notify"
  /\ spc' = "join"
  /\ UNCHANGED <<pub, queueVars, countVars, markVars, credits, threadVars,
                 stopping, made, wire, gone>>
StopNotify ==
  /\ spc = "notify"
  /\ Notify
  /\ spc' = "join"
  /\ UNCHANGED <<pub, queueVars, countVars, markVars, credits, locked, packet,
                 stopping, made, wire, gone>>

StopJoin ==
  /\ spc = "join" /\ wpc = "done"
  /\ spc' = "joined"
  /\ UNCHANGED <<pub, queueVars, countVars, markVars, credits, threadVars, stopping,
                 made, wire, gone>>

Stop == StopPoison \/ StopFlag \/ StopNotify \/ StopJoin

Producers ==
  \/ \E p \in Pages : DropPage(p) \/ \E size \in FrameSizes : SendFrame(p, size)
  \/ \E p \in AudioPages : SendAudio(p)
  \/ \E size \in ReplySizes : SendReply(size)
  \/ \E size \in EventSizes : OverflowEvents(size) \/ PublishEvent(size)

Engine == QueueWorkWatermark \/ ReaderPoisoned \/ \E s \in DOMAIN marks : RetireWorkWatermark(s)

Next == Producers \/ Engine \/ WriterThread \/ WorkChanged \/ Stop
        \/ ((spc = "joined" \/ wpc = "crashed") /\ UNCHANGED vars)

Spec == Init /\ [][Next]_vars
FairSpec == Spec /\ WF_vars(WriterThread) /\ WF_vars(StopFlag) /\ WF_vars(StopNotify) /\ WF_vars(StopJoin)

(***************************************************************************)
(* Properties.                                                             *)
(***************************************************************************)
(* The types: in particular no size_t counter of the Writer falls below 0. *)
TypeOK ==
  /\ pub \in Ledger
  /\ control \in Seq(Packet) /\ audio \in Seq(Packet) /\ frameOrder \in Seq(Pages)
  /\ DOMAIN frames \subseteq Pages /\ QueuedFrames \subseteq Packet
  /\ \A n \in {frameBytes, eventCount, eventBytes, replyBytes, credits} : n \in Nat
  /\ \A b \in {eventFailed, readerPoisoned, stopping, locked} : b \in BOOLEAN
  /\ DOMAIN marks \subseteq 1 .. MarkSlots /\ \A s \in DOMAIN marks : marks[s] \in Mark
  /\ wpc \in {"check", "evaluated", "asleep", "enqueue", "write", "written", "settle", "done", "crashed"}
  /\ packet \in Packet /\ spc \in {"run", "flag", "notify", "join", "joined"}
  /\ made \in Seq(PacketKinds) /\ wire \in Seq(Packet) /\ gone \subseteq Nat

(* The packets that wait or are being written. *)
Pending == ToSet(control) \cup ToSet(audio) \cup QueuedFrames
           \cup (IF wpc \in {"write", "written"} THEN {packet} ELSE {})

(* Every page with a queued frame has exactly one place in frame_order_,   *)
(* so frames_.at never throws in the writer thread; frame_bytes_ is what   *)
(* the queued frames take and never passes the budget, so the subtraction  *)
(* in Send does not wrap.                                                  *)
FramesMatchOrder ==
  /\ ToSet(frameOrder) = DOMAIN frames /\ IsInjective(frameOrder)
  /\ \A p \in DOMAIN frames : frames[p].page = p
  /\ frameBytes = SumSizes(QueuedFrames) /\ frameBytes <= FrameBudget

(* The event counters are what control_ holds, and reply_bytes_ and the    *)
(* credits also count the reply being written until its credit is back.    *)
BudgetsMatchQueues ==
  LET events == {p \in ToSet(control) : p.kind = "event"}
      replies == {p \in ToSet(control) \cup {packet} : p.kind = "reply"}
  IN /\ eventCount = Cardinality(events) /\ eventCount <= EventCap
     /\ eventBytes = SumSizes(events) /\ eventBytes <= EventBudget
     /\ replyBytes = SumSizes(replies) /\ replyBytes <= ReplyBudget
     /\ credits = Cardinality(replies)

(* The ledger tells the truth about the queues: unless it is poisoned, its *)
(* active tickets are exactly those of the packets that wait or are being  *)
(* written, and every other accepted packet was written or was a frame or  *)
(* audio packet dropped on purpose; no reply or event is ever lost.        *)
LedgerMatchesQueues ==
  ~pub.poisoned =>
    /\ Active(pub) = {p.ticket : p \in Pending}
    /\ \A id \in DOMAIN made :
         \/ id \in {p.id : p \in Pending} \/ id \in Ids(wire)
         \/ id \in gone /\ made[id] \in {"frame", "audio"}

(* Whatever Send, TryEvent, DropPage and the writer thread do in between,  *)
(* the frame order, the budgets and the publication ledger all describe    *)
(* the queues as they are.                                                 *)
QueuesSound == FramesMatchOrder /\ BudgetsMatchQueues /\ LedgerMatchesQueues

(* A watermark on stdout is a truthful cut: every packet accepted before   *)
(* the watermark was queued is on stdout before it, or was a frame or an   *)
(* audio packet that was dropped on purpose.                               *)
WatermarkSound ==
  \A i \in DOMAIN wire : wire[i].kind = "watermark" =>
    \A id \in 1 .. wire[i].through :
      \/ \E j \in 1 .. i - 1 : wire[j].id = id
      \/ id \in gone /\ made[id] \in {"frame", "audio"}

(* Replies and events reach stdout in the order they were accepted, with   *)
(* watermarks and the overflow error pushed to the front of the queue.     *)
ControlInOrder ==
  \A i, j \in DOMAIN wire :
    i < j /\ {wire[i].kind, wire[j].kind} \subseteq {"reply", "event"} => wire[i].id < wire[j].id

(* The ledger has a row for everything the queues may hold: load alone     *)
(* never poisons it.                                                       *)
NeverPoisonedByLoad ==
  pub.poisoned => spc # "run" \/ wpc = "done" \/ MarkSlots < MaxNonce

(* An accepted reply reaches stdout, unless the process is stopped or its  *)
(* output fails.                                                           *)
RepliesAreWritten ==
  \A n \in 1 .. MaxPackets :
    (n \in DOMAIN made /\ made[n] = "reply") ~> (n \in Ids(wire) \/ spc # "run" \/ wpc = "done")

(* A queued watermark reaches stdout, unless a ledger is poisoned.         *)
WatermarksAreWritten ==
  \A b \in 1 .. MaxNonce :
    (\E s \in DOMAIN marks : marks[s].barrier = b)
      ~> (pub.poisoned \/ readerPoisoned \/ b \in {wire[i].barrier : i \in DOMAIN wire})

(* What the Writer has accepted reaches stdout: no notification between    *)
(* the callers of Send and RequestWorkWatermark and the thread is lost.    *)
AcceptedIsWritten == RepliesAreWritten /\ WatermarksAreWritten

(* The thread takes a packet when a queue holds one.  Only a ledger that   *)
(* is poisoned between its wait predicate and its enqueueing makes it read *)
(* the front of an empty queue (Stop poisons without mutex_).              *)
TakesOnlyQueuedPackets == wpc = "crashed" => pub.poisoned \/ readerPoisoned

(* Stop joins the writer thread, unless its notification falls between a   *)
(* false predicate of the thread and its sleep: Stop takes no mutex_, and  *)
(* there the notification is lost.  (Or the thread has read an empty queue.) *)
StopReturns == (spc = "notify" /\ wpc # "evaluated") ~> (spc = "joined" \/ wpc = "crashed")
==============================================================================
