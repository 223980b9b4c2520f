--------------------------- MODULE WorkFenceProofs ---------------------------
(***************************************************************************)
(* The work fence across its three processes, for every number of commands *)
(* and fences, every length of the channels and every batch size.          *)
(*                                                                         *)
(* The inductive invariant FenceInv says what each process may rely on:    *)
(*   - RunnerOK, HostOK and EngineOK, what the record of each process and  *)
(*     the packets on their way from it say of the challenges that were    *)
(*     granted (by the Engine), that are quiet (every command before the   *)
(*     barrier decoded) and that are good (granted, and no error before);  *)
(*   - TokenInv, that the command of a barrier is in one place at most on  *)
(*     its way from stdin to the answer in stdout;                         *)
(*   - PlaceInv, where every command is, and that a barrier in stdin has   *)
(*     the commands submitted before it in front;                          *)
(*   - MarkInv, that a watermark in the writer or in stdout has the answers *)
(*     of every command before its barrier ahead of it;                    *)
(*   - ErrorInv, that an error is ahead of every answer given after it;    *)
(*   - LoneInv, that an idle barrier has no author work behind it.         *)
(*                                                                         *)
(* Every step is shown first as what it does to one record (a Turn of the  *)
(* runner, a Call of the host, a Pump of the Engine) and then as what it   *)
(* does to the pipes between them.  The refinement of WorkBarrier follows  *)
(* from the invariant: the runner's turns are Grant, Deny or nothing.      *)
(***************************************************************************)
EXTENDS WorkFence, DataLemmas

-----------------------------------------------------------------------------
(* Types.                                                                  *)

Cuts == [nonce : Nat, reader : Nat, writer : Nat]
PacketOf(kinds) == [kind : kinds, nonce : Nat, generation : Nat, cuts : Cuts]
ToEngine == PacketOf({"Install", "Begin", "Observed", "Resume"})
ToRunner == PacketOf({"Capability", "Cut", "Acknowledged", "Unsupported", "Resumed"})
ToHost == PacketOf({"BEGIN", "BEGIN callback", "EXPECT", "ACK", "REFUSE", "RESUME"})
FromHostType == PacketOf({"OBSERVED", "READY", "HOST_RESUMED"})

RunnerWorkType ==
  [nonce : Nat, generation : Nat, cuts : Cuts, observed : BOOLEAN, acknowledged : BOOLEAN,
   late : BOOLEAN, canceled : BOOLEAN, refused : BOOLEAN, resume : Nat, resumed : BOOLEAN]
FenceType ==
  [generation : Nat, canceled : BOOLEAN, hostReady : BOOLEAN, resumeRequested : BOOLEAN,
   hostResumeSent : BOOLEAN, hostResumed : BOOLEAN]
RunnerType ==
  [install : BOOLEAN, capability : BOOLEAN, work : RunnerWorkType, fence : FenceType,
   idle : BOOLEAN, generation : Nat, sequence : Nat, completed : Nat,
   expectSent : BOOLEAN, ackSent : BOOLEAN, refusalSent : BOOLEAN, exit : BOOLEAN, failed : BOOLEAN]
TurnType == [r : RunnerType, toEngine : Seq(ToEngine), toHost : Seq(ToHost)]

Challenges == [nonce : Nat, generation : Nat, callback : BOOLEAN]
EntryType == [expected : Cuts, observed : Cuts, sent : BOOLEAN]
PendingType == [nonce : Nat, raw : BOOLEAN, acknowledged : BOOLEAN, failed : BOOLEAN, refused : BOOLEAN]
HostType ==
  [challenge : Challenges, ready : BOOLEAN, resume : Nat, pending : PendingType, last : Nat,
   entries : [Nonces -> EntryType], completed : SUBSET Nonces, poisoned : BOOLEAN, failed : BOOLEAN]
CallType == [h : HostType, toRunner : Seq(FromHostType), barriers : Seq(Challenges)]

EngineWorkType ==
  [nonce : Nat, generation : Nat, command : BOOLEAN, reader : Nat, cuts : Cuts,
   observed : BOOLEAN, granted : BOOLEAN, refused : BOOLEAN, resume : Nat]
EngineType ==
  [installed : BOOLEAN, nonce : Nat, generation : Nat, work : EngineWorkType, posted : BOOLEAN,
   unattested : BOOLEAN, thrown : BOOLEAN]
PumpType == [e : EngineType, toRunner : Seq(ToRunner), answers : Seq(BOOLEAN), mark : Cuts]

Named == Commands \cup {NoCommand}
LineType == [kind : {"command", "barrier"}, command : Named, challenge : Challenges]
TaskType == [kind : {"command", "barrier", "reply", "watch"}, command : Named, challenge : Challenges, sequence : Nat]
OutputOf(kinds) == [kind : kinds, command : Named, ok : BOOLEAN, cuts : Cuts, sequence : Nat]
QueueType == OutputOf({"reply", "error", "answer"})
StdoutType == OutputOf({"reply", "error", "answer", "mark"})

TypeInv ==
  /\ runner \in RunnerType /\ host \in HostType /\ engine \in EngineType
  /\ toEngine \in Seq(ToEngine) /\ toRunner \in Seq(ToRunner)
  /\ toHost \in Seq(ToHost) /\ fromHost \in Seq(FromHostType)
  /\ stdin \in Seq(LineType) /\ stdout \in Seq(StdoutType)
  /\ ui \in Seq(TaskType) /\ queue \in Seq(QueueType)
  /\ running \subseteq Commands /\ accepted \in Nat /\ published \in Nat
  /\ mark \in [cuts : Cuts, written : BOOLEAN]
  /\ submitted \subseteq Commands /\ settled \subseteq Commands
  /\ before \in [Nonces -> SUBSET Commands] /\ errored \subseteq Nat
  /\ alive \in BOOLEAN /\ owned \in BOOLEAN /\ stopped \in BOOLEAN

-----------------------------------------------------------------------------
(* What is known of a challenge.                                           *)

(* The Engine has granted it; the client had its answers; the fence may    *)
(* complete.                                                               *)
GrantedBy(e) == {n \in Nonces : n < e.nonce \/ (n = e.nonce /\ (e.work = NoEngineWork \/ e.work.granted))}
QuietAt(last, b, s) == {n \in Nonces : n <= last /\ b[n] \subseteq s}
Quiet == QuietAt(host.last, before, settled)
Good == GrantedBy(engine) \ errored

-----------------------------------------------------------------------------
(* The runner.                                                             *)

CountInv(r) ==
  /\ r.completed <= MaxFences /\ (HasFence(r) => r.completed < MaxFences)
  /\ HasWork(r) => r.work.nonce = r.sequence /\ r.sequence = r.completed + 1
  /\ ~HasWork(r) => r.sequence = r.completed

ReceiptInv(r, granted, quiet) ==
  /\ r.work.cuts # NoCuts => r.work.cuts.nonce = r.work.nonce
  /\ r.work.observed => r.work.cuts # NoCuts /\ r.work.nonce \in quiet
  /\ r.work.acknowledged => r.work.observed /\ r.work.nonce \in granted

ResumeInv(r, good) ==
  /\ r.fence.hostResumed => r.work.nonce \in good
  /\ \A n \in 1 .. r.completed : n \in good

(* idle excludes callback fences for good. *)
IdleInv(r, packets) ==
  /\ r.idle => r.generation = 0
  /\ r.generation = 0 =>
       /\ ~HasFence(r) /\ r.completed = 0
       /\ \A i \in 1 .. Len(packets) : packets[i].kind # "BEGIN callback"

BeginInv(r, nonce, last) ==
  /\ nonce <= r.sequence /\ last <= r.sequence
  /\ r.sequence <= nonce + 1 /\ r.sequence <= last + 1
  /\ ~HasWork(r) => r.sequence <= nonce /\ r.sequence <= last

SentInv(t, granted) ==
  /\ \A i \in 1 .. Len(t.toEngine) : t.toEngine[i].kind = "Begin" =>
       t.toEngine[i].nonce \in Nonces /\ t.toEngine[i].nonce <= t.r.sequence
  /\ \A i \in 1 .. Len(t.toHost) :
       LET m == t.toHost[i]
       IN /\ m.kind \in {"BEGIN", "BEGIN callback"} => m.nonce \in Nonces /\ m.nonce <= t.r.sequence
          /\ m.kind = "ACK" => m.cuts.nonce \in granted
          /\ m.kind = "EXPECT" => m.cuts.nonce # 0

RunnerInv(t, nonce, last, granted, quiet, good) ==
  /\ CountInv(t.r) /\ ReceiptInv(t.r, granted, quiet) /\ ResumeInv(t.r, good)
  /\ IdleInv(t.r, t.toHost) /\ BeginInv(t.r, nonce, last) /\ SentInv(t, granted)

-----------------------------------------------------------------------------
(* The host.                                                               *)

HostInv(c, granted, quiet, good) ==
  LET h == c.h
  IN /\ h.last = 0 \/ h.last \in Nonces
     /\ h.pending # NoPending => h.pending.nonce = h.last /\ h.last # 0
     /\ h.challenge.callback => h.pending # NoPending /\ h.challenge.nonce = h.pending.nonce
     /\ h.pending.acknowledged => h.pending.nonce \in granted
     /\ h.pending.nonce \in granted \ good => ~h.pending.raw
     /\ \A n \in Nonces : h.entries[n].observed # NoCuts => n \in quiet /\ h.entries[n].observed.nonce = n
     /\ \A i \in 1 .. Len(c.toRunner) :
          LET m == c.toRunner[i]
          IN /\ m.kind = "OBSERVED" => m.cuts.nonce \in quiet
             /\ m.kind = "HOST_RESUMED" => m.nonce \in good

-----------------------------------------------------------------------------
(* The Engine.                                                             *)

Held(e) == e.work.command /\ ~e.work.granted /\ ~e.work.refused

EngineInv(p, last) ==
  /\ p.e.work # NoEngineWork => p.e.work.nonce = p.e.nonce /\ p.e.nonce \in Nonces
  /\ p.e.work.cuts # NoCuts => p.e.work.cuts.nonce = p.e.work.nonce
  /\ p.e.work.command => p.e.work.nonce <= last
  /\ \A i \in 1 .. Len(p.toRunner) :
       LET m == p.toRunner[i]
       IN /\ m.kind = "Acknowledged" => m.cuts.nonce \in GrantedBy(p.e)
          /\ m.kind = "Cut" => m.cuts.nonce = m.nonce /\ m.nonce # 0
          /\ m.kind = "Unsupported" => m.nonce # 0

-----------------------------------------------------------------------------
(* The barrier command is in one place at most.                            *)

One(s, kind) == \A i, j \in 1 .. Len(s) : s[i].kind = kind /\ s[j].kind = kind => i = j
Some(s, kind) == \E i \in 1 .. Len(s) : s[i].kind = kind
TokenAt ==
  {k \in 1 .. 5 : \/ k = 1 /\ Some(stdin, "barrier")
                  \/ k = 2 /\ Some(ui, "barrier")
                  \/ k = 3 /\ Held(engine)
                  \/ k = 4 /\ Some(queue, "answer")
                  \/ k = 5 /\ Some(stdout, "answer")}
TokenInv ==
  /\ One(stdin, "barrier") /\ One(ui, "barrier") /\ One(queue, "answer") /\ One(stdout, "answer")
  /\ \A k, l \in TokenAt : k = l
  /\ TokenAt # {} => host.pending # NoPending /\ ~host.pending.raw
  /\ \A i \in 1 .. Len(stdin) : stdin[i].kind = "barrier" => stdin[i].challenge.nonce <= host.last
  /\ \A i \in 1 .. Len(ui) : ui[i].kind = "barrier" => ui[i].challenge.nonce <= host.last

-----------------------------------------------------------------------------
(* Where the commands are.                                                 *)

In(s, c) == \E i \in 1 .. Len(s) : s[i].command = c
Placed(c) == c \in settled \/ In(stdout, c) \/ In(queue, c) \/ c \in running \/ In(ui, c) \/ In(stdin, c)
(* The lines that were written before a barrier are before it in the pipe. *)
Fenced(s, b) ==
  \A i \in 1 .. Len(s) : \A n \in Nonces : s[i].command \in b[n] =>
    \E j \in 1 .. Len(s) : i < j /\ s[j].kind = "barrier" /\ s[j].challenge.nonce = n
PlaceInv ==
  /\ \A c \in submitted : Placed(c)
  /\ \A n \in Nonces : before[n] \subseteq submitted /\ (n > host.last => before[n] = {})
  /\ \A c \in Commands : In(stdout, c) \/ In(queue, c) \/ c \in running \/ In(ui, c) \/ In(stdin, c) => c \in submitted
  /\ settled \subseteq submitted
  /\ \A i \in 1 .. Len(stdin) : stdin[i].kind = "barrier" <=> stdin[i].command = NoCommand
  /\ \A i \in 1 .. Len(ui) : ui[i].kind \in {"barrier", "watch"} <=> ui[i].command = NoCommand
  /\ Fenced(stdin, before)

MarkInv ==
  /\ \A i \in 1 .. Len(queue) : queue[i].sequence <= published
  /\ mark # NoMark /\ ~mark.written =>
       /\ mark.cuts.nonce \in Nonces /\ mark.cuts.nonce <= host.last
       /\ \A c \in before[mark.cuts.nonce] :
            \/ c \in settled \/ In(stdout, c)
            \/ \E i \in 1 .. Len(queue) : queue[i].command = c /\ queue[i].sequence <= mark.cuts.writer
  /\ \A i \in 1 .. Len(stdout) : stdout[i].kind = "mark" =>
       /\ stdout[i].cuts.nonce \in Nonces /\ stdout[i].cuts.nonce <= host.last
       /\ stdout[i].command = NoCommand
       /\ \A c \in before[stdout[i].cuts.nonce] :
            c \in settled \/ \E j \in 1 .. Len(stdout) : j < i /\ stdout[j].command = c

-----------------------------------------------------------------------------
(* The error.                                                              *)

Late == host.last \in GrantedBy(engine) /\ host.last \in errored
ErrorInv ==
  errored # {} /\ ~host.failed =>
    \/ \E e \in 1 .. Len(stdout) :
         stdout[e].kind = "error" /\ (Late => \A i \in 1 .. Len(stdout) : i < e => stdout[i].kind # "answer")
    \/ \E e \in 1 .. Len(queue) :
         /\ queue[e].kind = "error"
         /\ Late => /\ \A i \in 1 .. Len(stdout) : stdout[i].kind # "answer"
                    /\ \A i \in 1 .. Len(queue) : i < e => queue[i].kind # "answer"

(* A worker that is asked whether it is idle has no callback fence, and    *)
(* submits nothing but controls after the barrier.                         *)
LoneInv ==
  runner.generation = 0 /\ host.last # 0 =>
    /\ host.pending # NoPending /\ ~host.challenge.callback
    /\ submitted \ Controls \subseteq before[host.last]

RunnerOK ==
  RunnerInv(Turn(runner, toEngine, toHost), engine.nonce, host.last, GrantedBy(engine), Quiet, Good)
HostOK == HostInv(Call(host, fromHost, <<>>), GrantedBy(engine), Quiet, Good)
EngineOK == EngineInv(Pump(engine, toRunner), host.last)

FenceInv ==
  /\ TypeInv /\ RunnerOK /\ HostOK /\ EngineOK
  /\ TokenInv /\ PlaceInv /\ MarkInv /\ ErrorInv /\ LoneInv

(* The states between the packets of a batch. *)
IsRun(f, k, S, r, step, packets) ==
  f \in [0 .. k -> S] /\ f[0] = r /\ \A i \in 1 .. k : f[i] = step[f[i - 1]][packets[i]]

(* A fold over a sequence that stays in a set has all its intermediate     *)
(* states, one for every place.                                            *)
LEMMA RunExists ==
  ASSUME NEW S, NEW P, NEW r \in S, NEW packets \in Seq(P), NEW step \in [S -> [P -> S]]
  PROVE  \E f : IsRun(f, Len(packets), S, r, step, packets)
<1> DEFINE n == Len(packets)
           T == {k \in 0 .. n : \E f : IsRun(f, k, S, r, step, packets)}
<1>1. n \in Nat /\ \A i \in 1 .. n : packets[i] \in P
  OBVIOUS
<1>2. 0 \in T
  <2>1. IsRun([i \in 0 .. 0 |-> r], 0, S, r, step, packets)
    BY DEF IsRun
  <2> QED  BY <1>1, <2>1
<1>3. ASSUME NEW k \in 1 .. n, k - 1 \in T PROVE k \in T
  <2>1. PICK f : IsRun(f, k - 1, S, r, step, packets)
    BY <1>3
  <2> DEFINE h == [i \in 0 .. k |-> IF i = k THEN step[f[k - 1]][packets[k]] ELSE f[i]]
  <2>2. f[k - 1] \in S /\ k - 1 \in 0 .. k - 1 /\ k \in Nat
    BY <1>1, <2>1 DEF IsRun
  <2>3. step[f[k - 1]][packets[k]] \in S
    BY <1>1, <2>2
  <2>4. h \in [0 .. k -> S]
    BY <2>1, <2>3 DEF IsRun
  <2>5. h[0] = r
    BY <1>1, <2>1 DEF IsRun
  <2>6. ASSUME NEW i \in 1 .. k PROVE h[i] = step[h[i - 1]][packets[i]]
    <3>1. i - 1 \in 0 .. k /\ i - 1 # k /\ h[i - 1] = f[i - 1]
      BY <2>2
    <3>2. CASE i = k
      BY <3>1, <3>2
    <3>3. CASE i # k
      <4>1. i \in 1 .. k - 1
        BY <2>2, <3>3
      <4>2. f[i] = step[f[i - 1]][packets[i]]
        BY <2>1, <4>1, SMTT(40), ZenonT(60) DEF IsRun
      <4> QED  BY <3>1, <3>3, <4>2
    <3> QED  BY <3>2, <3>3
  <2>7. IsRun(h, k, S, r, step, packets)
    BY <2>4, <2>5, <2>6 DEF IsRun
  <2> HIDE DEF h
  <2> QED  BY <2>7
<1>4. 0 .. n \subseteq T
  <2> HIDE DEF T, n
  <2> QED  BY <1>1, <1>2, <1>3, Upwards
<1>5. n \in T
  <2> HIDE DEF T, n
  <2>1. n \in 0 .. n
    BY <1>1
  <2> QED  BY <1>4, <2>1
<1> QED  BY <1>5

(* The end of receiver_.Tick. *)
AfterReceipts(r, exited) == IF r.failed THEN r ELSE [r EXCEPT !.exit = @ \/ exited]

(* The receipts of a tick, one after the other: a set that every receipt   *)
(* keeps is kept by all of them.                                           *)
LEMMA ReceiptsKeep ==
  ASSUME NEW S, NEW P, NEW r \in S, NEW packets \in Seq(P), NEW expired, NEW exited,
         \A x \in S : \A m \in P : ObserveWork(x, m, expired, exited) \in S
  PROVE  \E after \in S : ReceiverTick(r, packets, expired, exited) = AfterReceipts(after, exited)
<1> DEFINE n == Len(packets)
           next(f) == [i \in 0 .. n |-> IF i = 0 THEN r ELSE ObserveWork(f[i - 1], packets[i], expired, exited)]
           g == CHOOSE f : f = next(f)
           step == [x \in S |-> [m \in P |-> ObserveWork(x, m, expired, exited)]]
<1>1. n \in Nat /\ \A i \in 1 .. n : packets[i] \in P
  OBVIOUS
<1>2a. PICK f : IsRun(f, n, S, r, step, packets)
  <2>1. step \in [S -> [P -> S]]
    OBVIOUS
  <2> HIDE DEF step
  <2> QED  BY <2>1, RunExists
<1>2. f \in [0 .. n -> S] /\ f[0] = r /\ \A i \in 1 .. n : f[i] = step[f[i - 1]][packets[i]]
  BY <1>2a DEF IsRun
<1>3. f = next(f)
  <2>1. ASSUME NEW i \in 0 .. n PROVE f[i] = next(f)[i]
    <3>1. CASE i = 0
      BY <1>2, <3>1
    <3>2. CASE i # 0
      <4>1. i \in 1 .. n /\ i - 1 \in 0 .. n
        BY <1>1, <3>2
      <4>2. f[i - 1] \in S /\ packets[i] \in P
        BY <1>1, <1>2, <4>1
      <4> QED  BY <1>2, <3>2, <4>1, <4>2
    <3> QED  BY <3>1, <3>2
  <2> QED  BY <1>2, <2>1
<1>4. g = next(g)
  <2> HIDE DEF next
  <2> QED  BY <1>3
<1>5. \A j \in 0 .. n : g[j] = IF j = 0 THEN r ELSE ObserveWork(g[j - 1], packets[j], expired, exited)
  <2> HIDE DEF g
  <2> QED  BY <1>4
<1>6. g[n] \in S
  <2> HIDE DEF g
  <2> DEFINE U == {j \in 0 .. n : g[j] \in S}
  <2>1. 0 \in U
    <3>1. g[0] = r
      BY <1>1, <1>5
    <3> QED  BY <1>1, <3>1
  <2>2. ASSUME NEW j \in 1 .. n, j - 1 \in U PROVE j \in U
    <3>1. g[j] = ObserveWork(g[j - 1], packets[j], expired, exited)
      BY <1>1, <1>5
    <3> QED  BY <1>1, <2>2, <3>1
  <2> HIDE DEF U
  <2>3. 0 .. n \subseteq U
    BY <1>1, <2>1, <2>2, Upwards
  <2> QED  BY <1>1, <2>3 DEF U
<1>7. ReceiverTick(r, packets, expired, exited) = AfterReceipts(g[n], exited)
  BY DEF ReceiverTick, Received, AfterReceipts
<1> HIDE DEF g
<1> QED  BY <1>6, <1>7

(* The same for the packets that one pump of the Engine takes.             *)
LEMMA DrainKeeps ==
  ASSUME NEW S, NEW P, NEW r \in S, NEW packets \in Seq(P), NEW expired, NEW e, NEW sent, r = Pump(e, sent),
         NEW ready, NEW shown, NEW written,
         \A x \in S : \A m \in P : Take(x, m, expired) \in S
  PROVE  \E after \in S : PumpAcceptedWork(e, sent, packets, expired, ready, shown, written) =
                           Settle(after, expired, ready, shown, written)
<1> DEFINE n == Len(packets)
           next(f) == [i \in 0 .. n |-> IF i = 0 THEN r ELSE Take(f[i - 1], packets[i], expired)]
           g == CHOOSE f : f = next(f)
           step == [x \in S |-> [m \in P |-> Take(x, m, expired)]]
<1>1. n \in Nat /\ \A i \in 1 .. n : packets[i] \in P
  OBVIOUS
<1>2a. PICK f : IsRun(f, n, S, r, step, packets)
  <2>1. step \in [S -> [P -> S]]
    OBVIOUS
  <2> HIDE DEF step
  <2> QED  BY <2>1, RunExists
<1>2. f \in [0 .. n -> S] /\ f[0] = r /\ \A i \in 1 .. n : f[i] = step[f[i - 1]][packets[i]]
  BY <1>2a DEF IsRun
<1>3. f = next(f)
  <2>1. ASSUME NEW i \in 0 .. n PROVE f[i] = next(f)[i]
    <3>1. CASE i = 0
      BY <1>2, <3>1
    <3>2. CASE i # 0
      <4>1. i \in 1 .. n /\ i - 1 \in 0 .. n
        BY <1>1, <3>2
      <4>2. f[i - 1] \in S /\ packets[i] \in P
        BY <1>1, <1>2, <4>1
      <4> QED  BY <1>2, <3>2, <4>1, <4>2
    <3> QED  BY <3>1, <3>2
  <2> QED  BY <1>2, <2>1
<1>4. g = next(g)
  <2> HIDE DEF next
  <2> QED  BY <1>3
<1>5. \A j \in 0 .. n : g[j] = IF j = 0 THEN r ELSE Take(g[j - 1], packets[j], expired)
  <2> HIDE DEF g
  <2> QED  BY <1>4
<1>6. g[n] \in S
  <2> HIDE DEF g
  <2> DEFINE U == {j \in 0 .. n : g[j] \in S}
  <2>1. 0 \in U
    <3>1. g[0] = r
      BY <1>1, <1>5
    <3> QED  BY <1>1, <3>1
  <2>2. ASSUME NEW j \in 1 .. n, j - 1 \in U PROVE j \in U
    <3>1. g[j] = Take(g[j - 1], packets[j], expired)
      BY <1>1, <1>5
    <3> QED  BY <1>1, <2>2, <3>1
  <2> HIDE DEF U
  <2>3. 0 .. n \subseteq U
    BY <1>1, <2>1, <2>2, Upwards
  <2> QED  BY <1>1, <2>3 DEF U
<1>7. PumpAcceptedWork(e, sent, packets, expired, ready, shown, written) =
                           Settle(g[n], expired, ready, shown, written)
  BY DEF PumpAcceptedWork, Received
<1> HIDE DEF g
<1> QED  BY <1>6, <1>7

(* What the runner may rely on while the other processes do nothing.       *)
RunnerFine(t) ==
  /\ t \in TurnType /\ engine.nonce \in Nat /\ host.last \in Nat
  /\ RunnerInv(t, engine.nonce, host.last, GrantedBy(engine), Quiet, Good)

(* A packet of the Engine. *)
ReceiptOK(m) ==
  /\ m.kind = "Acknowledged" => m.cuts.nonce \in GrantedBy(engine)
  /\ m.kind = "Cut" => m.cuts.nonce = m.nonce /\ m.nonce # 0
  /\ m.kind = "Unsupported" => m.nonce # 0

(* What a turn does to a verdict: it is never taken back, but to deny.     *)
Moves(r, s) ==
  /\ s.completed = r.completed /\ (s.generation = 0 => r.generation = 0)
  /\ HasWork(r) => HasWork(s)
  /\ r.work.canceled => s.work.canceled
  /\ r.work.refused => s.work.refused
  /\ r.work.acknowledged => s.work.acknowledged

(* A turn that changes nothing takes no verdict back.                      *)
LEMMA MovesStay ==
  ASSUME NEW r
  PROVE  Moves(r, r)
BY DEF Moves

(* Two turns in a row take no verdict back either.                         *)
LEMMA MovesOn ==
  ASSUME NEW r, NEW s, NEW u, Moves(r, s), Moves(s, u)
  PROVE  Moves(r, u)
BY DEF Moves

(* A record differs from none when its nonce does. *)
LEMMA WorkByNonce ==
  ASSUME NEW w \in RunnerWorkType
  PROVE  /\ w.nonce # 0 => w # NoRunnerWork
         /\ w.cuts # NoCuts => w # NoRunnerWork
         /\ w.refused \/ w.acknowledged \/ w.observed \/ w.resume # 0 => w # NoRunnerWork
BY DEF RunnerWorkType, NoRunnerWork

(* The counters and the fence as before, and the same challenge.           *)
SameRound(r, s) ==
  /\ s.sequence = r.sequence /\ s.completed = r.completed
  /\ s.generation = r.generation /\ s.idle = r.idle
  /\ s.work.nonce = r.work.nonce /\ (HasWork(r) \/ s.work = r.work)
  /\ HasFence(r) \/ s.fence = r.fence
  /\ s.fence.hostResumed => r.fence.hostResumed \/ r.work.nonce \in Good

(* An update that keeps the round keeps all but the receipts.              *)
LEMMA SameRoundKeeps ==
  ASSUME NEW t, RunnerFine(t), NEW s \in RunnerType, SameRound(t.r, s),
         ReceiptInv(s, GrantedBy(engine), Quiet)
  PROVE  RunnerFine(Turn(s, t.toEngine, t.toHost))
<1> DEFINE u == Turn(s, t.toEngine, t.toHost)
<1>1. u \in TurnType /\ u.r = s /\ u.toEngine = t.toEngine /\ u.toHost = t.toHost
  BY DEF RunnerFine, TurnType, Turn
<1>2. /\ CountInv(t.r) /\ ReceiptInv(t.r, GrantedBy(engine), Quiet) /\ ResumeInv(t.r, Good)
      /\ IdleInv(t.r, t.toHost) /\ BeginInv(t.r, engine.nonce, host.last) /\ SentInv(t, GrantedBy(engine))
      /\ t.r \in RunnerType
  BY DEF RunnerFine, RunnerInv, TurnType
<1>3. /\ HasWork(t.r) => t.r.work.nonce = t.r.sequence /\ t.r.sequence = t.r.completed + 1
      /\ t.r.completed \in Nat /\ t.r.work \in RunnerWorkType /\ s.work \in RunnerWorkType
  BY <1>2 DEF CountInv, RunnerType
<1>4. (HasWork(s) <=> HasWork(t.r)) /\ (HasFence(s) => HasFence(t.r))
  <2>1. CASE HasWork(t.r)
    <3>1. s.work.nonce # 0
      BY <1>3, <2>1 DEF SameRound
    <3>2. HasWork(s)
      BY <1>3, <3>1, WorkByNonce DEF HasWork
    <3> QED  BY <2>1, <3>2 DEF SameRound, HasFence
  <2>2. CASE ~HasWork(t.r)
    BY <2>2 DEF SameRound, HasWork, HasFence
  <2> QED  BY <2>1, <2>2
<1>5. CountInv(s)
  BY <1>2, <1>4 DEF CountInv, SameRound
<1>6. ResumeInv(s, Good)
  BY <1>2 DEF ResumeInv, SameRound
<1>7. IdleInv(s, t.toHost)
  BY <1>2, <1>4 DEF IdleInv, SameRound
<1>8. BeginInv(s, engine.nonce, host.last)
  BY <1>2, <1>4 DEF BeginInv, SameRound
<1>9. SentInv(u, GrantedBy(engine))
  BY <1>1, <1>2 DEF SentInv, SameRound
<1> HIDE DEF u
<1> QED  BY <1>1, <1>5, <1>6, <1>7, <1>8, <1>9 DEF RunnerFine, RunnerInv, u

(* Flags outside the challenge and the fence.                              *)
SameWork(r, s) ==
  /\ s.sequence = r.sequence /\ s.completed = r.completed
  /\ s.generation = r.generation /\ s.idle = r.idle
  /\ s.work = r.work /\ s.fence = r.fence

(* A change of the runner's flags alone keeps what it relies on.           *)
LEMMA SameWorkKeeps ==
  ASSUME NEW t, RunnerFine(t), NEW s \in RunnerType, SameWork(t.r, s)
  PROVE  RunnerFine(Turn(s, t.toEngine, t.toHost)) /\ Moves(t.r, s)
<1>1. ReceiptInv(t.r, GrantedBy(engine), Quiet)
  BY DEF RunnerFine, RunnerInv
<1>2. ReceiptInv(s, GrantedBy(engine), Quiet)
  BY <1>1 DEF ReceiptInv, SameWork
<1>3. SameRound(t.r, s)
  BY DEF SameRound, SameWork
<1>4. Moves(t.r, s)
  BY DEF Moves, SameWork, HasWork
<1> QED  BY <1>2, <1>3, <1>4, SameRoundKeeps

(* One packet more to the Engine, or an exception when it is gone.         *)
LEMMA ToEngineKeeps ==
  ASSUME NEW t, RunnerFine(t), NEW m \in ToEngine, NEW exited \in BOOLEAN,
         m.kind = "Begin" => m.nonce \in Nonces /\ m.nonce <= t.r.sequence
  PROVE  RunnerFine(SendToEngine(t, m, exited)) /\ Moves(t.r, SendToEngine(t, m, exited).r)
<1>1. /\ CountInv(t.r) /\ ReceiptInv(t.r, GrantedBy(engine), Quiet) /\ ResumeInv(t.r, Good)
      /\ IdleInv(t.r, t.toHost) /\ BeginInv(t.r, engine.nonce, host.last) /\ SentInv(t, GrantedBy(engine))
      /\ t \in TurnType /\ t.r \in RunnerType /\ t.toEngine \in Seq(ToEngine)
  BY DEF RunnerFine, RunnerInv, TurnType
<1>2. CASE exited
  <2> DEFINE s == [t.r EXCEPT !.failed = TRUE]
  <2>1. SendToEngine(t, m, exited) = Turn(s, t.toEngine, t.toHost)
    BY <1>1, <1>2 DEF SendToEngine, Turn, TurnType
  <2>2. s \in RunnerType
    BY <1>1 DEF RunnerType
  <2>2a. SameWork(t.r, s)
    BY <1>1 DEF RunnerType, SameWork
  <2>3. Turn(s, t.toEngine, t.toHost).r = s
    BY DEF Turn
  <2> HIDE DEF s
  <2> QED  BY <2>1, <2>2, <2>2a, <2>3, SameWorkKeeps
<1>3. CASE ~exited
  <2> DEFINE u == SendToEngine(t, m, exited)
  <2>0. Append(t.toEngine, m) \in Seq(ToEngine)
    BY <1>1
  <2>1. u \in TurnType /\ u.r = t.r /\ u.toHost = t.toHost /\ u.toEngine = Append(t.toEngine, m)
    BY <1>1, <1>3, <2>0 DEF SendToEngine, TurnType
  <2> HIDE DEF u
  <2>2. SentInv(u, GrantedBy(engine))
    <3>1. ASSUME NEW i \in 1 .. Len(u.toEngine), u.toEngine[i].kind = "Begin"
          PROVE  u.toEngine[i].nonce \in Nonces /\ u.toEngine[i].nonce <= t.r.sequence
      <4>1. u.toEngine[i] = m \/ (i \in 1 .. Len(t.toEngine) /\ u.toEngine[i] = t.toEngine[i])
        BY <1>1, <2>1
      <4> QED  BY <1>1, <3>1, <4>1 DEF SentInv
    <3> QED  BY <1>1, <2>1, <3>1 DEF SentInv
  <2>3. RunnerFine(u) /\ Moves(t.r, u.r)
    BY <1>1, <2>1, <2>2, MovesStay DEF RunnerFine, RunnerInv
  <2> QED  BY <2>3 DEF u
<1> QED  BY <1>2, <1>3

(* What the runner may tell the host. *)
TellOK(r, m) ==
  /\ m.kind \in {"BEGIN", "BEGIN callback"} => m.nonce \in Nonces /\ m.nonce <= r.sequence
  /\ m.kind = "BEGIN callback" => r.generation # 0
  /\ m.kind = "ACK" => m.cuts.nonce \in GrantedBy(engine)
  /\ m.kind = "EXPECT" => m.cuts.nonce # 0

(* A packet to the host, which tells it only what is so.                   *)
LEMMA ToHostKeeps ==
  ASSUME NEW t, RunnerFine(t), NEW m \in ToHost, TellOK(t.r, m)
  PROVE  RunnerFine(SendToHost(t, m)) /\ SendToHost(t, m).r = t.r
<1>1. /\ CountInv(t.r) /\ ReceiptInv(t.r, GrantedBy(engine), Quiet) /\ ResumeInv(t.r, Good)
      /\ IdleInv(t.r, t.toHost) /\ BeginInv(t.r, engine.nonce, host.last) /\ SentInv(t, GrantedBy(engine))
      /\ t \in TurnType /\ t.toHost \in Seq(ToHost)
  BY DEF RunnerFine, RunnerInv, TurnType
<1> DEFINE u == SendToHost(t, m)
<1>1a. Append(t.toHost, m) \in Seq(ToHost)
  BY <1>1
<1>2. u \in TurnType /\ u.r = t.r /\ u.toEngine = t.toEngine /\ u.toHost = Append(t.toHost, m)
  BY <1>1, <1>1a DEF SendToHost, TurnType
<1> HIDE DEF u
<1>3. \A i \in 1 .. Len(u.toHost) :
        u.toHost[i] = m \/ (i \in 1 .. Len(t.toHost) /\ u.toHost[i] = t.toHost[i])
  BY <1>1, <1>2
<1>4. IdleInv(t.r, u.toHost)
  BY <1>1, <1>3 DEF IdleInv, TellOK
<1>5. SentInv(u, GrantedBy(engine))
  BY <1>1, <1>2, <1>3 DEF SentInv, TellOK
<1>6. RunnerFine(u) /\ u.r = t.r
  BY <1>1, <1>2, <1>4, <1>5 DEF RunnerFine, RunnerInv
<1> QED  BY <1>6 DEF u

(* A receipt is recorded in the challenge at hand.                         *)
Records(w, x) ==
  /\ x.nonce = w.nonce
  /\ (w.canceled => x.canceled) /\ (w.refused => x.refused) /\ (w.acknowledged => x.acknowledged)
  /\ x.cuts # NoCuts => x.cuts.nonce = x.nonce
  /\ x.observed => x.cuts # NoCuts /\ x.nonce \in Quiet
  /\ x.acknowledged => x.observed /\ x.nonce \in GrantedBy(engine)

(* What a receipt records of the challenge at hand.                        *)
LEMMA WorkKeeps ==
  ASSUME NEW t, RunnerFine(t), HasWork(t.r), NEW w \in RunnerWorkType, Records(t.r.work, w),
         NEW s, s = [t.r EXCEPT !.work = w]
  PROVE  s \in RunnerType /\ RunnerFine(Turn(s, t.toEngine, t.toHost)) /\ Moves(t.r, s)
<1>1. CountInv(t.r) /\ t.r \in RunnerType
  BY DEF RunnerFine, RunnerInv, TurnType
<1>2. s \in RunnerType /\ s.work = w
  BY <1>1 DEF RunnerType
<1>3. /\ s.sequence = t.r.sequence /\ s.completed = t.r.completed /\ s.generation = t.r.generation
      /\ s.idle = t.r.idle /\ s.fence = t.r.fence
  BY <1>1 DEF RunnerType
<1>4. SameRound(t.r, s)
  BY <1>2, <1>3 DEF SameRound, Records
<1>5. ReceiptInv(s, GrantedBy(engine), Quiet)
  BY <1>2 DEF ReceiptInv, Records
<1>6. t.r.work.nonce # 0
  BY <1>1 DEF CountInv, RunnerType
<1>7. HasWork(s)
  BY <1>2, <1>6, WorkByNonce DEF HasWork, Records
<1>8. Moves(t.r, s)
  BY <1>2, <1>3, <1>7 DEF Moves, Records
<1> QED  BY <1>2, <1>4, <1>5, <1>8, SameRoundKeeps

(* A receipt of the Engine.                                                *)
LEMMA ObserveKeeps ==
  ASSUME NEW t, RunnerFine(t), NEW m \in ToRunner, ReceiptOK(m), NEW expired \in BOOLEAN, NEW exited \in BOOLEAN,
         NEW s, s = ObserveWork(t.r, m, expired, exited)
  PROVE  s \in RunnerType /\ RunnerFine(Turn(s, t.toEngine, t.toHost)) /\ Moves(t.r, s)
<1>1. /\ CountInv(t.r) /\ ReceiptInv(t.r, GrantedBy(engine), Quiet)
      /\ t.r \in RunnerType /\ t.r.work \in RunnerWorkType /\ t.r.work.cuts \in Cuts
  BY DEF RunnerFine, RunnerInv, TurnType, RunnerType, RunnerWorkType
<1>2. CASE t.r.failed
  BY <1>1, <1>2, MovesStay, SameWorkKeeps DEF ObserveWork, SameWork
<1>3. CASE ~t.r.failed /\ ~Expects(t.r, m)
  <2>1. s = [t.r EXCEPT !.failed = TRUE]
    BY <1>3 DEF ObserveWork
  <2>2. s \in RunnerType /\ SameWork(t.r, s)
    BY <1>1, <2>1 DEF RunnerType, SameWork
  <2> QED  BY <2>2, SameWorkKeeps
<1> DEFINE goes == ~t.r.failed /\ Expects(t.r, m)
<1>4. CASE goes /\ m.kind = "Capability"
  <2>1. s = [t.r EXCEPT !.capability = TRUE]
    BY <1>4 DEF ObserveWork
  <2>2. s \in RunnerType /\ SameWork(t.r, s)
    BY <1>1, <2>1 DEF RunnerType, SameWork
  <2> QED  BY <2>2, SameWorkKeeps
<1>5. CASE goes /\ m.kind = "Resumed"
  <2>1. s = [t.r EXCEPT !.work.resumed = TRUE] /\ t.r.work.acknowledged
    BY <1>5 DEF ObserveWork, Expects
  <2> DEFINE w == [t.r.work EXCEPT !.resumed = TRUE]
  <2>2. w \in RunnerWorkType /\ s = [t.r EXCEPT !.work = w]
    BY <1>1, <2>1 DEF RunnerWorkType, RunnerType
  <2>3. HasWork(t.r)
    BY <1>1, <2>1, WorkByNonce DEF HasWork
  <2>4. Records(t.r.work, w)
    BY <1>1, <2>1 DEF Records, ReceiptInv, RunnerWorkType
  <2> HIDE DEF w
  <2> QED  BY <2>2, <2>3, <2>4, WorkKeeps
<1>6. CASE goes /\ m.kind = "Unsupported"
  <2>1. s = [t.r EXCEPT !.work.refused = TRUE] /\ t.r.work.nonce = m.nonce /\ m.nonce # 0
    BY <1>6 DEF ObserveWork, Expects, ReceiptOK
  <2> DEFINE w == [t.r.work EXCEPT !.refused = TRUE]
  <2>2. w \in RunnerWorkType /\ s = [t.r EXCEPT !.work = w]
    BY <1>1, <2>1 DEF RunnerWorkType, RunnerType
  <2>3. HasWork(t.r)
    BY <1>1, <2>1, WorkByNonce DEF HasWork
  <2>4. Records(t.r.work, w)
    BY <1>1, <2>1 DEF Records, ReceiptInv, RunnerWorkType
  <2> HIDE DEF w
  <2> QED  BY <2>2, <2>3, <2>4, WorkKeeps
<1>7. CASE goes /\ m.kind = "Cut"
  <2>1. s = [t.r EXCEPT !.work.cuts = m.cuts] /\ t.r.work.nonce = m.nonce /\ m.nonce # 0 /\ m.cuts.nonce = m.nonce /\ t.r.work.cuts = NoCuts
    BY <1>7 DEF ObserveWork, Expects, ReceiptOK
  <2> DEFINE w == [t.r.work EXCEPT !.cuts = m.cuts]
  <2>1a. m.cuts \in Cuts
    BY DEF ToRunner, PacketOf
  <2>2. w \in RunnerWorkType /\ s = [t.r EXCEPT !.work = w]
    BY <1>1, <2>1, <2>1a DEF RunnerWorkType, RunnerType
  <2>3. HasWork(t.r)
    BY <1>1, <2>1, WorkByNonce DEF HasWork
  <2>4. Records(t.r.work, w)
    BY <1>1, <2>1 DEF Records, ReceiptInv, RunnerWorkType
  <2> HIDE DEF w
  <2> QED  BY <2>2, <2>3, <2>4, WorkKeeps
<1>8. CASE goes /\ m.kind = "Acknowledged"
  <2>1. s = Acknowledged(t.r, expired, exited) /\ m.cuts = t.r.work.cuts /\ t.r.work.observed /\ m.cuts.nonce \in GrantedBy(engine)
    BY <1>8 DEF ObserveWork, Expects, ReceiptOK
  <2>1a. HasWork(t.r)
    BY <1>1, <2>1, WorkByNonce DEF HasWork
  <2>1b. t.r.work.nonce \in GrantedBy(engine)
    BY <1>1, <2>1 DEF ReceiptInv
  <2>5. CASE s = [t.r EXCEPT !.work.late = TRUE]
    <3> DEFINE w == [t.r.work EXCEPT !.late = TRUE]
    <3>1. w \in RunnerWorkType /\ s = [t.r EXCEPT !.work = w]
      BY <1>1, <2>5 DEF RunnerWorkType, RunnerType
    <3>2. Records(t.r.work, w)
      BY <1>1 DEF Records, ReceiptInv, RunnerWorkType
    <3> HIDE DEF w
    <3> QED  BY <2>1a, <3>1, <3>2, WorkKeeps
  <2>6. CASE s = [t.r EXCEPT !.work.acknowledged = TRUE]
    <3> DEFINE w == [t.r.work EXCEPT !.acknowledged = TRUE]
    <3>1. w \in RunnerWorkType /\ s = [t.r EXCEPT !.work = w]
      BY <1>1, <2>6 DEF RunnerWorkType, RunnerType
    <3>2. Records(t.r.work, w)
      BY <1>1, <2>1, <2>1b DEF Records, ReceiptInv, RunnerWorkType
    <3> HIDE DEF w
    <3> QED  BY <2>1a, <3>1, <3>2, WorkKeeps
  <2> QED  BY <2>1, <2>5, <2>6 DEF Acknowledged
<1>9. m.kind \in {"Capability", "Cut", "Acknowledged", "Unsupported", "Resumed"}
  BY DEF ToRunner, PacketOf
<1> QED  BY <1>2, <1>3, <1>4, <1>5, <1>6, <1>7, <1>8, <1>9

Receipts == {m \in ToRunner : ReceiptOK(m)}

(* All the receipts of a tick.                                             *)
LEMMA ReceiverKeeps ==
  ASSUME NEW t, RunnerFine(t), NEW packets \in Seq(Receipts), NEW expired \in BOOLEAN, NEW exited \in BOOLEAN,
         NEW s, s = ReceiverTick(t.r, packets, expired, exited)
  PROVE  s \in RunnerType /\ RunnerFine(Turn(s, t.toEngine, t.toHost)) /\ Moves(t.r, s)
<1> DEFINE S == {x \in RunnerType : RunnerFine(Turn(x, t.toEngine, t.toHost)) /\ Moves(t.r, x)}
<1>1. t.r \in S
  <2>1. t.r \in RunnerType
    BY DEF RunnerFine, TurnType
  <2>2. SameWork(t.r, t.r)
    BY DEF SameWork
  <2> QED  BY <2>1, <2>2, SameWorkKeeps
<1>2. ASSUME NEW x \in S, NEW m \in Receipts PROVE ObserveWork(x, m, expired, exited) \in S
  <2> DEFINE u == Turn(x, t.toEngine, t.toHost)
             y == ObserveWork(x, m, expired, exited)
  <2>1. RunnerFine(u) /\ u.r = x /\ u.toEngine = t.toEngine /\ u.toHost = t.toHost /\ Moves(t.r, x)
    BY <1>2 DEF Turn
  <2>2. m \in ToRunner /\ ReceiptOK(m)
    BY DEF Receipts
  <2> HIDE DEF u
  <2>3. y = ObserveWork(u.r, m, expired, exited)
    BY <2>1
  <2> HIDE DEF y
  <2>4. y \in RunnerType /\ RunnerFine(Turn(y, u.toEngine, u.toHost)) /\ Moves(u.r, y)
    BY ONLY <2>1, <2>2, <2>3, expired \in BOOLEAN, exited \in BOOLEAN, ObserveKeeps
  <2>5. y \in S
    BY <2>1, <2>4, MovesOn
  <2> QED  BY <2>5 DEF y
<1> HIDE DEF S
<1>3. PICK after \in S : s = AfterReceipts(after, exited)
  <2>1. \A x \in S : \A m \in Receipts : ObserveWork(x, m, expired, exited) \in S
    BY <1>2
  <2>2. \E after \in S : ReceiverTick(t.r, packets, expired, exited) = AfterReceipts(after, exited)
    BY ONLY <1>1, <2>1, packets \in Seq(Receipts), ReceiptsKeep
  <2> QED  BY <2>2
<1>4. after \in RunnerType /\ RunnerFine(Turn(after, t.toEngine, t.toHost)) /\ Moves(t.r, after)
  BY <1>3 DEF S
<1>5. s \in RunnerType /\ SameWork(after, s)
  BY <1>3, <1>4 DEF RunnerType, SameWork, AfterReceipts
<1> DEFINE u == Turn(after, t.toEngine, t.toHost)
<1>6. RunnerFine(u) /\ u.r = after /\ u.toEngine = t.toEngine /\ u.toHost = t.toHost
  BY <1>4 DEF Turn
<1> HIDE DEF u
<1>7. RunnerFine(Turn(s, u.toEngine, u.toHost)) /\ Moves(u.r, s)
  BY ONLY <1>5, <1>6, SameWorkKeeps
<1> QED  BY <1>4, <1>5, <1>6, <1>7, MovesOn

-----------------------------------------------------------------------------
(* The rest of a tick, one operator at a time.                             *)

(* CancelAcceptedWork: the challenge is cancelled and stays the one at     *)
(* hand.                                                                   *)
LEMMA CancelWorkKeeps ==
  ASSUME NEW t, RunnerFine(t), NEW s, s = CancelAcceptedWork(t.r)
  PROVE  s \in RunnerType /\ RunnerFine(Turn(s, t.toEngine, t.toHost)) /\ Moves(t.r, s)
<1>1. ReceiptInv(t.r, GrantedBy(engine), Quiet) /\ t.r \in RunnerType /\ t.r.work \in RunnerWorkType
  BY DEF RunnerFine, RunnerInv, TurnType, RunnerType
<1>2. CASE HasWork(t.r)
  <2> DEFINE w == [t.r.work EXCEPT !.canceled = TRUE]
  <2>1. w \in RunnerWorkType /\ s = [t.r EXCEPT !.work = w]
    BY <1>1, <1>2 DEF RunnerWorkType, RunnerType, CancelAcceptedWork
  <2>2. Records(t.r.work, w)
    BY <1>1 DEF Records, ReceiptInv, RunnerWorkType
  <2> HIDE DEF w
  <2> QED  BY <1>2, <2>1, <2>2, WorkKeeps
<1>3. CASE ~HasWork(t.r)
  BY <1>1, <1>3, SameWorkKeeps DEF CancelAcceptedWork, SameWork
<1> QED  BY <1>2, <1>3

(* An update of the fence that is held.                                    *)
LEMMA FenceKeeps ==
  ASSUME NEW t, RunnerFine(t), NEW f \in FenceType, HasFence(t.r) \/ f = t.r.fence,
         f.hostResumed => t.r.fence.hostResumed \/ t.r.work.nonce \in Good,
         NEW s, s = [t.r EXCEPT !.fence = f]
  PROVE  s \in RunnerType /\ RunnerFine(Turn(s, t.toEngine, t.toHost)) /\ Moves(t.r, s)
<1>1. ReceiptInv(t.r, GrantedBy(engine), Quiet) /\ t.r \in RunnerType
  BY DEF RunnerFine, RunnerInv, TurnType
<1>2. s \in RunnerType /\ s.fence = f
  BY <1>1 DEF RunnerType
<1>3. /\ s.sequence = t.r.sequence /\ s.completed = t.r.completed /\ s.generation = t.r.generation
      /\ s.idle = t.r.idle /\ s.work = t.r.work
  BY <1>1 DEF RunnerType
<1>4. ReceiptInv(s, GrantedBy(engine), Quiet)
  BY <1>1, <1>3 DEF ReceiptInv
<1>5. SameRound(t.r, s)
  BY <1>2, <1>3 DEF SameRound
<1>6. Moves(t.r, s)
  BY <1>3 DEF Moves, HasWork
<1> QED  BY <1>2, <1>4, <1>5, <1>6, SameRoundKeeps

(* A step of a turn.                                                       *)
Turns(t, u) == RunnerFine(u) /\ Moves(t.r, u.r)

(* Turns compose.                                                          *)
LEMMA TurnsOn ==
  ASSUME NEW t, NEW u, NEW v, Turns(t, u), Turns(u, v)
  PROVE  Turns(t, v)
BY MovesOn DEF Turns

(* Doing nothing is a turn.                                                *)
LEMMA TurnsStay ==
  ASSUME NEW t, RunnerFine(t)
  PROVE  Turns(t, t)
BY MovesStay DEF Turns

(* The runner's record is replaced.                                        *)
LEMMA ReplaceTurns ==
  ASSUME NEW t, RunnerFine(t), NEW s, RunnerFine(Turn(s, t.toEngine, t.toHost)), Moves(t.r, s)
  PROVE  Turns(t, [t EXCEPT !.r = s])
<1>1. [t EXCEPT !.r = s] = Turn(s, t.toEngine, t.toHost) /\ Turn(s, t.toEngine, t.toHost).r = s
  BY DEF RunnerFine, TurnType, Turn
<1> QED  BY <1>1 DEF Turns

(* A change of flags is a turn.                                            *)
LEMMA FlagTurns ==
  ASSUME NEW t, RunnerFine(t), NEW s \in RunnerType, SameWork(t.r, s)
  PROVE  Turns(t, [t EXCEPT !.r = s])
BY SameWorkKeeps, ReplaceTurns

(* SendToEngine while the Engine lives: the packet is appended.            *)
LEMMA SendIsPlain ==
  ASSUME NEW t, RunnerFine(t), NEW m, NEW exited \in BOOLEAN
  PROVE  SameWork(t.r, SendToEngine(t, m, exited).r)
BY DEF RunnerFine, TurnType, RunnerType, SendToEngine, SameWork

(* CancelIfOver: the fence is cancelled past its deadline or without an    *)
(* owner.                                                                  *)
LEMMA CancelIfOverTurns ==
  ASSUME NEW t, RunnerFine(t), NEW expired \in BOOLEAN, NEW keeps \in BOOLEAN
  PROVE  Turns(t, CancelIfOver(t, expired, keeps))
<1>1. t.r \in RunnerType /\ t.r.fence \in FenceType
  BY DEF RunnerFine, TurnType, RunnerType
<1>2. CASE HasFence(t.r) /\ (expired \/ ~keeps)
  <2> DEFINE f == [t.r.fence EXCEPT !.canceled = TRUE]
             s == [t.r EXCEPT !.fence = f]
  <2>1. f \in FenceType /\ (f.hostResumed => t.r.fence.hostResumed)
    BY <1>1 DEF FenceType
  <2>2. CancelIfOver(t, expired, keeps) = [t EXCEPT !.r = s]
    BY <1>1, <1>2 DEF CancelIfOver, RunnerFine, TurnType, RunnerType
  <2> HIDE DEF f
  <2>3. RunnerFine(Turn(s, t.toEngine, t.toHost)) /\ Moves(t.r, s)
    BY <1>2, <2>1, FenceKeeps
  <2> HIDE DEF s
  <2> QED  BY <2>2, <2>3, ReplaceTurns
<1>3. CASE ~(HasFence(t.r) /\ (expired \/ ~keeps))
  BY <1>3, TurnsStay DEF CancelIfOver
<1> QED  BY <1>2, <1>3

(* InstallAcceptedWork sends its packet once.                              *)
LEMMA InstallTurns ==
  ASSUME NEW t, RunnerFine(t), NEW exited \in BOOLEAN
  PROVE  Turns(t, InstallAcceptedWork(t, exited))
<1> DEFINE s == [t.r EXCEPT !.install = TRUE]
           u == [t EXCEPT !.r = s]
           m == Packet("Install", 0, 0, NoCuts)
<1>1. t.r \in RunnerType /\ t \in TurnType
  BY DEF RunnerFine, TurnType
<1>2. s \in RunnerType /\ SameWork(t.r, s)
  BY <1>1 DEF RunnerType, SameWork
<1>3. InstallAcceptedWork(t, exited) = t \/ InstallAcceptedWork(t, exited) = SendToEngine(u, m, exited)
  BY <1>1 DEF InstallAcceptedWork, TurnType
<1>4. m \in ToEngine /\ m.kind # "Begin"
  BY DEF Packet, ToEngine, PacketOf, NoCuts, Cuts
<1> HIDE DEF s, m
<1>5. Turns(t, u)
  BY <1>2, FlagTurns
<1> HIDE DEF u
<1>6. Turns(u, SendToEngine(u, m, exited))
  BY <1>4, <1>5, ToEngineKeeps DEF Turns
<1> QED  BY <1>3, <1>5, <1>6, TurnsOn, TurnsStay

(* What the invariant of a turn gives.                                     *)
LEMMA FineGives ==
  ASSUME NEW t, RunnerFine(t)
  PROVE  /\ t \in TurnType /\ t.r \in RunnerType /\ t.r.work \in RunnerWorkType /\ t.r.fence \in FenceType
         /\ CountInv(t.r) /\ ReceiptInv(t.r, GrantedBy(engine), Quiet) /\ ResumeInv(t.r, Good)
         /\ IdleInv(t.r, t.toHost) /\ BeginInv(t.r, engine.nonce, host.last) /\ SentInv(t, GrantedBy(engine))
BY DEF RunnerFine, RunnerInv, TurnType, RunnerType

(* The nonces are numbers other than 0, and there is one for the next      *)
(* fence.                                                                  *)
LEMMA NoncesAre ==
  /\ 0 \notin Nonces /\ 0 \notin Good /\ \A n \in Nonces : n \in Nat
  /\ \A n \in Nat : n <= MaxFences => n + 1 \in Nonces
BY WorkFenceAssumption, RunnerWorkAssumption, HostWorkAssumption DEF Good, GrantedBy

(* IssueChallenge: BeginAcceptedWork takes the next nonce and tells the    *)
(* Engine and the host.                                                    *)
LEMMA IssueTurns ==
  ASSUME NEW t, RunnerFine(t), NEW expired \in BOOLEAN, NEW exited \in BOOLEAN
  PROVE  Turns(t, IssueChallenge(t, expired, exited))
<1> DEFINE g == IF HasFence(t.r) THEN t.r.fence.generation ELSE 1
           n == t.r.sequence + 1
           w == [NoRunnerWork EXCEPT !.nonce = n, !.generation = g]
           s == [t.r EXCEPT !.sequence = n, !.work = w]
           u == [t EXCEPT !.r = s]
           b == Packet("Begin", n, g, NoCuts)
           m == Packet(IF HasFence(t.r) THEN "BEGIN callback" ELSE "BEGIN", n, g, NoCuts)
<1>1. /\ t \in TurnType /\ t.r \in RunnerType /\ t.r.work \in RunnerWorkType /\ t.r.fence \in FenceType
      /\ CountInv(t.r) /\ ReceiptInv(t.r, GrantedBy(engine), Quiet) /\ ResumeInv(t.r, Good)
      /\ IdleInv(t.r, t.toHost) /\ BeginInv(t.r, engine.nonce, host.last) /\ SentInv(t, GrantedBy(engine))
  BY FineGives
<1>2. CASE expired \/ t.r.fence.canceled
  <2> DEFINE c == CancelAcceptedWork(t.r)
  <2>1. IssueChallenge(t, expired, exited) = [t EXCEPT !.r = c]
    BY <1>2 DEF IssueChallenge
  <2>2. RunnerFine(Turn(c, t.toEngine, t.toHost)) /\ Moves(t.r, c)
    BY CancelWorkKeeps
  <2> HIDE DEF c
  <2> QED  BY <2>1, <2>2, ReplaceTurns
<1>3. CASE ~(expired \/ t.r.fence.canceled) /\ ~(t.r.capability /\ ~HasWork(t.r))
  BY <1>3, TurnsStay DEF IssueChallenge
<1>4. CASE ~(expired \/ t.r.fence.canceled) /\ t.r.capability /\ ~HasWork(t.r)
  <2>1. IssueChallenge(t, expired, exited) = SendToHost(SendToEngine(u, b, exited), m)
    BY <1>1, <1>4 DEF IssueChallenge, TurnType, RunnerType
  <2>2. /\ t.r.sequence = t.r.completed /\ t.r.completed \in Nat /\ t.r.sequence \in Nat
        /\ n \in Nat /\ n # 0 /\ g \in Nat /\ n \in Nonces
    BY <1>1, <1>4, NoncesAre DEF CountInv, RunnerType, FenceType
  <2> HIDE DEF n, g
  <2>3. /\ w \in RunnerWorkType /\ w.nonce = n /\ w.cuts = NoCuts /\ ~w.observed /\ ~w.acknowledged
        /\ ~w.canceled /\ ~w.refused
    BY <2>2 DEF RunnerWorkType, NoRunnerWork, Cuts, NoCuts
  <2>4. w # NoRunnerWork
    BY <2>2, <2>3, WorkByNonce
  <2> HIDE DEF w
  <2>5. s \in RunnerType /\ u \in TurnType /\ u.r = s /\ u.toEngine = t.toEngine /\ u.toHost = t.toHost
    BY <1>1, <2>2, <2>3 DEF RunnerType, TurnType
  <2>6. /\ s.work = w /\ s.sequence = n /\ s.completed = t.r.completed /\ s.generation = t.r.generation
        /\ s.idle = t.r.idle /\ s.fence = t.r.fence
    BY <1>1 DEF RunnerType
  <2> HIDE DEF s, u
  <2>7. HasWork(s) /\ (HasFence(s) <=> HasFence(t.r))
    BY <2>4, <2>6 DEF HasWork, HasFence
  <2>8. CountInv(s)
    BY <1>1, <2>2, <2>3, <2>6, <2>7 DEF CountInv, n
  <2>9. ReceiptInv(s, GrantedBy(engine), Quiet)
    BY <2>3, <2>6 DEF ReceiptInv
  <2>10. ResumeInv(s, Good)
    <3>1. t.r.work.nonce = 0
      BY <1>4 DEF HasWork, NoRunnerWork
    <3> QED  BY <1>1, <2>6, <3>1, NoncesAre DEF ResumeInv
  <2>11. IdleInv(s, u.toHost)
    BY <1>1, <2>5, <2>6, <2>7 DEF IdleInv
  <2>12. BeginInv(s, engine.nonce, host.last)
    <3>1. t.r.sequence <= engine.nonce /\ t.r.sequence <= host.last /\ engine.nonce <= t.r.sequence /\ host.last <= t.r.sequence
      BY <1>1, <1>4 DEF BeginInv
    <3>2. engine.nonce \in Nat /\ host.last \in Nat
      BY DEF RunnerFine
    <3> QED  BY <2>2, <2>6, <2>7, <3>1, <3>2 DEF BeginInv, n
  <2>13. SentInv(u, GrantedBy(engine))
    <3>1. \A k \in Nonces : k <= t.r.sequence => k <= n
      BY <2>2, NoncesAre DEF n
    <3> QED  BY <1>1, <2>5, <2>6, <3>1 DEF SentInv
  <2>14. RunnerFine(u)
    BY <2>5, <2>8, <2>9, <2>10, <2>11, <2>12, <2>13 DEF RunnerFine, RunnerInv
  <2>15. Moves(t.r, s)
    BY <1>4, <2>6 DEF Moves, HasWork, NoRunnerWork
  <2>16. b \in ToEngine /\ b.kind = "Begin" /\ b.nonce = n
    BY <2>2 DEF Packet, ToEngine, PacketOf, NoCuts, Cuts
  <2>17. m \in ToHost /\ m.nonce = n /\ m.kind = IF HasFence(t.r) THEN "BEGIN callback" ELSE "BEGIN"
    BY <2>2 DEF Packet, ToHost, PacketOf, NoCuts, Cuts
  <2> HIDE DEF b, m
  <2> DEFINE v == SendToEngine(u, b, exited)
  <2>18. n <= u.r.sequence
    BY <2>2, <2>5, <2>6
  <2>19. RunnerFine(v) /\ Moves(u.r, v.r) /\ SameWork(u.r, v.r)
    BY <2>2, <2>14, <2>16, <2>18, ToEngineKeeps, SendIsPlain
  <2> HIDE DEF v
  <2>20. TellOK(v.r, m)
    <3>1. v.r.sequence = n /\ v.r.generation = t.r.generation
      BY <2>5, <2>6, <2>19 DEF SameWork
    <3>2. HasFence(t.r) => t.r.generation # 0
      BY <1>1 DEF IdleInv
    <3>3. n <= v.r.sequence
      BY <2>2, <3>1
    <3> QED  BY <2>2, <2>17, <3>1, <3>2, <3>3 DEF TellOK
  <2>21. RunnerFine(SendToHost(v, m)) /\ SendToHost(v, m).r = v.r
    BY <2>17, <2>19, <2>20, ToHostKeeps
  <2>22. Turns(t, SendToHost(v, m))
    BY <2>5, <2>15, <2>19, <2>21, MovesOn DEF Turns
  <2> QED  BY <2>1, <2>22 DEF v
<1> QED  BY <1>2, <1>3, <1>4

(* A receipt is passed on to the host and its flag set.                    *)
LEMMA TellTurns ==
  ASSUME NEW t, RunnerFine(t), NEW s \in RunnerType, SameWork(t.r, s), NEW m \in ToHost, TellOK(t.r, m)
  PROVE  /\ Turns(t, SendToHost([t EXCEPT !.r = s], m))
         /\ SendToHost([t EXCEPT !.r = s], m).r = s
<1> DEFINE u == [t EXCEPT !.r = s]
<1>1. Turns(t, u)
  BY FlagTurns
<1>2. u.r = s
  BY DEF RunnerFine, TurnType
<1> HIDE DEF u
<1>3. TellOK(u.r, m)
  BY <1>2 DEF TellOK, SameWork
<1>4. RunnerFine(SendToHost(u, m)) /\ SendToHost(u, m).r = u.r
  BY <1>1, <1>3, ToHostKeeps DEF Turns
<1>5. Turns(t, SendToHost(u, m))
  BY <1>1, <1>4 DEF Turns
<1> QED  BY <1>2, <1>4, <1>5 DEF u

(* The parts of Forward.                                                   *)
Expecting(t) ==
  IF t.r.work.cuts # NoCuts /\ ~t.r.expectSent
  THEN SendToHost([t EXCEPT !.r.expectSent = TRUE], Packet("EXPECT", t.r.work.nonce, 0, t.r.work.cuts))
  ELSE t
Acking(t, u) ==
  IF t.r.work.acknowledged /\ ~t.r.ackSent /\ ~t.r.work.canceled
  THEN SendToHost([u EXCEPT !.r.ackSent = TRUE], Packet("ACK", t.r.work.nonce, 0, t.r.work.cuts))
  ELSE u
Refusing(t, u) ==
  IF t.r.work.refused /\ ~t.r.refusalSent
  THEN SendToHost([u EXCEPT !.r.refusalSent = TRUE], Packet("REFUSE", t.r.work.nonce, 0, NoCuts))
  ELSE u

(* Forward: every receipt goes to the host once.                           *)
LEMMA ForwardTurns ==
  ASSUME NEW t, RunnerFine(t)
  PROVE  Turns(t, Forward(t))
<1> DEFINE w == t.r.work
           a == Expecting(t)
           b == Acking(t, a)
           c == Refusing(t, b)
<1>1. Forward(t) = c
  BY DEF Forward, Expecting, Acking, Refusing
<1>2. /\ t \in TurnType /\ t.r \in RunnerType /\ w \in RunnerWorkType
      /\ CountInv(t.r) /\ ReceiptInv(t.r, GrantedBy(engine), Quiet)
  BY FineGives
<1>3. w.nonce \in Nat /\ w.cuts \in Cuts /\ NoCuts \in Cuts
  BY <1>2 DEF RunnerWorkType, NoCuts, Cuts
<1>4. Turns(t, a) /\ SameWork(t.r, a.r)
  <2>1. CASE w.cuts # NoCuts /\ ~t.r.expectSent
    <3> DEFINE m == Packet("EXPECT", w.nonce, 0, w.cuts)
               s == [t.r EXCEPT !.expectSent = TRUE]
    <3>1. m \in ToHost /\ m.kind = "EXPECT" /\ m.cuts = w.cuts
      BY <1>3 DEF Packet, ToHost, PacketOf
    <3>2. s \in RunnerType /\ SameWork(t.r, s)
      BY <1>2 DEF RunnerType, SameWork
    <3>3. a = SendToHost([t EXCEPT !.r = s], m)
      BY <1>2, <2>1 DEF Expecting, TurnType
    <3>4. HasWork(t.r)
      BY <1>2, <2>1, WorkByNonce DEF HasWork
    <3>5. w.cuts.nonce # 0
      BY <1>2, <2>1, <3>4 DEF ReceiptInv, CountInv, RunnerType
    <3> HIDE DEF m, s, a
    <3>6. TellOK(t.r, m)
      BY <3>1, <3>5 DEF TellOK
    <3> QED  BY <3>1, <3>2, <3>3, <3>6, TellTurns
  <2>2. CASE ~(w.cuts # NoCuts /\ ~t.r.expectSent)
    BY <2>2, TurnsStay DEF Expecting, SameWork
  <2> QED  BY <2>1, <2>2
<1> HIDE DEF a
<1>5. a \in TurnType /\ a.r \in RunnerType /\ RunnerFine(a) /\ a.r.work = w
  BY <1>4, FineGives DEF Turns, SameWork
<1>6. Turns(a, b) /\ SameWork(a.r, b.r)
  <2>1. CASE w.acknowledged /\ ~t.r.ackSent /\ ~w.canceled
    <3> DEFINE m == Packet("ACK", w.nonce, 0, w.cuts)
               s == [a.r EXCEPT !.ackSent = TRUE]
    <3>1. m \in ToHost /\ m.kind = "ACK" /\ m.cuts = w.cuts
      BY <1>3 DEF Packet, ToHost, PacketOf
    <3>2. s \in RunnerType /\ SameWork(a.r, s)
      BY <1>5 DEF RunnerType, SameWork
    <3>3. b = SendToHost([a EXCEPT !.r = s], m)
      BY <1>5, <2>1 DEF Acking, TurnType
    <3>4. w.cuts.nonce \in GrantedBy(engine)
      BY <1>2, <2>1 DEF ReceiptInv
    <3> HIDE DEF m, s, b
    <3>5. TellOK(a.r, m)
      BY <3>1, <3>4 DEF TellOK
    <3> QED  BY <1>5, <3>1, <3>2, <3>3, <3>5, TellTurns
  <2>2. CASE ~(w.acknowledged /\ ~t.r.ackSent /\ ~w.canceled)
    BY <1>5, <2>2, TurnsStay DEF Acking, SameWork
  <2> QED  BY <2>1, <2>2
<1> HIDE DEF b
<1>7. b \in TurnType /\ b.r \in RunnerType /\ RunnerFine(b)
  BY <1>6, FineGives DEF Turns
<1>8. Turns(b, c)
  <2>1. CASE w.refused /\ ~t.r.refusalSent
    <3> DEFINE m == Packet("REFUSE", w.nonce, 0, NoCuts)
               s == [b.r EXCEPT !.refusalSent = TRUE]
    <3>1. m \in ToHost /\ m.kind = "REFUSE"
      BY <1>3 DEF Packet, ToHost, PacketOf
    <3>2. s \in RunnerType /\ SameWork(b.r, s)
      BY <1>7 DEF RunnerType, SameWork
    <3>3. c = SendToHost([b EXCEPT !.r = s], m)
      BY <1>7, <2>1 DEF Refusing, TurnType
    <3> HIDE DEF m, s, c
    <3>4. TellOK(b.r, m)
      BY <3>1 DEF TellOK
    <3> QED  BY <1>7, <3>1, <3>2, <3>3, <3>4, TellTurns
  <2>2. CASE ~(w.refused /\ ~t.r.refusalSent)
    BY <1>7, <2>2, TurnsStay DEF Refusing
  <2> QED  BY <2>1, <2>2
<1> HIDE DEF c
<1> QED  BY <1>1, <1>4, <1>6, <1>8, TurnsOn

(* The same, for an update of the fence and for one of the challenge.      *)
LEMMA FenceTurns ==
  ASSUME NEW t, RunnerFine(t), NEW f \in FenceType, HasFence(t.r),
         f.hostResumed => t.r.fence.hostResumed \/ t.r.work.nonce \in Good
  PROVE  Turns(t, [t EXCEPT !.r = [t.r EXCEPT !.fence = f]])
<1> DEFINE s == [t.r EXCEPT !.fence = f]
<1>1. RunnerFine(Turn(s, t.toEngine, t.toHost)) /\ Moves(t.r, s)
  BY FenceKeeps
<1> HIDE DEF s
<1>2. Turns(t, [t EXCEPT !.r = s])
  BY <1>1, ReplaceTurns
<1> QED  BY <1>2 DEF s

(* A turn that changes the challenge at hand and keeps its nonce.          *)
LEMMA WorkTurns ==
  ASSUME NEW t, RunnerFine(t), HasWork(t.r), NEW w \in RunnerWorkType, Records(t.r.work, w)
  PROVE  Turns(t, [t EXCEPT !.r = [t.r EXCEPT !.work = w]])
<1> DEFINE s == [t.r EXCEPT !.work = w]
<1>1. RunnerFine(Turn(s, t.toEngine, t.toHost)) /\ Moves(t.r, s)
  BY WorkKeeps
<1> HIDE DEF s
<1>2. Turns(t, [t EXCEPT !.r = s])
  BY <1>1, ReplaceTurns
<1> QED  BY <1>2 DEF s

(* RequestResume: ResumeAcceptedWork, once the host is ready.              *)
LEMMA RequestTurns ==
  ASSUME NEW t, RunnerFine(t), NEW expired \in BOOLEAN, NEW exited \in BOOLEAN
  PROVE  Turns(t, RequestResume(t, expired, exited))
<1> DEFINE r == t.r
           f == [r.fence EXCEPT !.resumeRequested = TRUE]
           a == [t EXCEPT !.r = [r EXCEPT !.fence = f]]
           g == r.fence.generation + 1
           w == [r.work EXCEPT !.resume = g]
           b == [a EXCEPT !.r = [a.r EXCEPT !.work = w]]
           m == Packet("Resume", r.work.nonce, g, NoCuts)
           d == [a EXCEPT !.r = [a.r EXCEPT !.failed = TRUE]]
           may == HasFence(r) /\ ~r.fence.canceled /\ ~expired /\ ~r.work.refused
                  /\ r.fence.hostReady /\ r.work.acknowledged /\ ~r.fence.resumeRequested
<1>1. /\ t \in TurnType /\ r \in RunnerType /\ r.work \in RunnerWorkType /\ r.fence \in FenceType
      /\ ReceiptInv(r, GrantedBy(engine), Quiet)
  BY FineGives
<1>2. CASE ~may
  BY <1>2, TurnsStay DEF RequestResume
<1>3. CASE may
  <2>1. f \in FenceType /\ (f.hostResumed => r.fence.hostResumed) /\ HasFence(r)
    BY <1>1, <1>3 DEF FenceType
  <2>2. a.r.work = r.work /\ a.r \in RunnerType /\ a \in TurnType
    BY <1>1, <2>1 DEF RunnerType, TurnType
  <2> HIDE DEF f
  <2>3. Turns(t, a)
    BY <2>1, FenceTurns
  <2>4. RequestResume(t, expired, exited) = SendToEngine(b, m, exited) \/ RequestResume(t, expired, exited) = d
    BY <1>1, <1>3 DEF RequestResume, TurnType, RunnerType, f
  <2> HIDE DEF a
  <2>5. d \in TurnType /\ Turns(a, d)
    <3> DEFINE s == [a.r EXCEPT !.failed = TRUE]
    <3>1. s \in RunnerType /\ SameWork(a.r, s)
      BY <2>2 DEF RunnerType, SameWork
    <3>2. d = [a EXCEPT !.r = s]
      OBVIOUS
    <3> HIDE DEF s, d
    <3>3. Turns(a, d)
      BY <2>3, <3>1, <3>2, FlagTurns DEF Turns
    <3> QED  BY <3>3, FineGives DEF Turns
  <2>6. Turns(a, b)
    <3>1. w \in RunnerWorkType
      BY <1>1 DEF RunnerWorkType, FenceType
    <3>2. Records(r.work, w)
      BY <1>1 DEF Records, ReceiptInv, RunnerWorkType
    <3>3. HasWork(a.r)
      BY <1>1, <1>3, <2>2, WorkByNonce DEF HasWork
    <3> HIDE DEF w
    <3> QED  BY <2>2, <2>3, <3>1, <3>2, <3>3, WorkTurns DEF Turns
  <2>7. m \in ToEngine /\ m.kind # "Begin"
    BY <1>1 DEF Packet, ToEngine, PacketOf, NoCuts, Cuts, RunnerWorkType, FenceType
  <2> HIDE DEF b, m, d
  <2>8. Turns(b, SendToEngine(b, m, exited))
    BY <2>6, <2>7, ToEngineKeeps DEF Turns
  <2> QED  BY <2>3, <2>4, <2>5, <2>6, <2>8, TurnsOn
<1> QED  BY <1>2, <1>3

(* ResumeHost: the host is told when the Engine has resumed.               *)
LEMMA ResumeHostTurns ==
  ASSUME NEW t, RunnerFine(t), NEW expired \in BOOLEAN
  PROVE  Turns(t, ResumeHost(t, expired))
<1> DEFINE f == [t.r.fence EXCEPT !.hostResumeSent = TRUE]
           u == [t EXCEPT !.r = [t.r EXCEPT !.fence = f]]
           m == Packet("RESUME", t.r.work.nonce, t.r.fence.generation + 1, NoCuts)
<1>1. t \in TurnType /\ t.r \in RunnerType /\ t.r.work \in RunnerWorkType /\ t.r.fence \in FenceType
  BY FineGives
<1>2. ResumeHost(t, expired) = t \/ (HasFence(t.r) /\ ResumeHost(t, expired) = SendToHost(u, m))
  BY <1>1 DEF ResumeHost, TurnType, RunnerType
<1>3. f \in FenceType /\ (f.hostResumed => t.r.fence.hostResumed)
  BY <1>1 DEF FenceType
<1>4. m \in ToHost /\ TellOK(u.r, m)
  BY <1>1 DEF Packet, ToHost, PacketOf, NoCuts, Cuts, RunnerWorkType, FenceType, TellOK
<1> HIDE DEF f, m
<1>5. CASE HasFence(t.r) /\ ResumeHost(t, expired) = SendToHost(u, m)
  <2>1. Turns(t, u)
    BY <1>3, <1>5, FenceTurns
  <2> HIDE DEF u
  <2>2. Turns(u, SendToHost(u, m))
    BY <1>4, <2>1, ToHostKeeps, MovesStay DEF Turns
  <2> QED  BY <1>5, <2>1, <2>2, TurnsOn
<1> QED  BY <1>2, <1>5, TurnsStay

-----------------------------------------------------------------------------
(* A whole tick.                                                           *)

(* Tick without With. *)
TickAsks(t, expired, exited) == ResumeHost(RequestResume(t, expired, exited), expired)
TickForwards(t, expired, exited) == IF t.r.failed THEN t ELSE TickAsks(Forward(t), expired, exited)
TickIssues(t, expired, exited, keeps) ==
  IF ~Fencing(t.r) THEN t
  ELSE TickForwards(IssueChallenge(CancelIfOver(t, expired, keeps), expired, exited), expired, exited)

(* Tick, part by part.                                                     *)
LEMMA TickIs ==
  ASSUME NEW t, NEW packets, NEW expired, NEW exited, NEW keeps
  PROVE  Tick(t, packets, expired, exited, keeps) =
         TickIssues([t EXCEPT !.r = ReceiverTick(@, packets, expired, exited)], expired, exited, keeps)
<1> DEFINE Asks(u) == With(RequestResume(u, expired, exited), LAMBDA v : ResumeHost(v, expired))
           Forwards(u) == IF u.r.failed THEN u ELSE With(Forward(u), Asks)
           Issues(u) == IF ~Fencing(u.r) THEN u
                        ELSE With(IssueChallenge(CancelIfOver(u, expired, keeps), expired, exited), Forwards)
<1>1. \A u : Asks(u) = TickAsks(u, expired, exited)
  BY DEF With, TickAsks
<1>2. \A u : Forwards(u) = TickForwards(u, expired, exited)
  <2> HIDE DEF Asks
  <2>1. \A x : With(x, Asks) = Asks(x)
    BY DEF With
  <2> QED  BY <1>1, <2>1 DEF TickForwards
<1>3. \A u : Issues(u) = TickIssues(u, expired, exited, keeps)
  <2> HIDE DEF Forwards
  <2>1. \A x : With(x, Forwards) = Forwards(x)
    BY DEF With
  <2> QED  BY <1>2, <2>1 DEF TickIssues
<1>4. Tick(t, packets, expired, exited, keeps) =
      With([t EXCEPT !.r = ReceiverTick(@, packets, expired, exited)], Issues)
  BY DEF Tick
<1>5. \A x : With(x, Issues) = Issues(x)
  <2> HIDE DEF Issues
  <2> QED  BY DEF With
<1> HIDE DEF Issues
<1> QED  BY <1>3, <1>4, <1>5

(* Tick is a turn, whatever receipts it reads and whatever passed          *)
(* meanwhile.                                                              *)
LEMMA TickTurns ==
  ASSUME NEW t, RunnerFine(t), NEW packets \in Seq(Receipts),
         NEW expired \in BOOLEAN, NEW exited \in BOOLEAN, NEW keeps \in BOOLEAN
  PROVE  Turns(t, Tick(t, packets, expired, exited, keeps))
<1> DEFINE s == ReceiverTick(t.r, packets, expired, exited)
           a == [t EXCEPT !.r = s]
           b == CancelIfOver(a, expired, keeps)
           c == IssueChallenge(b, expired, exited)
           d == Forward(c)
           e == RequestResume(d, expired, exited)
<1>1. RunnerFine(Turn(s, t.toEngine, t.toHost)) /\ Moves(t.r, s)
  BY ReceiverKeeps
<1> HIDE DEF s
<1>2. Turns(t, a)
  BY <1>1, ReplaceTurns
<1> HIDE DEF a
<1>3. Turns(a, b)
  BY <1>2, CancelIfOverTurns DEF Turns
<1> HIDE DEF b
<1>4. Turns(b, c)
  BY <1>3, IssueTurns DEF Turns
<1> HIDE DEF c
<1>5. Turns(c, d)
  BY <1>4, ForwardTurns DEF Turns
<1> HIDE DEF d
<1>6. Turns(d, e)
  BY <1>5, RequestTurns DEF Turns
<1> HIDE DEF e
<1>7. Turns(e, ResumeHost(e, expired))
  BY <1>6, ResumeHostTurns DEF Turns
<1>8. Tick(t, packets, expired, exited, keeps) = TickIssues(a, expired, exited, keeps)
  BY TickIs DEF a, s
<1>9. TickIssues(a, expired, exited, keeps) \in {a, c, ResumeHost(e, expired)}
  BY DEF TickIssues, TickForwards, TickAsks, b, c, d, e
<1>10. Turns(t, c) /\ Turns(t, ResumeHost(e, expired))
  BY <1>2, <1>3, <1>4, <1>5, <1>6, <1>7, TurnsOn
<1> QED  BY <1>2, <1>8, <1>9, <1>10

-----------------------------------------------------------------------------
(* The entry points.                                                       *)

(* BeginCallbackIterationFence up to its Tick.                             *)
LEMMA BeginFenceTurns ==
  ASSUME NEW t, RunnerFine(t), NEW keeps, MayBeginFence(t.r, keeps), NEW exited \in BOOLEAN
  PROVE  Turns(t, BeginFence(t, exited))
<1> DEFINE f == [NoFence EXCEPT !.generation = t.r.generation + 1]
           s == [t.r EXCEPT !.fence = f, !.generation = t.r.generation + 2]
           u == [t EXCEPT !.r = s]
<1>1. /\ t \in TurnType /\ t.r \in RunnerType /\ t.r.fence \in FenceType
      /\ CountInv(t.r) /\ ReceiptInv(t.r, GrantedBy(engine), Quiet) /\ ResumeInv(t.r, Good)
      /\ IdleInv(t.r, t.toHost) /\ BeginInv(t.r, engine.nonce, host.last) /\ SentInv(t, GrantedBy(engine))
  BY FineGives
<1>2. BeginFence(t, exited) = u \/ BeginFence(t, exited) = InstallAcceptedWork(u, exited)
  BY <1>1 DEF BeginFence, TurnType, RunnerType
<1>3. ~t.r.idle /\ ~HasWork(t.r) /\ t.r.completed < MaxFences /\ t.r.generation \in Nat
  BY <1>1 DEF MayBeginFence, RunnerType
<1>4. f \in FenceType /\ ~f.hostResumed
  <2>1. t.r.generation + 1 \in Nat
    BY <1>3
  <2> QED  BY <2>1 DEF FenceType, NoFence
<1> HIDE DEF f
<1>4a. s \in RunnerType
  <2>1. t.r.generation + 2 \in Nat
    BY <1>3
  <2> QED  BY <1>1, <1>4, <2>1 DEF RunnerType
<1>5. s \in RunnerType /\ u \in TurnType /\ u.r = s /\ u.toEngine = t.toEngine /\ u.toHost = t.toHost
  BY <1>1, <1>4a DEF TurnType
<1>6. /\ s.sequence = t.r.sequence /\ s.completed = t.r.completed /\ s.generation # 0
      /\ s.idle = t.r.idle /\ s.fence = f /\ s.work = t.r.work
  BY <1>1, <1>3 DEF RunnerType
<1> HIDE DEF s, u
<1>7. CountInv(s) /\ ReceiptInv(s, GrantedBy(engine), Quiet)
  BY <1>1, <1>3, <1>6 DEF CountInv, ReceiptInv, HasWork, HasFence
<1>8. ResumeInv(s, Good) /\ IdleInv(s, u.toHost)
  BY <1>1, <1>3, <1>4, <1>6 DEF ResumeInv, IdleInv
<1>9. BeginInv(s, engine.nonce, host.last)
  BY <1>1, <1>6 DEF BeginInv, HasWork
<1>10. SentInv(u, GrantedBy(engine))
  BY <1>1, <1>5, <1>6 DEF SentInv
<1>11. RunnerFine(u)
  BY <1>5, <1>7, <1>8, <1>9, <1>10 DEF RunnerFine, RunnerInv
<1>12. Turns(t, u)
  BY <1>5, <1>6, <1>11 DEF Turns, Moves, HasWork
<1>13. Turns(u, InstallAcceptedWork(u, exited))
  BY <1>11, InstallTurns
<1> QED  BY <1>2, <1>12, <1>13, TurnsOn

(* BeginAcceptedIdle up to its Tick.                                       *)
LEMMA BeginIdleTurns ==
  ASSUME NEW t, RunnerFine(t), MayBeginIdle(t.r), NEW exited \in BOOLEAN
  PROVE  Turns(t, BeginIdle(t, exited))
<1> DEFINE s == [t.r EXCEPT !.idle = TRUE]
           u == [t EXCEPT !.r = s]
<1>1. /\ t \in TurnType /\ t.r \in RunnerType
      /\ CountInv(t.r) /\ ReceiptInv(t.r, GrantedBy(engine), Quiet) /\ ResumeInv(t.r, Good)
      /\ IdleInv(t.r, t.toHost) /\ BeginInv(t.r, engine.nonce, host.last) /\ SentInv(t, GrantedBy(engine))
  BY FineGives
<1>2. BeginIdle(t, exited) = InstallAcceptedWork(u, exited)
  BY <1>1 DEF BeginIdle, TurnType, RunnerType
<1>3. s \in RunnerType /\ u \in TurnType /\ u.r = s /\ u.toEngine = t.toEngine /\ u.toHost = t.toHost
  BY <1>1 DEF RunnerType, TurnType
<1>4. /\ s.sequence = t.r.sequence /\ s.completed = t.r.completed /\ s.generation = t.r.generation
      /\ t.r.generation = 0 /\ s.fence = t.r.fence /\ s.work = t.r.work
  BY <1>1 DEF RunnerType, MayBeginIdle
<1> HIDE DEF s, u
<1>5. CountInv(s) /\ ReceiptInv(s, GrantedBy(engine), Quiet)
  BY <1>1, <1>4 DEF CountInv, ReceiptInv, HasWork, HasFence
<1>6. ResumeInv(s, Good) /\ IdleInv(s, u.toHost)
  BY <1>1, <1>3, <1>4 DEF ResumeInv, IdleInv, HasFence
<1>7. BeginInv(s, engine.nonce, host.last)
  BY <1>1, <1>4 DEF BeginInv, HasWork
<1>8. SentInv(u, GrantedBy(engine))
  BY <1>1, <1>3, <1>4 DEF SentInv
<1>9. RunnerFine(u)
  BY <1>3, <1>5, <1>6, <1>7, <1>8 DEF RunnerFine, RunnerInv
<1>10. Turns(t, u)
  BY <1>3, <1>4, <1>9 DEF Turns, Moves, HasWork
<1>11. Turns(u, InstallAcceptedWork(u, exited))
  BY <1>9, InstallTurns
<1> QED  BY <1>2, <1>10, <1>11, TurnsOn

(* The finished fence is counted, and the next may begin.                  *)
MayFinish(r) == HasFence(r) /\ r.fence.hostResumed /\ RunnerAcceptedWorkReady(r)

(* What finishing a fence means for the promise.                           *)
Finished(r, s) ==
  /\ s.completed = r.completed + 1 /\ s.work = NoRunnerWork
  /\ HasWork(r) /\ s.generation = r.generation /\ r.generation # 0
  /\ r.work.acknowledged /\ ~r.work.canceled /\ ~r.work.refused

(* FinishCallbackIterationFence: the fence completes and nothing of it     *)
(* stays.                                                                  *)
LEMMA FinishKeeps ==
  ASSUME NEW t, RunnerFine(t), MayFinish(t.r), NEW u, u = [t EXCEPT !.r = FinishFence(t.r)]
  PROVE  RunnerFine(u) /\ Finished(t.r, u.r)
<1> DEFINE s == FinishFence(t.r)
<1>1. /\ t \in TurnType /\ t.r \in RunnerType /\ t.r.work \in RunnerWorkType /\ t.r.fence \in FenceType
      /\ CountInv(t.r) /\ ReceiptInv(t.r, GrantedBy(engine), Quiet) /\ ResumeInv(t.r, Good)
      /\ IdleInv(t.r, t.toHost) /\ BeginInv(t.r, engine.nonce, host.last) /\ SentInv(t, GrantedBy(engine))
  BY FineGives
<1>2. /\ HasFence(t.r) /\ t.r.work.acknowledged /\ t.r.work.observed /\ t.r.fence.hostResumed
      /\ ~t.r.work.canceled /\ ~t.r.work.refused
  BY DEF MayFinish, RunnerAcceptedWorkReady
<1>3. HasWork(t.r)
  BY <1>1, <1>2, WorkByNonce DEF HasWork
<1>4. s \in RunnerType /\ u \in TurnType /\ u.r = s /\ u.toEngine = t.toEngine /\ u.toHost = t.toHost
  <2>1. NoFence \in FenceType /\ NoRunnerWork \in RunnerWorkType
    BY DEF FenceType, NoFence, RunnerWorkType, NoRunnerWork, NoCuts, Cuts
  <2>2. t.r.completed + 1 \in Nat
    BY <1>1 DEF RunnerType
  <2>3. s \in RunnerType
    BY <1>1, <2>1, <2>2 DEF RunnerType, FinishFence
  <2> HIDE DEF s
  <2>4. u = [t EXCEPT !.r = s]
    BY DEF s
  <2> QED  BY <1>1, <2>3, <2>4 DEF TurnType
<1>5. /\ s.sequence = t.r.sequence /\ s.completed = t.r.completed + 1 /\ s.generation = t.r.generation
      /\ s.idle = t.r.idle /\ s.fence = NoFence /\ s.work = NoRunnerWork
  BY <1>1 DEF RunnerType, FinishFence
<1>6. /\ t.r.completed \in Nat /\ t.r.completed < MaxFences /\ MaxFences \in Nat
      /\ t.r.work.nonce = t.r.sequence /\ t.r.sequence = t.r.completed + 1
  BY <1>1, <1>2, <1>3, RunnerWorkAssumption DEF CountInv, RunnerType
<1> HIDE DEF s
<1>7. CountInv(s) /\ ~HasFence(s) /\ ~HasWork(s)
  BY <1>5, <1>6 DEF CountInv, HasWork, HasFence
<1>8. ReceiptInv(s, GrantedBy(engine), Quiet)
  BY <1>5 DEF ReceiptInv, NoRunnerWork
<1>9. ResumeInv(s, Good)
  <2>1. \A n \in 1 .. s.completed : n \in 1 .. t.r.completed \/ n = t.r.work.nonce
    BY <1>5, <1>6
  <2>2. ~s.fence.hostResumed
    BY <1>5 DEF NoFence
  <2> QED  BY <1>1, <1>2, <2>1, <2>2 DEF ResumeInv
<1>10. t.r.generation # 0 /\ ~t.r.idle
  BY <1>1, <1>2 DEF IdleInv, RunnerType
<1>11. IdleInv(s, u.toHost)
  BY <1>5, <1>10 DEF IdleInv
<1>12. BeginInv(s, engine.nonce, host.last)
  <2>1. t.r.work.nonce \in GrantedBy(engine) /\ t.r.work.nonce \in Quiet
    BY <1>1, <1>2 DEF ReceiptInv
  <2>2. t.r.work.nonce \in Nat /\ engine.nonce \in Nat /\ host.last \in Nat
    BY <1>6 DEF RunnerFine
  <2>3. t.r.work.nonce <= engine.nonce /\ t.r.work.nonce <= host.last
    BY <2>1, <2>2 DEF GrantedBy, Quiet, QuietAt
  <2> QED  BY <1>1, <1>5, <1>6, <1>7, <2>3 DEF BeginInv
<1>13. SentInv(u, GrantedBy(engine))
  BY <1>1, <1>4, <1>5 DEF SentInv
<1>14. RunnerFine(u)
  BY <1>4, <1>7, <1>8, <1>9, <1>11, <1>12, <1>13 DEF RunnerFine, RunnerInv
<1> QED  BY <1>2, <1>3, <1>4, <1>5, <1>10, <1>14 DEF Finished

(* What the host may tell the runner.                                      *)
HostSays(m) ==
  /\ m.kind = "OBSERVED" => m.cuts.nonce \in Quiet
  /\ m.kind = "HOST_RESUMED" => m.nonce \in Good

(* ObserveOriginalDecoder: the observation is recorded and passed on in    *)
(* time.                                                                   *)
LEMMA ObserveDecoderTurns ==
  ASSUME NEW t, RunnerFine(t), NEW m \in FromHostType, m.cuts.nonce \in Quiet,
         NEW expired \in BOOLEAN, NEW exited \in BOOLEAN
  PROVE  Turns(t, ObserveOriginalDecoder(t, m, expired, exited))
<1> DEFINE w == t.r.work
           x == [w EXCEPT !.observed = TRUE]
           u == [t EXCEPT !.r = [t.r EXCEPT !.work = x]]
           d == [t EXCEPT !.r = [t.r EXCEPT !.failed = TRUE]]
           o == Packet("Observed", w.nonce, 0, w.cuts)
           wrong == w.cuts = NoCuts \/ w.cuts # m.cuts \/ w.observed \/ w.refused
<1>1. /\ t \in TurnType /\ t.r \in RunnerType /\ w \in RunnerWorkType
      /\ CountInv(t.r) /\ ReceiptInv(t.r, GrantedBy(engine), Quiet)
  BY FineGives
<1>2. CASE wrong
  <2> DEFINE s == [t.r EXCEPT !.failed = TRUE]
  <2>1. s \in RunnerType /\ SameWork(t.r, s)
    BY <1>1 DEF RunnerType, SameWork
  <2>2. ObserveOriginalDecoder(t, m, expired, exited) = [t EXCEPT !.r = s]
    BY <1>1, <1>2 DEF ObserveOriginalDecoder, TurnType
  <2> HIDE DEF s
  <2> QED  BY <2>1, <2>2, FlagTurns
<1>3. CASE ~wrong
  <2>1. \/ ObserveOriginalDecoder(t, m, expired, exited) = u
        \/ ObserveOriginalDecoder(t, m, expired, exited) = SendToEngine(u, o, exited)
    BY <1>1, <1>3 DEF ObserveOriginalDecoder, TurnType, RunnerType
  <2>2. x \in RunnerWorkType
    BY <1>1 DEF RunnerWorkType
  <2>3. HasWork(t.r)
    BY <1>1, <1>3, WorkByNonce DEF HasWork
  <2>4. w.nonce \in Quiet
    BY <1>1, <1>3 DEF ReceiptInv
  <2>5. Records(w, x)
    BY <1>1, <1>3, <2>4 DEF Records, ReceiptInv, RunnerWorkType
  <2> HIDE DEF x
  <2>6. Turns(t, u)
    BY <2>2, <2>3, <2>5, WorkTurns
  <2>7. o \in ToEngine /\ o.kind # "Begin"
    BY <1>1 DEF Packet, ToEngine, PacketOf, RunnerWorkType
  <2> HIDE DEF u, o
  <2>8. Turns(u, SendToEngine(u, o, exited))
    BY <2>6, <2>7, ToEngineKeeps DEF Turns
  <2> QED  BY <2>1, <2>6, <2>8, TurnsOn
<1> QED  BY <1>2, <1>3

(* Before a packet of the host is looked at, a stop cancels the work, and  *)
(* the fence too unless the packet is an observation.                      *)
Halted(t, m, halt) ==
  [t EXCEPT !.r = IF ~halt THEN t.r
                  ELSE IF m.kind = "OBSERVED" THEN CancelAcceptedWork(t.r)
                  ELSE CancelAcceptedWork([t.r EXCEPT !.fence.canceled = TRUE])]

(* A packet of the host that comes after the stop cancels first.           *)
LEMMA HaltedTurns ==
  ASSUME NEW t, RunnerFine(t), NEW m, NEW halt \in BOOLEAN, HasFence(t.r) \/ m.kind = "OBSERVED"
  PROVE  /\ Turns(t, Halted(t, m, halt)) /\ Halted(t, m, halt).r.work.nonce = t.r.work.nonce
         /\ (HasFence(t.r) => HasFence(Halted(t, m, halt).r))
<1>1. t \in TurnType /\ t.r \in RunnerType /\ t.r.work \in RunnerWorkType /\ t.r.fence \in FenceType
  BY FineGives
<1>2. CASE ~halt
  <2>1. Halted(t, m, halt) = t
    BY <1>1, <1>2 DEF Halted, TurnType
  <2> QED  BY <2>1, TurnsStay
<1>3. CASE halt /\ m.kind = "OBSERVED"
  <2> DEFINE s == CancelAcceptedWork(t.r)
  <2>1. Halted(t, m, halt) = [t EXCEPT !.r = s]
    BY <1>3 DEF Halted
  <2>2. RunnerFine(Turn(s, t.toEngine, t.toHost)) /\ Moves(t.r, s)
    BY CancelWorkKeeps
  <2>3. s.work.nonce = t.r.work.nonce /\ s.fence = t.r.fence
    BY <1>1 DEF CancelAcceptedWork, RunnerType, RunnerWorkType
  <2> HIDE DEF s
  <2>4. Turns(t, Halted(t, m, halt)) /\ Halted(t, m, halt).r = s
    BY <1>1, <2>1, <2>2, ReplaceTurns DEF TurnType
  <2> QED  BY <2>3, <2>4 DEF HasFence
<1>4. CASE halt /\ m.kind # "OBSERVED"
  <2> DEFINE f == [t.r.fence EXCEPT !.canceled = TRUE]
             a == [t EXCEPT !.r = [t.r EXCEPT !.fence = f]]
             s == CancelAcceptedWork(a.r)
  <2>1. f \in FenceType /\ (f.hostResumed => t.r.fence.hostResumed) /\ f # NoFence
    BY <1>1 DEF FenceType, NoFence
  <2>2. Halted(t, m, halt) = [a EXCEPT !.r = s]
    BY <1>1, <1>4 DEF Halted, TurnType, RunnerType
  <2>3. a.r.work = t.r.work /\ a.r.fence = f
    BY <1>1 DEF TurnType, RunnerType
  <2> HIDE DEF f
  <2>4. Turns(t, a)
    BY <1>4, <2>1, FenceTurns
  <2> HIDE DEF a
  <2>4a. a \in TurnType /\ a.r \in RunnerType /\ a.r.work \in RunnerWorkType
    BY <2>4, FineGives DEF Turns
  <2>5. RunnerFine(Turn(s, a.toEngine, a.toHost)) /\ Moves(a.r, s)
    BY <2>4, CancelWorkKeeps DEF Turns
  <2>6. s.work.nonce = t.r.work.nonce /\ s.fence = f
    BY <2>3, <2>4a DEF CancelAcceptedWork, RunnerType, RunnerWorkType
  <2> HIDE DEF s
  <2>7. Turns(a, Halted(t, m, halt)) /\ Halted(t, m, halt).r = s
    <3>1. RunnerFine(a)
      BY <2>4 DEF Turns
    <3>2. Turns(a, [a EXCEPT !.r = s])
      BY <2>5, <3>1, ReplaceTurns
    <3>3. [a EXCEPT !.r = s].r = s
      BY <2>4a DEF TurnType
    <3> QED  BY <2>2, <3>2, <3>3
  <2> QED  BY <2>1, <2>4, <2>6, <2>7, TurnsOn DEF HasFence
<1> QED  BY <1>2, <1>3, <1>4

(* Packet: a packet of the host is a turn of the runner.                   *)
LEMMA FromHostTurns ==
  ASSUME NEW t, RunnerFine(t), NEW m \in FromHostType, HostSays(m),
         NEW expired \in BOOLEAN, NEW exited \in BOOLEAN, NEW halt \in BOOLEAN
  PROVE  Turns(t, FromHost(t, m, expired, exited, halt))
<1> DEFINE u == Halted(t, m, halt)
           s == [t.r EXCEPT !.failed = TRUE]
           d == [t EXCEPT !.r = s]
           F == FromHost(t, m, expired, exited, halt)
<1>1. t \in TurnType /\ t.r \in RunnerType
  BY FineGives
<1>2. Turns(t, d)
  <2>1. s \in RunnerType /\ SameWork(t.r, s)
    BY <1>1 DEF RunnerType, SameWork
  <2> HIDE DEF s
  <2> QED  BY <2>1, FlagTurns
<1>3. d = [t EXCEPT !.r.failed = TRUE]
  BY <1>1 DEF TurnType
<1> HIDE DEF d
<1>4. m.kind \in {"OBSERVED", "READY", "HOST_RESUMED"}
  BY DEF FromHostType, PacketOf
<1>5. CASE m.kind = "OBSERVED"
  <2>1. F = ObserveOriginalDecoder(u, m, expired, exited)
    BY <1>5 DEF FromHost, Halted
  <2>2. Turns(t, u) /\ m.cuts.nonce \in Quiet
    BY <1>5, HaltedTurns DEF HostSays
  <2> HIDE DEF u, F
  <2>3. Turns(u, F)
    BY <2>1, <2>2, ObserveDecoderTurns DEF Turns
  <2> QED  BY <2>2, <2>3, TurnsOn DEF F
<1>6. CASE m.kind = "READY"
  <2>1. F = d \/ (HasFence(t.r) /\ F = [u EXCEPT !.r.fence.hostReady = TRUE])
    BY <1>3, <1>6 DEF FromHost, Halted
  <2>2. CASE HasFence(t.r) /\ F = [u EXCEPT !.r.fence.hostReady = TRUE]
    <3>1. Turns(t, u) /\ HasFence(u.r)
      BY <2>2, HaltedTurns
    <3> HIDE DEF u
    <3>2. u \in TurnType /\ u.r \in RunnerType /\ u.r.fence \in FenceType
      BY <3>1, FineGives DEF Turns
    <3> DEFINE f == [u.r.fence EXCEPT !.hostReady = TRUE]
    <3>3. f \in FenceType /\ (f.hostResumed => u.r.fence.hostResumed)
      BY <3>2 DEF FenceType
    <3>4. F = [u EXCEPT !.r = [u.r EXCEPT !.fence = f]]
      BY <2>2, <3>2 DEF TurnType, RunnerType
    <3> HIDE DEF f, F
    <3>5. Turns(u, F)
      BY <3>1, <3>3, <3>4, FenceTurns DEF Turns
    <3> QED  BY <3>1, <3>5, TurnsOn DEF F
  <2> QED  BY <1>2, <2>1, <2>2
<1>7. CASE m.kind = "HOST_RESUMED"
  <2>1. F = d \/ (HasFence(t.r) /\ m.nonce = t.r.work.nonce /\ F = [u EXCEPT !.r.fence.hostResumed = TRUE])
    BY <1>3, <1>7 DEF FromHost, Halted
  <2>2. CASE HasFence(t.r) /\ m.nonce = t.r.work.nonce /\ F = [u EXCEPT !.r.fence.hostResumed = TRUE]
    <3>1. Turns(t, u) /\ HasFence(u.r) /\ u.r.work.nonce \in Good
      BY <1>7, <2>2, HaltedTurns DEF HostSays
    <3> HIDE DEF u
    <3>2. u \in TurnType /\ u.r \in RunnerType /\ u.r.fence \in FenceType
      BY <3>1, FineGives DEF Turns
    <3> DEFINE f == [u.r.fence EXCEPT !.hostResumed = TRUE]
    <3>3. f \in FenceType
      BY <3>2 DEF FenceType
    <3>4. F = [u EXCEPT !.r = [u.r EXCEPT !.fence = f]]
      BY <2>2, <3>2 DEF TurnType, RunnerType
    <3> HIDE DEF f, F
    <3>5. Turns(u, F)
      BY <3>1, <3>3, <3>4, FenceTurns DEF Turns
    <3> QED  BY <3>1, <3>5, TurnsOn DEF F
  <2> QED  BY <1>2, <2>1, <2>2
<1> QED  BY <1>4, <1>5, <1>6, <1>7

(* The host, while the runner and the Engine do nothing; q is what the     *)
(* client has settled once the step is over.                               *)
HostFine(c, q) == c \in CallType /\ HostInv(c, GrantedBy(engine), q, Good)

(* The answer to the barrier command is still to come.                     *)
Waiting(h) == h.pending # NoPending /\ ~h.pending.raw
(* No callback fence is asked for.                                         *)
Lone(h) == h.pending # NoPending /\ ~h.challenge.callback

(* A call that asks for no barrier.                                        *)
Called(c, d, q) ==
  /\ HostFine(d, q) /\ d.barriers = c.barriers /\ d.h.last = c.h.last
  /\ (Waiting(c.h) => Waiting(d.h)) /\ (Lone(c.h) => Lone(d.h))

(* Calls compose.                                                          *)
LEMMA CalledOn ==
  ASSUME NEW c, NEW d, NEW e, NEW q, Called(c, d, q), Called(d, e, q)
  PROVE  Called(c, e, q)
BY DEF Called

(* Doing nothing is a call.                                                *)
LEMMA CalledStay ==
  ASSUME NEW c, NEW q, HostFine(c, q)
  PROVE  Called(c, c, q)
BY DEF Called

(* What is known of the host, part by part.                                *)
LEMMA HostGives ==
  ASSUME NEW c, NEW q, HostFine(c, q)
  PROVE  /\ c \in CallType /\ c.h \in HostType /\ c.toRunner \in Seq(FromHostType) /\ c.barriers \in Seq(Challenges)
         /\ c.h.challenge \in Challenges /\ c.h.pending \in PendingType /\ c.h.last \in Nat
         /\ c.h.entries \in [Nonces -> EntryType] /\ HostInv(c, GrantedBy(engine), q, Good)
BY DEF HostFine, CallType, HostType

(* A pending borrow is told from none by its nonce.                        *)
LEMMA PendingByNonce ==
  ASSUME NEW p, p.nonce # 0
  PROVE  p # NoPending
BY DEF NoPending

(* Flags that say nothing about the challenge.                             *)
SameHost(g, h) ==
  h.challenge = g.challenge /\ h.pending = g.pending /\ h.last = g.last /\ h.entries = g.entries

(* A change of the host's flags alone keeps what it relies on.             *)
LEMMA HostFlags ==
  ASSUME NEW c, NEW q, HostFine(c, q), NEW h \in HostType, SameHost(c.h, h)
  PROVE  Called(c, [c EXCEPT !.h = h], q)
<1> DEFINE d == [c EXCEPT !.h = h]
<1>1. c \in CallType /\ HostInv(c, GrantedBy(engine), q, Good)
  BY HostGives
<1>2. d \in CallType /\ d.h = h /\ d.toRunner = c.toRunner /\ d.barriers = c.barriers
  BY <1>1 DEF CallType
<1> HIDE DEF d
<1>3. HostInv(d, GrantedBy(engine), q, Good)
  BY <1>1, <1>2 DEF HostInv, SameHost
<1>4. Called(c, d, q)
  BY <1>2, <1>3 DEF Called, HostFine, SameHost, Waiting, Lone
<1> QED  BY <1>4 DEF d

(* A call that throws leaves the host failed and the rest as it was.       *)
LEMMA ThrowCalled ==
  ASSUME NEW c, NEW q, HostFine(c, q)
  PROVE  Called(c, Throw(c), q) /\ Throw(c).h.failed
<1> DEFINE h == [c.h EXCEPT !.failed = TRUE]
<1>1. c \in CallType /\ c.h \in HostType
  BY HostGives
<1>2. h \in HostType /\ SameHost(c.h, h) /\ h.failed
  BY <1>1 DEF HostType, SameHost
<1>3. Throw(c) = [c EXCEPT !.h = h] /\ Throw(c).h = h
  BY <1>1 DEF Throw, CallType
<1> HIDE DEF h
<1> QED  BY <1>2, <1>3, HostFlags

(* A packet to the runner.                                                 *)
LEMMA ToRunnerCalled ==
  ASSUME NEW c, NEW q, HostFine(c, q), NEW m \in FromHostType,
         m.kind = "OBSERVED" => m.cuts.nonce \in q, m.kind = "HOST_RESUMED" => m.nonce \in Good
  PROVE  Called(c, SendToRunner(c, m), q)
<1> DEFINE d == SendToRunner(c, m)
<1>1. c \in CallType /\ HostInv(c, GrantedBy(engine), q, Good) /\ c.toRunner \in Seq(FromHostType)
  BY HostGives
<1>2. Append(c.toRunner, m) \in Seq(FromHostType)
  BY <1>1
<1>3. d \in CallType /\ d.h = c.h /\ d.toRunner = Append(c.toRunner, m) /\ d.barriers = c.barriers
  BY <1>1, <1>2 DEF CallType, SendToRunner
<1> HIDE DEF d
<1>4. \A i \in 1 .. Len(d.toRunner) :
        d.toRunner[i] = m \/ (i \in 1 .. Len(c.toRunner) /\ d.toRunner[i] = c.toRunner[i])
  BY <1>1, <1>3
<1>5. HostInv(d, GrantedBy(engine), q, Good)
  BY <1>1, <1>3, <1>4 DEF HostInv
<1>6. Called(c, d, q)
  BY <1>3, <1>5 DEF Called, HostFine
<1> QED  BY <1>6 DEF d

(* Readiness is announced once; a callback fence resumes only when the     *)
(* answer to the barrier and the acknowledgement are both there.           *)
LEMMA WorkChangedCalled ==
  ASSUME NEW c, NEW q, HostFine(c, q)
  PROVE  Called(c, WorkChanged(c), q)
<1> DEFINE h == c.h
           may == h.challenge.callback /\ HostIdleReady(h) /\ ~h.failed
           g == [h EXCEPT !.ready = TRUE]
           a == [c EXCEPT !.h = g]
           m == Packet("READY", h.challenge.nonce, 0, NoCuts)
           told == IF h.ready THEN c ELSE SendToRunner(a, m)
           k == [told.h EXCEPT !.resume = 0, !.challenge = NoChallenge, !.ready = FALSE, !.pending = NoPending]
           b == [told EXCEPT !.h = k]
           n == Packet("HOST_RESUMED", h.challenge.nonce, h.resume, NoCuts)
<1>1. /\ c \in CallType /\ h \in HostType /\ h.challenge \in Challenges /\ h.pending \in PendingType
      /\ HostInv(c, GrantedBy(engine), q, Good)
  BY HostGives
<1>2. CASE ~may
  BY <1>2, CalledStay DEF WorkChanged
<1>3. CASE may
  <2>1. /\ h.pending # NoPending /\ h.pending.raw /\ h.pending.acknowledged /\ h.challenge.callback
        /\ h.challenge.nonce = h.pending.nonce
    BY <1>1, <1>3 DEF HostIdleReady, HostInv
  <2>2. h.challenge.nonce \in Good
    BY <1>1, <2>1 DEF HostInv
  <2>3. m \in FromHostType /\ m.kind = "READY" /\ n \in FromHostType /\ n.kind = "HOST_RESUMED" /\ n.nonce = h.challenge.nonce
    BY <1>1 DEF Packet, FromHostType, PacketOf, NoCuts, Cuts, Challenges, HostType
  <2>4. Called(c, told, q) /\ told.h.challenge = h.challenge /\ told.h.pending = h.pending /\ told.h \in HostType
    <3>1. g \in HostType /\ SameHost(h, g)
      BY <1>1 DEF HostType, SameHost
    <3>2. a.h = g
      BY <1>1 DEF CallType
    <3> HIDE DEF g, m
    <3>3. Called(c, a, q)
      BY <3>1, HostFlags
    <3> HIDE DEF a
    <3>4. Called(a, SendToRunner(a, m), q)
      BY <2>3, <3>3, ToRunnerCalled DEF Called
    <3>5. SendToRunner(a, m).h = a.h
      <4>1. a \in CallType
        BY <3>3, HostGives DEF Called
      <4> QED  BY <4>1 DEF CallType, SendToRunner
    <3>6. Called(c, SendToRunner(a, m), q)
      BY <3>3, <3>4, CalledOn
    <3> QED  BY <1>1, <3>1, <3>2, <3>5, <3>6, CalledStay DEF SameHost
  <2>4a. told \in CallType
    BY <2>4, HostGives DEF Called
  <2>4b. told = IF h.ready THEN c ELSE SendToRunner([c EXCEPT !.h.ready = TRUE], m)
    BY <1>1 DEF CallType
  <2>5. WorkChanged(c) = told \/ WorkChanged(c) = SendToRunner(b, n)
    <3> HIDE DEF m, n
    <3>1. b = [told EXCEPT !.h.resume = 0, !.h.challenge = NoChallenge, !.h.ready = FALSE, !.h.pending = NoPending]
      <4> HIDE DEF told
      <4> QED  BY <2>4, <2>4a DEF CallType, HostType
    <3> HIDE DEF told, b
    <3> QED  BY <1>3, <2>4b, <3>1 DEF WorkChanged, m, n
  <2> HIDE DEF told, m, n
  <2>6. told \in CallType /\ told.h \in HostType /\ HostInv(told, GrantedBy(engine), q, Good)
    BY <2>4, HostGives DEF Called
  <2>7. NoChallenge \in Challenges /\ NoPending \in PendingType /\ ~NoChallenge.callback /\ ~NoPending.acknowledged
        /\ NoPending.nonce = 0 /\ ~NoPending.raw
    BY DEF NoChallenge, Challenges, NoPending, PendingType
  <2>8. k \in HostType /\ k.pending = NoPending /\ k.challenge = NoChallenge /\ k.last = told.h.last /\ k.entries = told.h.entries
    BY <2>6, <2>7 DEF HostType
  <2> HIDE DEF k
  <2>9. b \in CallType /\ b.h = k /\ b.toRunner = told.toRunner /\ b.barriers = told.barriers
    BY <2>6, <2>8 DEF CallType
  <2> HIDE DEF b
  <2>10. HostInv(b, GrantedBy(engine), q, Good)
    BY <2>6, <2>7, <2>8, <2>9 DEF HostInv
  <2>11. Called(told, b, q)
    BY <2>1, <2>4, <2>8, <2>9, <2>10 DEF Called, HostFine, Waiting, Lone
  <2>12. Called(b, SendToRunner(b, n), q)
    BY <2>2, <2>3, <2>11, ToRunnerCalled DEF Called
  <2> QED  BY <2>4, <2>5, <2>11, <2>12, CalledOn
<1> QED  BY <1>2, <1>3

(* The inbox.                                                              *)
LEMMA EntryCalled ==
  ASSUME NEW c, NEW q, HostFine(c, q), NEW n \in Nonces, NEW e \in EntryType,
         e.observed # NoCuts => n \in q /\ e.observed.nonce = n
  PROVE  Called(c, [c EXCEPT !.h.entries[n] = e], q)
<1> DEFINE h == [c.h EXCEPT !.entries[n] = e]
           d == [c EXCEPT !.h = h]
<1>1. /\ c \in CallType /\ c.h \in HostType /\ c.h.entries \in [Nonces -> EntryType]
      /\ HostInv(c, GrantedBy(engine), q, Good)
  BY HostGives
<1>2. d = [c EXCEPT !.h.entries[n] = e]
  BY <1>1 DEF CallType
<1>3. [c.h.entries EXCEPT ![n] = e] \in [Nonces -> EntryType]
  BY <1>1
<1>4. h \in HostType /\ h.challenge = c.h.challenge /\ h.pending = c.h.pending /\ h.last = c.h.last
      /\ h.entries = [c.h.entries EXCEPT ![n] = e]
  BY <1>1, <1>3 DEF HostType
<1> HIDE DEF h
<1>5. d \in CallType /\ d.h = h /\ d.toRunner = c.toRunner /\ d.barriers = c.barriers
  BY <1>1, <1>4 DEF CallType
<1> HIDE DEF d
<1>6. \A k \in Nonces : h.entries[k] = IF k = n THEN e ELSE c.h.entries[k]
  BY <1>1, <1>4
<1>7. HostInv(d, GrantedBy(engine), q, Good)
  BY <1>1, <1>4, <1>5, <1>6 DEF HostInv
<1>8. Called(c, d, q)
  BY <1>4, <1>5, <1>7 DEF Called, HostFine, Waiting, Lone
<1> QED  BY <1>2, <1>8

(* Enter: the inbox takes the entry of a nonce, or is poisoned.            *)
LEMMA EnterCalled ==
  ASSUME NEW c, NEW q, HostFine(c, q), NEW n \in Nonces, NEW e \in EntryType,
         e.observed # NoCuts => n \in q /\ e.observed.nonce = n,
         NEW cuts, NEW replayed, NEW other
  PROVE  Called(c, Enter(c, n, cuts, e, replayed, other), q)
<1> DEFINE h == [c.h EXCEPT !.poisoned = TRUE]
           p == [c EXCEPT !.h = h]
<1>1. c \in CallType /\ c.h \in HostType
  BY HostGives
<1>2. p = [c EXCEPT !.h.poisoned = TRUE]
  BY <1>1 DEF CallType
<1>3. Enter(c, n, cuts, e, replayed, other) \in {Throw(c), Throw(p), [c EXCEPT !.h.entries[n] = e]}
  BY <1>2 DEF Enter
<1>4. h \in HostType /\ SameHost(c.h, h)
  BY <1>1 DEF HostType, SameHost
<1> HIDE DEF h
<1>5. Called(c, p, q)
  BY <1>4, HostFlags
<1> HIDE DEF p
<1>6. Called(p, Throw(p), q)
  BY <1>5, ThrowCalled DEF Called
<1>7. Called(c, Throw(p), q)
  BY <1>5, <1>6, CalledOn
<1>8. Called(c, Throw(c), q)
  BY ThrowCalled
<1>9. Called(c, [c EXCEPT !.h.entries[n] = e], q)
  BY EntryCalled
<1> QED  BY <1>3, <1>7, <1>8, <1>9

(* An observation is published once what was expected and what was decoded *)
(* are the same.                                                           *)
LEMMA PublishCalled ==
  ASSUME NEW c, NEW q, HostFine(c, q), NEW n \in Nonces
  PROVE  Called(c, Publish(c, n), q)
<1> DEFINE e == c.h.entries[n]
           f == [e EXCEPT !.sent = TRUE]
           d == [c EXCEPT !.h.entries[n] = f]
           m == Packet("OBSERVED", n, 0, e.observed)
<1>1. /\ c \in CallType /\ c.h \in HostType /\ c.h.entries \in [Nonces -> EntryType] /\ e \in EntryType
      /\ HostInv(c, GrantedBy(engine), q, Good)
  BY HostGives
<1>2. CASE c.h.failed \/ e.expected = NoCuts \/ e.observed = NoCuts \/ e.sent
  BY <1>2, CalledStay DEF Publish
<1>3. CASE ~(c.h.failed \/ e.expected = NoCuts \/ e.observed = NoCuts \/ e.sent)
  <2>1. d = [c EXCEPT !.h.entries[n].sent = TRUE]
    BY <1>1 DEF CallType, HostType
  <2>2. Publish(c, n) = SendToRunner(d, m)
    BY <1>3, <2>1 DEF Publish
  <2>3. n \in q /\ e.observed.nonce = n /\ e.observed \in Cuts /\ n \in Nat
    BY <1>1, <1>3, NoncesAre DEF HostInv, EntryType
  <2>4. f \in EntryType /\ f.observed = e.observed
    BY <1>1 DEF EntryType
  <2>5. m \in FromHostType /\ m.kind = "OBSERVED" /\ m.cuts = e.observed
    BY <2>3 DEF Packet, FromHostType, PacketOf
  <2> HIDE DEF f, m, e
  <2>6. Called(c, d, q)
    BY <2>3, <2>4, EntryCalled
  <2> HIDE DEF d
  <2>7. Called(d, SendToRunner(d, m), q)
    BY <2>3, <2>5, <2>6, ToRunnerCalled DEF Called
  <2> QED  BY <2>2, <2>6, <2>7, CalledOn
<1> QED  BY <1>2, <1>3

(* Entries that match hold the same cuts.                                  *)
LEMMA MatchesMeans ==
  ASSUME NEW c, NEW q, HostFine(c, q), NEW n, Matches(c.h, n)
  PROVE  n \in Nonces /\ n # 0 /\ n = c.h.last /\ n = c.h.pending.nonce /\ c.h.pending # NoPending
<1>1. HostInv(c, GrantedBy(engine), q, Good)
  BY HostGives
<1> QED  BY <1>1 DEF HostInv, Matches

(* EXPECT: the inbox learns which cuts the Engine issued.                  *)
LEMMA ExpectCalled ==
  ASSUME NEW c, NEW q, HostFine(c, q), NEW cuts \in Cuts
  PROVE  Called(c, Expect(c, cuts), q)
<1> DEFINE n == cuts.nonce
           e == c.h.entries[n]
           f == [e EXCEPT !.expected = cuts]
           d == Enter(c, n, cuts, f, e.expected # NoCuts, e.observed)
<1>1. CASE ~Matches(c.h, n)
  BY <1>1, ThrowCalled DEF Expect
<1>2. CASE Matches(c.h, n)
  <2>1. Expect(c, cuts) = Publish(d, n)
    BY <1>2 DEF Expect
  <2>2. n \in Nonces
    BY <1>2, MatchesMeans
  <2>3. e \in EntryType /\ (e.observed # NoCuts => n \in q /\ e.observed.nonce = n)
    BY <2>2, HostGives DEF HostInv
  <2>4. f \in EntryType /\ f.observed = e.observed
    BY <2>3 DEF EntryType
  <2> HIDE DEF f
  <2>5. Called(c, d, q)
    <3> HIDE DEF e
    <3> QED  BY <2>2, <2>3, <2>4, EnterCalled
  <2> HIDE DEF d
  <2>6. Called(d, Publish(d, n), q)
    BY <2>2, <2>5, PublishCalled DEF Called
  <2> QED  BY <2>1, <2>5, <2>6, CalledOn
<1> QED  BY <1>1, <1>2

(* The decoder has passed the watermark: what was before the barrier is    *)
(* settled.                                                                *)
LEMMA ObserveCalled ==
  ASSUME NEW c, NEW q, HostFine(c, q), NEW cuts \in Cuts, cuts.nonce \in q
  PROVE  Called(c, Observe(c, cuts), q)
<1> DEFINE n == cuts.nonce
           e == c.h.entries[n]
           f == [e EXCEPT !.observed = cuts]
           d == Enter(c, n, cuts, f, e.observed # NoCuts, e.expected)
<1>1. CASE ~Matches(c.h, n)
  BY <1>1, ThrowCalled DEF Observe
<1>2. CASE Matches(c.h, n)
  <2>1. Observe(c, cuts) = Publish(d, n)
    BY <1>2 DEF Observe
  <2>2. n \in Nonces
    BY <1>2, MatchesMeans
  <2>3. e \in EntryType
    BY <2>2, HostGives
  <2>4. f \in EntryType /\ f.observed = cuts
    BY <2>3 DEF EntryType
  <2> HIDE DEF f
  <2>5. Called(c, d, q)
    <3> HIDE DEF e
    <3> QED  BY <2>2, <2>4, EnterCalled
  <2> HIDE DEF d
  <2>6. Called(d, Publish(d, n), q)
    BY <2>2, <2>5, PublishCalled DEF Called
  <2> QED  BY <2>1, <2>5, <2>6, CalledOn
<1> QED  BY <1>1, <1>2

(* What is recorded of the pending barrier.                                *)
Noted(c, d, p, q) ==
  /\ HostFine(d, q) /\ d.barriers = c.barriers /\ d.h.last = c.h.last
  /\ d.h.pending = p /\ p # NoPending /\ d.h.challenge = c.h.challenge

(* The pending borrow is replaced by one of the same nonce.                *)
LEMMA PendingKeeps ==
  ASSUME NEW c, NEW q, HostFine(c, q), c.h.pending # NoPending, NEW p \in PendingType,
         p.nonce = c.h.pending.nonce, p.acknowledged => p.nonce \in GrantedBy(engine),
         p.raw => c.h.pending.raw \/ p.nonce \notin GrantedBy(engine) \ Good,
         NEW d, d = [c EXCEPT !.h.pending = p]
  PROVE  Noted(c, d, p, q)
<1> DEFINE h == [c.h EXCEPT !.pending = p]
<1>1. c \in CallType /\ c.h \in HostType /\ HostInv(c, GrantedBy(engine), q, Good)
  BY HostGives
<1>2. d = [c EXCEPT !.h = h]
  BY <1>1 DEF CallType
<1>3. h \in HostType /\ h.pending = p /\ h.challenge = c.h.challenge /\ h.last = c.h.last /\ h.entries = c.h.entries
  BY <1>1 DEF HostType
<1> HIDE DEF h
<1>4. d \in CallType /\ d.h = h /\ d.toRunner = c.toRunner /\ d.barriers = c.barriers
  BY <1>1, <1>2, <1>3 DEF CallType
<1>5. p.nonce = c.h.last /\ c.h.last # 0 /\ p # NoPending
  BY <1>1, PendingByNonce DEF HostInv
<1>6. HostInv(d, GrantedBy(engine), q, Good)
  BY <1>1, <1>3, <1>4, <1>5 DEF HostInv
<1> QED  BY <1>3, <1>4, <1>5, <1>6 DEF HostFine, Noted

(* ACK: the borrow is acknowledged, and ready if its answer is in.         *)
LEMMA AcknowledgeCalled ==
  ASSUME NEW c, NEW q, HostFine(c, q), NEW cuts \in Cuts, cuts.nonce \in GrantedBy(engine)
  PROVE  Called(c, Acknowledge(c, cuts), q)
<1> DEFINE n == cuts.nonce
           h == [c.h EXCEPT !.poisoned = TRUE]
           a == [c EXCEPT !.h = h]
           k == [c.h EXCEPT !.completed = @ \cup {n}]
           b == [c EXCEPT !.h = k]
           d == [b EXCEPT !.h.entries[n] = NoEntry]
           p == [d.h.pending EXCEPT !.acknowledged = TRUE]
           e == [d EXCEPT !.h.pending = p]
<1>1. c \in CallType /\ c.h \in HostType /\ HostInv(c, GrantedBy(engine), q, Good)
  BY HostGives
<1>2. CASE ~Matches(c.h, n)
  BY <1>2, ThrowCalled DEF Acknowledge
<1>3. CASE Matches(c.h, n)
  <2>1. n \in Nonces /\ n # 0 /\ n = c.h.pending.nonce /\ c.h.pending # NoPending
    BY <1>3, MatchesMeans
  <2>2. a = [c EXCEPT !.h.poisoned = TRUE]
    BY <1>1 DEF CallType
  <2>3. h \in HostType /\ SameHost(c.h, h)
    BY <1>1 DEF HostType, SameHost
  <2>4. k \in HostType /\ SameHost(c.h, k)
    BY <1>1, <2>1 DEF HostType, SameHost
  <2>5. b.h = k /\ b \in CallType
    BY <1>1, <2>4 DEF CallType
  <2>6. d.h.pending = c.h.pending
    BY <2>4, <2>5 DEF CallType, HostType, SameHost
  <2>7. e = [c EXCEPT !.h.completed = @ \cup {n}, !.h.entries[n] = NoEntry, !.h.pending.acknowledged = TRUE]
    <3> DEFINE E1 == [c.h.entries EXCEPT ![n] = NoEntry]
               P1 == [c.h.pending EXCEPT !.acknowledged = TRUE]
               H == [c.h EXCEPT !.completed = @ \cup {n}, !.entries = E1, !.pending = P1]
               X == [c EXCEPT !.h.completed = @ \cup {n}, !.h.entries[n] = NoEntry, !.h.pending.acknowledged = TRUE]
    <3>1. X = [c EXCEPT !.h = H]
      BY <1>1 DEF CallType, HostType
    <3>2. d = [c EXCEPT !.h = [c.h EXCEPT !.completed = @ \cup {n}, !.entries = E1]]
      BY <1>1 DEF CallType, HostType
    <3>3. p = P1
      BY <2>6
    <3> HIDE DEF p, P1
    <3>4. e = [c EXCEPT !.h = H]
      <4> HIDE DEF d, E1
      <4> QED  BY <1>1, <3>2, <3>3 DEF CallType, HostType
    <3>5. e = X
      <4> HIDE DEF e, H, X
      <4> QED  BY <3>1, <3>4
    <3> HIDE DEF e
    <3> QED  BY ONLY <3>5
  <2>8. Acknowledge(c, cuts) \in {Throw(c), Throw(a), e}
    BY <2>2, <2>7 DEF Acknowledge
  <2> HIDE DEF h, k
  <2>9. Called(c, a, q) /\ Called(c, b, q)
    BY <2>3, <2>4, HostFlags
  <2> HIDE DEF a, b
  <2>10. Called(c, Throw(a), q)
    <3>1. Called(a, Throw(a), q)
      BY <2>9, ThrowCalled DEF Called
    <3> QED  BY <2>9, <3>1, CalledOn
  <2>11. NoEntry \in EntryType /\ NoEntry.observed = NoCuts
    BY DEF NoEntry, EntryType, NoCuts, Cuts
  <2>12. Called(b, d, q)
    BY <2>1, <2>9, <2>11, EntryCalled DEF Called
  <2> HIDE DEF d
  <2>13. HostFine(d, q) /\ d.h.pending \in PendingType
    BY <2>12, HostGives DEF Called
  <2>14. /\ p \in PendingType /\ p.nonce = d.h.pending.nonce /\ p.raw = d.h.pending.raw
    BY <2>13 DEF PendingType
  <2>15. p.nonce \in GrantedBy(engine)
    BY <2>1, <2>6, <2>14
  <2> HIDE DEF p
  <2>16. Noted(d, e, p, q)
    <3>1. d.h.pending # NoPending
      BY <2>1, <2>6
    <3> QED  BY ONLY <2>13, <2>14, <2>15, <3>1, PendingKeeps
  <2> HIDE DEF e
  <2>17. Called(d, e, q)
    BY <2>14, <2>16 DEF Noted, Called, Waiting, Lone
  <2>18. Called(c, e, q)
    BY <2>9, <2>12, <2>17, CalledOn
  <2> QED  BY <2>8, <2>10, <2>18, ThrowCalled
<1> QED  BY <1>2, <1>3

(* REFUSE: the borrow is refused.                                          *)
LEMMA RefuseCalled ==
  ASSUME NEW c, NEW q, HostFine(c, q), NEW m
  PROVE  Called(c, Refuse(c, m), q)
<1> DEFINE p == [c.h.pending EXCEPT !.refused = TRUE, !.failed = TRUE]
           d == [c EXCEPT !.h.pending = p]
<1>1. c \in CallType /\ c.h \in HostType /\ c.h.pending \in PendingType /\ HostInv(c, GrantedBy(engine), q, Good)
  BY HostGives
<1>2. Refuse(c, m) = Throw(c) \/ (c.h.pending # NoPending /\ Refuse(c, m) = d)
  BY <1>1 DEF Refuse, CallType, HostType
<1>3. CASE c.h.pending # NoPending /\ Refuse(c, m) = d
  <2>1. p \in PendingType /\ p.nonce = c.h.pending.nonce /\ p.raw = c.h.pending.raw
        /\ p.acknowledged = c.h.pending.acknowledged
    BY <1>1 DEF PendingType
  <2>2. p.acknowledged => p.nonce \in GrantedBy(engine)
    BY <1>1, <2>1 DEF HostInv
  <2> HIDE DEF p
  <2>3. Noted(c, d, p, q)
    <3>1. p.raw => c.h.pending.raw
      BY <2>1
    <3>2. d = [c EXCEPT !.h.pending = p] /\ c.h.pending # NoPending
      BY <1>3
    <3> HIDE DEF d
    <3> QED  BY ONLY HostFine(c, q), <2>1, <2>2, <3>1, <3>2, PendingKeeps
  <2> HIDE DEF d
  <2> QED  BY <1>3, <2>1, <2>3 DEF Noted, Called, Waiting, Lone
<1> QED  BY <1>2, <1>3, ThrowCalled

(* RESUME: the borrow ends and the runner is told so.                      *)
LEMMA ResumeWorkCalled ==
  ASSUME NEW c, NEW q, HostFine(c, q), NEW m \in ToHost
  PROVE  Called(c, ResumeWork(c, m), q)
<1> DEFINE h == [c.h EXCEPT !.resume = m.generation]
           d == [c EXCEPT !.h = h]
<1>1. c \in CallType /\ c.h \in HostType
  BY HostGives
<1>2. ResumeWork(c, m) = Throw(c) \/ ResumeWork(c, m) = d
  BY <1>1 DEF ResumeWork, CallType
<1>3. h \in HostType /\ SameHost(c.h, h)
  BY <1>1 DEF HostType, SameHost, ToHost, PacketOf
<1> HIDE DEF h
<1>4. Called(c, d, q)
  BY <1>3, HostFlags
<1> QED  BY <1>2, <1>4, ThrowCalled

(* A new barrier is asked for: its nonce is above every earlier one.       *)
Begun(c, d, m, q) ==
  /\ HostFine(d, q) /\ d.barriers = Append(c.barriers, d.h.challenge)
  /\ d.h.challenge.nonce = m.nonce /\ d.h.last = m.nonce /\ c.h.last < m.nonce
  /\ c.h.pending = NoPending /\ Waiting(d.h) /\ m.kind \in {"BEGIN", "BEGIN callback"}
  /\ d.h.challenge.callback => m.kind = "BEGIN callback"

(* BEGIN: a borrow begins, and asks for one barrier.                       *)
LEMMA BeginCalled ==
  ASSUME NEW c, NEW q, HostFine(c, q), NEW m \in ToHost, m.kind \in {"BEGIN", "BEGIN callback"}, m.nonce \in Nonces
  PROVE  Called(c, Begin(c, m), q) \/ Begun(c, Begin(c, m), m, q)
<1> DEFINE ch == [nonce |-> m.nonce, generation |-> m.generation, callback |-> m.kind = "BEGIN callback"]
           p == [NoPending EXCEPT !.nonce = m.nonce]
           h == [c.h EXCEPT !.challenge = ch, !.last = m.nonce, !.pending = p]
           d == [h |-> h, toRunner |-> c.toRunner, barriers |-> Append(c.barriers, ch)]
           refused == c.h.challenge # NoChallenge \/ c.h.pending # NoPending \/ m.nonce <= c.h.last
<1>1. /\ c \in CallType /\ c.h \in HostType /\ c.barriers \in Seq(Challenges) /\ c.h.last \in Nat
      /\ c.toRunner \in Seq(FromHostType) /\ HostInv(c, GrantedBy(engine), q, Good)
  BY HostGives
<1>2. CASE refused
  BY <1>2, ThrowCalled DEF Begin
<1>3. CASE ~refused
  <2>1. Begin(c, m) = d
    BY <1>1, <1>3 DEF Begin, CallType, HostType
  <2>2. ch \in Challenges /\ m.nonce \in Nat /\ m.nonce # 0
    BY NoncesAre DEF Challenges, ToHost, PacketOf
  <2>2a. ch.nonce = m.nonce /\ (ch.callback <=> m.kind = "BEGIN callback")
    OBVIOUS
  <2>3. p \in PendingType /\ p.nonce = m.nonce /\ ~p.raw /\ ~p.acknowledged
    BY <2>2 DEF PendingType, NoPending
  <2> HIDE DEF ch, p
  <2>4. h \in HostType /\ h.challenge = ch /\ h.last = m.nonce /\ h.pending = p /\ h.entries = c.h.entries
    BY <1>1, <2>2, <2>3 DEF HostType
  <2> HIDE DEF h
  <2>5. Append(c.barriers, ch) \in Seq(Challenges)
    <3>1. c.barriers \in Seq(Challenges) /\ ch \in Challenges
      BY <1>1, <2>2
    <3> QED  BY ONLY <3>1
  <2>6. d \in CallType /\ d.h = h /\ d.toRunner = c.toRunner /\ d.barriers = Append(c.barriers, ch)
    BY <1>1, <2>4, <2>5 DEF CallType
  <2> HIDE DEF d
  <2>7. p # NoPending
    BY <2>2, <2>3, PendingByNonce
  <2>8. HostInv(d, GrantedBy(engine), q, Good)
    BY <1>1, <2>2, <2>2a, <2>3, <2>4, <2>6, <2>7 DEF HostInv
  <2>9. c.h.last < m.nonce /\ c.h.pending = NoPending
    <3>1. c.h.last \in Nat /\ m.nonce \in Nat /\ ~(m.nonce <= c.h.last)
      BY <1>1, <1>3, <2>2
    <3>2. c.h.last < m.nonce
      BY ONLY <3>1
    <3> QED  BY <1>3, <3>2
  <2>10. Begun(c, d, m, q)
    BY <2>2a, <2>3, <2>4, <2>6, <2>7, <2>8, <2>9 DEF Begun, HostFine, Waiting
  <2> QED  BY <2>1, <2>10
<1> QED  BY <1>2, <1>3

(* A packet of the runner.                                                 *)
LEMMA WorkPacketCalled ==
  ASSUME NEW c, NEW q, HostFine(c, q), NEW m \in ToHost,
         m.kind \in {"BEGIN", "BEGIN callback"} => m.nonce \in Nonces,
         m.kind = "ACK" => m.cuts.nonce \in GrantedBy(engine)
  PROVE  Called(c, WorkPacket(c, m), q) \/ Begun(c, WorkPacket(c, m), m, q)
<1>1. m.kind \in {"BEGIN", "BEGIN callback", "EXPECT", "ACK", "REFUSE", "RESUME"} /\ m.cuts \in Cuts
  BY DEF ToHost, PacketOf
<1>2. ASSUME NEW d, Called(c, d, q), WorkPacket(c, m) = WorkChanged(d) PROVE Called(c, WorkPacket(c, m), q)
  <2>1. Called(d, WorkChanged(d), q)
    BY <1>2, WorkChangedCalled DEF Called
  <2> QED  BY <1>2, <2>1, CalledOn
<1>3. CASE m.kind \in {"BEGIN", "BEGIN callback"}
  <2> DEFINE d == Begin(c, m)
  <2>1. WorkPacket(c, m) = WorkChanged(d)
    BY <1>3 DEF WorkPacket
  <2>2. Called(c, d, q) \/ Begun(c, d, m, q)
    BY <1>3, BeginCalled
  <2> HIDE DEF d
  <2>3. CASE Begun(c, d, m, q)
    <3>1. WorkChanged(d) = d
      BY <2>3 DEF Begun, Waiting, WorkChanged, HostIdleReady
    <3> QED  BY <2>1, <2>3, <3>1
  <2> QED  BY <1>2, <2>1, <2>2, <2>3
<1>4. CASE m.kind = "EXPECT"
  BY <1>1, <1>2, <1>4, ExpectCalled DEF WorkPacket
<1>5. CASE m.kind = "ACK"
  BY <1>1, <1>2, <1>5, AcknowledgeCalled DEF WorkPacket
<1>6. CASE m.kind = "REFUSE"
  BY <1>1, <1>2, <1>6, RefuseCalled DEF WorkPacket
<1>7. CASE m.kind = "RESUME"
  BY <1>1, <1>2, <1>7, ResumeWorkCalled DEF WorkPacket
<1> QED  BY <1>1, <1>3, <1>4, <1>5, <1>6, <1>7

(* The answer to the barrier command.  It comes after an error that the    *)
(* Engine published before the grant.                                      *)
Returned(c, d, q) ==
  /\ HostFine(d, q) /\ d.barriers = c.barriers /\ d.h.last = c.h.last /\ (Lone(c.h) => Lone(d.h))

(* The answer of the barrier command comes in.                             *)
LEMMA RawCalled ==
  ASSUME NEW c, NEW q, HostFine(c, q), NEW ok \in BOOLEAN, c.h.pending # NoPending,
         c.h.pending.nonce \notin GrantedBy(engine) \ Good
  PROVE  Returned(c, RawReturned(c, ok), q)
<1> DEFINE p == [c.h.pending EXCEPT !.raw = TRUE]
           a == [c EXCEPT !.h.pending = p]
           r == [a.h.pending EXCEPT !.failed = TRUE]
           b == [a EXCEPT !.h.pending = r]
<1>1. /\ c \in CallType /\ c.h \in HostType /\ c.h.pending \in PendingType /\ HostInv(c, GrantedBy(engine), q, Good)
  BY HostGives
<1>2. a = [c EXCEPT !.h.pending.raw = TRUE]
  OBVIOUS
<1>3. RawReturned(c, ok) \in {WorkChanged(a), a, Throw(b)}
  BY <1>2 DEF RawReturned
<1>4. p \in PendingType /\ p.nonce = c.h.pending.nonce /\ p.acknowledged = c.h.pending.acknowledged
  BY <1>1 DEF PendingType
<1>5. p.acknowledged => p.nonce \in GrantedBy(engine)
  BY <1>1, <1>4 DEF HostInv
<1>6. p.nonce \notin GrantedBy(engine) \ Good
  BY <1>4
<1> HIDE DEF p
<1>7. Noted(c, a, p, q)
  BY ONLY HostFine(c, q), c.h.pending # NoPending, <1>4, <1>5, <1>6, PendingKeeps
<1> HIDE DEF a
<1>8. HostFine(a, q) /\ a.h.pending = p /\ p # NoPending
  BY <1>7 DEF Noted
<1>9. r \in PendingType /\ r.nonce = p.nonce /\ r.acknowledged = p.acknowledged /\ r.raw = p.raw
  BY <1>4, <1>8 DEF PendingType
<1>10. (r.acknowledged => r.nonce \in GrantedBy(engine)) /\ (r.raw => a.h.pending.raw) /\ a.h.pending # NoPending
  BY <1>5, <1>8, <1>9
<1> HIDE DEF r
<1>11. Noted(a, b, r, q)
  BY ONLY <1>8, <1>9, <1>10, PendingKeeps
<1> HIDE DEF b
<1>12. Called(b, Throw(b), q) /\ Called(a, WorkChanged(a), q)
  BY <1>8, <1>11, ThrowCalled, WorkChangedCalled DEF Noted
<1>13. Returned(c, a, q) /\ Returned(c, b, q)
  BY <1>7, <1>8, <1>11 DEF Returned, Noted, Lone
<1>14. Returned(c, Throw(b), q) /\ Returned(c, WorkChanged(a), q)
  BY <1>12, <1>13 DEF Returned, Called
<1> QED  BY <1>3, <1>13, <1>14

(* A pump of the Engine, while the runner and the host do nothing.         *)
PumpFine(p) == p \in PumpType /\ EngineInv(p, host.last)

(* What is known of the Engine, part by part.                              *)
LEMMA PumpGives ==
  ASSUME NEW p, PumpFine(p)
  PROVE  /\ p \in PumpType /\ p.e \in EngineType /\ p.e.work \in EngineWorkType /\ p.toRunner \in Seq(ToRunner)
         /\ p.answers \in Seq(BOOLEAN) /\ p.mark \in Cuts /\ EngineInv(p, host.last)
         /\ p.e.nonce \in Nat /\ p.e.work.nonce \in Nat /\ p.e.work.cuts \in Cuts
BY DEF PumpFine, PumpType, EngineType, EngineWorkType

(* The Engine's borrow is told from none by its nonce.                     *)
LEMMA EngineWorkByNonce ==
  ASSUME NEW w, w.nonce # 0
  PROVE  w # NoEngineWork
BY DEF NoEngineWork

(* A packet to the runner.                                                 *)
LEMMA EngineSendsKeeps ==
  ASSUME NEW p, PumpFine(p), NEW m \in ToRunner,
         m.kind = "Acknowledged" => m.cuts.nonce \in GrantedBy(p.e),
         m.kind = "Cut" => m.cuts.nonce = m.nonce /\ m.nonce # 0,
         m.kind = "Unsupported" => m.nonce # 0,
         NEW d, d = EngineSends(p, m)
  PROVE  PumpFine(d) /\ d.e = p.e /\ d.answers = p.answers /\ d.mark = p.mark
<1>1. p \in PumpType /\ p.toRunner \in Seq(ToRunner) /\ EngineInv(p, host.last)
  BY PumpGives
<1>2. Append(p.toRunner, m) \in Seq(ToRunner)
  BY <1>1
<1>3. d \in PumpType /\ d.e = p.e /\ d.answers = p.answers /\ d.mark = p.mark /\ d.toRunner = Append(p.toRunner, m)
  BY <1>1, <1>2 DEF PumpType, EngineSends
<1>4. \A i \in 1 .. Len(d.toRunner) :
        d.toRunner[i] = m \/ (i \in 1 .. Len(p.toRunner) /\ d.toRunner[i] = p.toRunner[i])
  BY <1>1, <1>3
<1>5. EngineInv(d, host.last)
  BY <1>1, <1>3, <1>4 DEF EngineInv
<1> QED  BY <1>3, <1>5 DEF PumpFine

(* The Engine's record is replaced by one that grants no less.             *)
WorkOK(e) ==
  /\ e.work # NoEngineWork => e.work.nonce = e.nonce /\ e.nonce \in Nonces
  /\ e.work.cuts # NoCuts => e.work.cuts.nonce = e.work.nonce
  /\ e.work.command => e.work.nonce <= host.last

(* The Engine's record is replaced by one that grants no less.             *)
LEMMA EngineKeeps ==
  ASSUME NEW p, PumpFine(p), NEW e \in EngineType, WorkOK(e), GrantedBy(p.e) \subseteq GrantedBy(e),
         NEW d, d = [p EXCEPT !.e = e]
  PROVE  PumpFine(d) /\ d.e = e /\ d.answers = p.answers /\ d.mark = p.mark
<1>1. p \in PumpType /\ EngineInv(p, host.last)
  BY PumpGives
<1>2. d \in PumpType /\ d.e = e /\ d.answers = p.answers /\ d.mark = p.mark /\ d.toRunner = p.toRunner
  BY <1>1 DEF PumpType
<1>3. EngineInv(d, host.last)
  BY <1>1, <1>2 DEF EngineInv, WorkOK
<1> QED  BY <1>2, <1>3 DEF PumpFine

(* A challenge that is at hand gets new fields but is neither granted nor  *)
(* dropped.                                                                *)
LEMMA SameGrant ==
  ASSUME NEW e \in EngineType, e.work # NoEngineWork, WorkOK(e), NEW w \in EngineWorkType, w.nonce = e.work.nonce,
         w.granted = e.work.granted, NEW d, d = [e EXCEPT !.work = w]
  PROVE  d \in EngineType /\ d.work = w /\ d.nonce = e.nonce /\ GrantedBy(d) = GrantedBy(e) /\ w # NoEngineWork
<1>1. d \in EngineType /\ d.work = w /\ d.nonce = e.nonce
  BY DEF EngineType
<1>2. w.nonce # 0
  BY NoncesAre DEF WorkOK
<1>3. w # NoEngineWork
  BY <1>2, EngineWorkByNonce
<1> QED  BY <1>1, <1>3 DEF GrantedBy

(* What the drain of the socket leaves.                                    *)
Drained(e, p) ==
  /\ PumpFine(p) /\ p.answers = <<>> /\ p.mark = NoCuts
  /\ e.nonce <= p.e.nonce /\ p.e.nonce <= runner.sequence
  /\ GrantedBy(p.e) = GrantedBy(e) /\ (Held(p.e) => Held(e))

(* What the runner may tell the Engine.                                    *)
TakeOK(m) == m.kind = "Begin" => m.nonce \in Nonces /\ m.nonce <= runner.sequence

(* Take: a packet of the runner neither grants nor answers anything.       *)
LEMMA TakeDrained ==
  ASSUME NEW e, e.nonce \in Nat, runner.sequence \in Nat, runner.sequence <= e.nonce + 1,
         NEW p, Drained(e, p), NEW m \in ToEngine, TakeOK(m), NEW expired
  PROVE  Drained(e, Take(p, m, expired))
<1> DEFINE T == Take(p, m, expired)
<1>1. /\ p \in PumpType /\ p.e \in EngineType /\ p.e.work \in EngineWorkType /\ EngineInv(p, host.last)
      /\ p.e.nonce \in Nat /\ PumpFine(p) /\ WorkOK(p.e)
  BY PumpGives DEF Drained, EngineInv, WorkOK
<1>2. m.kind \in {"Install", "Begin", "Observed", "Resume"} /\ m.nonce \in Nat /\ m.generation \in Nat /\ m.cuts \in Cuts
  BY DEF ToEngine, PacketOf
<1>3. ASSUME NEW f \in EngineType, f.work = p.e.work, f.nonce = p.e.nonce, NEW d, d = [p EXCEPT !.e = f]
      PROVE  Drained(e, d) /\ PumpFine(d) /\ d.e = f
  <2>1. WorkOK(f) /\ GrantedBy(f) = GrantedBy(p.e) /\ (Held(f) => Held(p.e))
    BY <1>1, <1>3 DEF WorkOK, GrantedBy, Held
  <2>2. PumpFine(d) /\ d.e = f /\ d.answers = p.answers /\ d.mark = p.mark
    BY <1>1, <1>3, <2>1, EngineKeeps
  <2> QED  BY <1>3, <2>1, <2>2 DEF Drained
<1>4. CASE p.e.thrown
  BY <1>4 DEF Take
<1>5. CASE ~p.e.thrown /\ ~Admits(p.e, m, expired)
  <2> DEFINE f == [p.e EXCEPT !.thrown = TRUE]
  <2>1. f \in EngineType /\ f.work = p.e.work /\ f.nonce = p.e.nonce
    BY <1>1 DEF EngineType
  <2>2. T = [p EXCEPT !.e = f]
    BY <1>1, <1>5 DEF Take, EngineThrows, PumpType
  <2> HIDE DEF f, T
  <2>3. Drained(e, T)
    BY <1>3, <2>1, <2>2
  <2> QED  BY <2>3 DEF T
<1> DEFINE goes == ~p.e.thrown /\ Admits(p.e, m, expired)
<1>6. CASE goes /\ m.kind = "Install"
  <2> DEFINE f == [p.e EXCEPT !.installed = TRUE]
             d == [p EXCEPT !.e = f]
             k == Packet("Capability", 0, 0, NoCuts)
  <2>1. f \in EngineType /\ f.work = p.e.work /\ f.nonce = p.e.nonce
    BY <1>1 DEF EngineType
  <2>2. T = EngineSends(d, k)
    BY <1>1, <1>6 DEF Take, PumpType
  <2>3. k \in ToRunner /\ k.kind = "Capability"
    BY DEF Packet, ToRunner, PacketOf, NoCuts, Cuts
  <2> HIDE DEF f, k, T
  <2>4. Drained(e, d)
    BY <1>3, <2>1
  <2> HIDE DEF d
  <2>5. PumpFine(T) /\ T.e = d.e /\ T.answers = d.answers /\ T.mark = d.mark
    BY <2>2, <2>3, <2>4, EngineSendsKeeps DEF Drained
  <2>6. Drained(e, T)
    BY <2>4, <2>5 DEF Drained
  <2> QED  BY <2>6 DEF T
<1>7. CASE goes /\ m.kind = "Begin"
  <2> DEFINE w == [NoEngineWork EXCEPT !.nonce = m.nonce, !.generation = m.generation]
             f == [p.e EXCEPT !.nonce = m.nonce, !.work = w]
  <2>1. p.e.work = NoEngineWork /\ m.nonce > p.e.nonce /\ m.nonce \in Nonces /\ m.nonce <= runner.sequence
    BY <1>7 DEF Admits, TakeOK
  <2>2. T = [p EXCEPT !.e = f]
    BY <1>1, <1>7 DEF Take, PumpType
  <2>3. w \in EngineWorkType /\ w.nonce = m.nonce /\ ~w.granted /\ ~w.command /\ w.cuts = NoCuts
    BY <1>2 DEF EngineWorkType, NoEngineWork, NoCuts, Cuts
  <2>4. w # NoEngineWork
    BY <2>1, <2>3, NoncesAre, EngineWorkByNonce
  <2> HIDE DEF w
  <2>5. f \in EngineType /\ f.work = w /\ f.nonce = m.nonce
    BY <1>1, <1>2, <2>3 DEF EngineType
  <2> HIDE DEF f, T
  <2>6. m.nonce = p.e.nonce + 1 /\ e.nonce <= m.nonce
    <3>1. e.nonce \in Nat /\ p.e.nonce \in Nat /\ m.nonce \in Nat /\ runner.sequence \in Nat
      BY <1>1, <1>2
    <3>2. e.nonce <= p.e.nonce /\ p.e.nonce < m.nonce /\ m.nonce <= runner.sequence
      BY <1>1, <1>2, <2>1 DEF Drained
    <3>3. runner.sequence <= e.nonce + 1
      OBVIOUS
    <3> QED  BY ONLY <3>1, <3>2, <3>3
  <2>7. GrantedBy(f) = GrantedBy(p.e)
    <3>1. \A n \in Nonces : n \in Nat /\ (n < m.nonce <=> (n < p.e.nonce \/ n = p.e.nonce))
      BY <1>1, <1>2, <2>6, NoncesAre
    <3> QED  BY <2>1, <2>3, <2>4, <2>5, <3>1 DEF GrantedBy
  <2>8. WorkOK(f) /\ ~Held(f)
    BY <2>1, <2>3, <2>5 DEF WorkOK, Held
  <2>9. PumpFine(T) /\ T.e = f /\ T.answers = p.answers /\ T.mark = p.mark
    BY <1>1, <2>2, <2>5, <2>7, <2>8, EngineKeeps
  <2>10. Drained(e, T)
    BY <2>1, <2>5, <2>6, <2>7, <2>8, <2>9 DEF Drained
  <2> QED  BY <2>10 DEF T
<1>8. CASE goes /\ m.kind \in {"Observed", "Resume"}
  <2> DEFINE w == IF m.kind = "Observed" THEN [p.e.work EXCEPT !.observed = TRUE]
                  ELSE [p.e.work EXCEPT !.resume = m.generation]
             f == [p.e EXCEPT !.work = w]
  <2>1. p.e.work # NoEngineWork
    <3>1. CASE m.kind = "Observed"
      <4>1. p.e.work.cuts # NoCuts
        BY <1>8, <3>1 DEF Admits
      <4> QED  BY <4>1 DEF NoEngineWork
    <3>2. CASE m.kind = "Resume"
      <4>1. p.e.work.granted
        BY <1>8, <3>2 DEF Admits
      <4> QED  BY <4>1 DEF NoEngineWork
    <3> QED  BY <1>8, <3>1, <3>2
  <2>2. T = [p EXCEPT !.e = f]
    BY <1>1, <1>8 DEF Take, PumpType, EngineType
  <2>3. /\ w \in EngineWorkType /\ w.nonce = p.e.work.nonce /\ w.granted = p.e.work.granted
        /\ w.command = p.e.work.command /\ w.cuts = p.e.work.cuts /\ w.refused = p.e.work.refused
    BY <1>1, <1>2 DEF EngineWorkType
  <2> HIDE DEF w
  <2>4. f \in EngineType /\ f.work = w /\ f.nonce = p.e.nonce /\ GrantedBy(f) = GrantedBy(p.e) /\ w # NoEngineWork
    BY <1>1, <2>1, <2>3, SameGrant
  <2> HIDE DEF f, T
  <2>5. WorkOK(f) /\ (Held(f) => Held(p.e))
    BY <1>1, <2>1, <2>3, <2>4 DEF WorkOK, Held
  <2>6. PumpFine(T) /\ T.e = f /\ T.answers = p.answers /\ T.mark = p.mark
    BY <1>1, <2>2, <2>4, <2>5, EngineKeeps
  <2>7. Drained(e, T)
    BY <2>4, <2>5, <2>6 DEF Drained
  <2> QED  BY <2>7 DEF T
<1> QED  BY <1>2, <1>4, <1>5, <1>6, <1>7, <1>8

(* What the whole pump leaves: an answer ends a barrier that was held, and *)
(* only a held one is granted; a watermark is asked for when the Engine is *)
(* quiet.                                                                  *)
Settled(e, p, ready, shown) ==
  /\ PumpFine(p) /\ e.nonce <= p.e.nonce /\ p.e.nonce <= runner.sequence
  /\ GrantedBy(e) \subseteq GrantedBy(p.e) /\ (Held(p.e) => Held(e))
  /\ \/ p.answers = <<>> /\ GrantedBy(p.e) = GrantedBy(e)
     \/ p.answers = <<TRUE>> /\ Held(e) /\ ~Held(p.e)
  /\ p.mark # NoCuts =>
       ready /\ Held(e) /\ p.mark.nonce \in Nonces /\ p.mark.nonce <= host.last /\ p.mark.writer = shown

(* A drain that leads to nothing.                                          *)
LEMMA DrainedSettled ==
  ASSUME NEW e, NEW p, Drained(e, p), NEW ready, NEW shown
  PROVE  Settled(e, p, ready, shown)
BY DEF Drained, Settled

(* PostAcceptedWork only sets a flag.                                      *)
LEMMA PostSettled ==
  ASSUME NEW e, NEW p, NEW ready, NEW shown, Settled(e, p, ready, shown)
  PROVE  Settled(e, PostAcceptedWork(p), ready, shown)
<1> DEFINE f == [p.e EXCEPT !.posted = TRUE]
           d == PostAcceptedWork(p)
<1>1. p \in PumpType /\ p.e \in EngineType /\ PumpFine(p) /\ WorkOK(p.e)
  BY PumpGives DEF Settled, EngineInv, WorkOK
<1>2. f \in EngineType /\ f.work = p.e.work /\ f.nonce = p.e.nonce
  BY <1>1 DEF EngineType
<1>3. d = [p EXCEPT !.e = f]
  BY <1>1 DEF PostAcceptedWork, PumpType
<1> HIDE DEF f, d
<1>4. WorkOK(f) /\ GrantedBy(f) = GrantedBy(p.e) /\ (Held(f) <=> Held(p.e))
  BY <1>1, <1>2 DEF WorkOK, GrantedBy, Held
<1>5. PumpFine(d) /\ d.e = f /\ d.answers = p.answers /\ d.mark = p.mark
  BY <1>1, <1>2, <1>3, <1>4, EngineKeeps
<1>6. Settled(e, d, ready, shown)
  BY <1>2, <1>4, <1>5 DEF Settled
<1> QED  BY <1>6 DEF d

(* The first answer of a pump.                                             *)
LEMMA AnswerIs ==
  ASSUME NEW p \in PumpType, p.answers = <<>>, NEW ok \in BOOLEAN
  PROVE  /\ Answer(p, ok).answers = <<ok>> /\ Answer(p, ok) \in PumpType /\ Answer(p, ok).e = p.e
         /\ Answer(p, ok).mark = p.mark /\ Answer(p, ok).toRunner = p.toRunner
<1>1. Append(p.answers, ok) = <<ok>>
  OBVIOUS
<1>2. <<ok>> \in Seq(BOOLEAN)
  OBVIOUS
<1>3. Answer(p, ok) = [p EXCEPT !.answers = <<ok>>]
  BY <1>1 DEF Answer, PumpType
<1> QED  BY <1>2, <1>3 DEF PumpType

(* RefuseWork answers the barrier command it has, and grants nothing.      *)
LEMMA RefuseSettled ==
  ASSUME NEW e, NEW p, NEW ready, NEW shown, Drained(e, p), p.e.work # NoEngineWork, ~p.e.work.granted, ~p.e.work.refused
  PROVE  Settled(e, RefuseWork(p), ready, shown)
<1> DEFINE w == [p.e.work EXCEPT !.refused = TRUE]
           f == [p.e EXCEPT !.work = w]
           a == [p EXCEPT !.e = f]
           m == Packet("Unsupported", p.e.work.nonce, 0, NoCuts)
           b == EngineSends(a, m)
           c == Answer(b, TRUE)
           d == RefuseWork(p)
<1>1. /\ p \in PumpType /\ p.e \in EngineType /\ p.e.work \in EngineWorkType /\ PumpFine(p) /\ WorkOK(p.e)
      /\ p.e.work.nonce \in Nat
  BY PumpGives DEF Drained, EngineInv, WorkOK
<1>2. p.e.work.nonce \in Nonces /\ p.e.work.nonce # 0
  BY <1>1, NoncesAre DEF WorkOK
<1>3. d = IF p.e.work.command THEN c ELSE b
  BY <1>1 DEF RefuseWork, PumpType, EngineType
<1>4. /\ w \in EngineWorkType /\ w.nonce = p.e.work.nonce /\ w.granted = p.e.work.granted
      /\ w.command = p.e.work.command /\ w.cuts = p.e.work.cuts /\ w.refused
  BY <1>1 DEF EngineWorkType
<1> HIDE DEF w
<1>5. f \in EngineType /\ f.work = w /\ f.nonce = p.e.nonce /\ GrantedBy(f) = GrantedBy(p.e) /\ w # NoEngineWork
  BY <1>1, <1>4, SameGrant
<1> HIDE DEF f
<1>6. WorkOK(f) /\ ~Held(f)
  BY <1>1, <1>4, <1>5 DEF WorkOK, Held
<1>7. PumpFine(a) /\ a.e = f /\ a.answers = p.answers /\ a.mark = p.mark
  BY <1>1, <1>5, <1>6, EngineKeeps
<1>8. m \in ToRunner /\ m.kind = "Unsupported" /\ m.nonce # 0
  BY <1>1, <1>2 DEF Packet, ToRunner, PacketOf, NoCuts, Cuts
<1> HIDE DEF a, m
<1>9. PumpFine(b) /\ b.e = a.e /\ b.answers = a.answers /\ b.mark = a.mark
  BY <1>7, <1>8, EngineSendsKeeps
<1> HIDE DEF b
<1>10. Settled(e, b, ready, shown)
  BY <1>5, <1>6, <1>7, <1>9 DEF Drained, Settled
<1>11. CASE p.e.work.command
  <2>1. b \in PumpType /\ b.answers = <<>> /\ EngineInv(b, host.last)
    BY <1>7, <1>9, PumpGives DEF Drained
  <2>2. c.answers = <<TRUE>> /\ c \in PumpType /\ c.e = b.e /\ c.mark = b.mark /\ c.toRunner = b.toRunner
    BY <2>1, AnswerIs
  <2> HIDE DEF c
  <2>3. PumpFine(c)
    BY <2>1, <2>2 DEF PumpFine, EngineInv
  <2>4. Held(e) /\ ~Held(c.e)
    BY <1>6, <1>7, <1>9, <1>11, <2>2 DEF Drained, Held
  <2> QED  BY <1>3, <1>10, <1>11, <2>2, <2>3, <2>4 DEF Settled
<1> QED  BY <1>3, <1>10, <1>11

(* ResumeBorrow drops a borrow that was granted.                           *)
LEMMA ResumeSettled ==
  ASSUME NEW e, NEW p, NEW ready, NEW shown, Drained(e, p), p.e.work # NoEngineWork, p.e.work.granted
  PROVE  Settled(e, ResumeBorrow(p), ready, shown)
<1> DEFINE w == p.e.work
           f == [p.e EXCEPT !.generation = w.resume, !.work = NoEngineWork]
           a == [p EXCEPT !.e = f]
           m == Packet("Resumed", w.nonce, w.resume, NoCuts)
           d == ResumeBorrow(p)
<1>1. p \in PumpType /\ p.e \in EngineType /\ w \in EngineWorkType /\ PumpFine(p) /\ WorkOK(p.e)
  BY PumpGives DEF Drained, EngineInv, WorkOK
<1>2. d = EngineSends(a, m)
  BY <1>1 DEF ResumeBorrow, PumpType, EngineType
<1>3. NoEngineWork \in EngineWorkType /\ w.resume \in Nat /\ w.nonce \in Nat
  BY <1>1 DEF EngineWorkType, NoEngineWork, NoCuts, Cuts
<1>4. f \in EngineType /\ f.work = NoEngineWork /\ f.nonce = p.e.nonce
  BY <1>1, <1>3 DEF EngineType
<1> HIDE DEF f
<1>5. WorkOK(f) /\ ~Held(f) /\ GrantedBy(f) = GrantedBy(p.e)
  BY <1>1, <1>4 DEF WorkOK, Held, GrantedBy, NoEngineWork
<1>6. PumpFine(a) /\ a.e = f /\ a.answers = p.answers /\ a.mark = p.mark
  BY <1>1, <1>4, <1>5, EngineKeeps
<1>7. m \in ToRunner /\ m.kind = "Resumed"
  BY <1>3 DEF Packet, ToRunner, PacketOf, NoCuts, Cuts
<1> HIDE DEF a, m, d
<1>8. PumpFine(d) /\ d.e = a.e /\ d.answers = a.answers /\ d.mark = a.mark
  BY <1>2, <1>6, <1>7, EngineSendsKeeps
<1>9. Settled(e, d, ready, shown)
  BY <1>4, <1>5, <1>6, <1>8 DEF Drained, Settled
<1> QED  BY <1>9 DEF d

(* The cuts of a challenge are those of its nonce; only a held barrier     *)
(* asks for a watermark.                                                   *)
LEMMA CutSettled ==
  ASSUME NEW e, NEW p, NEW ready, NEW shown \in Nat, Drained(e, p), Held(p.e), p.e.work # NoEngineWork, ready
  PROVE  /\ Settled(e, IssueCut(p, shown), ready, shown) /\ IssueCut(p, shown).answers = <<>>
         /\ IssueCut(p, shown).e.work.cuts.nonce = p.e.work.nonce /\ Held(IssueCut(p, shown).e)
<1> DEFINE cuts == [nonce |-> p.e.work.nonce, reader |-> p.e.work.reader, writer |-> shown]
           w == [p.e.work EXCEPT !.cuts = cuts]
           f == [p.e EXCEPT !.work = w]
           a == [p EXCEPT !.e = f]
           b == [a EXCEPT !.mark = cuts]
           m == Packet("Cut", cuts.nonce, 0, cuts)
           d == IssueCut(p, shown)
<1>1. /\ p \in PumpType /\ p.e \in EngineType /\ p.e.work \in EngineWorkType /\ PumpFine(p) /\ WorkOK(p.e)
      /\ p.e.work.nonce \in Nat
  BY PumpGives DEF Drained, EngineInv, WorkOK
<1>2. p.e.work.nonce \in Nonces /\ p.e.work.nonce # 0 /\ p.e.work.nonce <= host.last
  BY <1>1, NoncesAre DEF WorkOK, Held
<1>3. d = EngineSends(b, m)
  BY <1>1 DEF IssueCut, PumpType, EngineType, EngineWorkType
<1>4. cuts \in Cuts /\ cuts.nonce = p.e.work.nonce /\ cuts.writer = shown
  BY <1>1 DEF Cuts, EngineWorkType
<1> HIDE DEF cuts
<1>5. /\ w \in EngineWorkType /\ w.nonce = p.e.work.nonce /\ w.granted = p.e.work.granted
      /\ w.command = p.e.work.command /\ w.cuts = cuts /\ w.refused = p.e.work.refused
  BY <1>1, <1>4 DEF EngineWorkType
<1> HIDE DEF w
<1>6. f \in EngineType /\ f.work = w /\ f.nonce = p.e.nonce /\ GrantedBy(f) = GrantedBy(p.e) /\ w # NoEngineWork
  BY <1>1, <1>5, SameGrant
<1> HIDE DEF f
<1>7. WorkOK(f) /\ Held(f)
  BY <1>1, <1>2, <1>4, <1>5, <1>6 DEF WorkOK, Held
<1>8. PumpFine(a) /\ a.e = f /\ a.answers = p.answers /\ a.mark = p.mark
  BY <1>1, <1>6, <1>7, EngineKeeps
<1> HIDE DEF a
<1>9. a \in PumpType /\ EngineInv(a, host.last)
  BY <1>8, PumpGives
<1>10. b \in PumpType /\ b.e = f /\ b.answers = p.answers /\ b.mark = cuts /\ b.toRunner = a.toRunner
  BY <1>4, <1>8, <1>9 DEF PumpType
<1>11. m \in ToRunner /\ m.kind = "Cut" /\ m.nonce # 0 /\ m.cuts.nonce = m.nonce
  BY <1>1, <1>2, <1>4 DEF Packet, ToRunner, PacketOf
<1> HIDE DEF b, m
<1>12. PumpFine(b)
  BY <1>8, <1>9, <1>10 DEF PumpFine, EngineInv
<1> HIDE DEF d
<1>13. PumpFine(d) /\ d.e = b.e /\ d.answers = b.answers /\ d.mark = b.mark
  BY <1>3, <1>11, <1>12, EngineSendsKeeps
<1>14. Settled(e, d, ready, shown)
  BY <1>2, <1>4, <1>6, <1>7, <1>10, <1>13 DEF Drained, Settled
<1>15. d.answers = <<>> /\ d.e.work.cuts.nonce = p.e.work.nonce /\ Held(d.e)
  BY <1>4, <1>5, <1>6, <1>7, <1>10, <1>13 DEF Drained
<1> QED  BY <1>14, <1>15 DEF d

(* The grant: the barrier is answered and no longer held.                  *)
LEMMA GrantSettled ==
  ASSUME NEW e, NEW p, NEW ready, NEW shown, Settled(e, p, ready, shown), Held(p.e), p.answers = <<>>,
         p.e.work # NoEngineWork, p.e.work.cuts.nonce = p.e.work.nonce
  PROVE  Settled(e, GrantWork(p), ready, shown)
<1> DEFINE w == [p.e.work EXCEPT !.granted = TRUE]
           f == [p.e EXCEPT !.work = w]
           a == [p EXCEPT !.e = f]
           m == Packet("Acknowledged", p.e.work.nonce, 0, p.e.work.cuts)
           b == EngineSends(a, m)
           c == Answer(b, TRUE)
           d == GrantWork(p)
<1>1. /\ p \in PumpType /\ p.e \in EngineType /\ p.e.work \in EngineWorkType /\ PumpFine(p) /\ WorkOK(p.e)
      /\ p.e.work.nonce \in Nat /\ p.e.work.cuts \in Cuts
  BY PumpGives DEF Settled, EngineInv, WorkOK
<1>2. p.e.work.nonce \in Nonces /\ p.e.work.nonce = p.e.nonce /\ p.e.work.nonce # 0
  BY <1>1, NoncesAre DEF WorkOK
<1>3. d = c
  BY <1>1 DEF GrantWork, PumpType, EngineType
<1>4. /\ w \in EngineWorkType /\ w.nonce = p.e.work.nonce /\ w.granted
      /\ w.command = p.e.work.command /\ w.cuts = p.e.work.cuts
  BY <1>1 DEF EngineWorkType
<1> HIDE DEF w
<1>5. f \in EngineType /\ f.work = w /\ f.nonce = p.e.nonce
  BY <1>1, <1>4 DEF EngineType
<1> HIDE DEF f
<1>6. WorkOK(f) /\ ~Held(f)
  BY <1>1, <1>2, <1>4, <1>5 DEF WorkOK, Held
<1>7. GrantedBy(p.e) \subseteq GrantedBy(f) /\ p.e.work.nonce \in GrantedBy(f)
  BY <1>2, <1>4, <1>5 DEF GrantedBy
<1>8. PumpFine(a) /\ a.e = f /\ a.answers = p.answers /\ a.mark = p.mark
  BY <1>1, <1>5, <1>6, <1>7, EngineKeeps
<1>9. m \in ToRunner /\ m.kind = "Acknowledged" /\ m.cuts.nonce = p.e.work.nonce
  BY <1>1 DEF Packet, ToRunner, PacketOf
<1> HIDE DEF a, m
<1>10. PumpFine(b) /\ b.e = a.e /\ b.answers = a.answers /\ b.mark = a.mark
  BY <1>7, <1>8, <1>9, EngineSendsKeeps
<1> HIDE DEF b
<1>11. b \in PumpType /\ b.answers = <<>> /\ EngineInv(b, host.last)
  BY <1>8, <1>10, PumpGives
<1>12. c.answers = <<TRUE>> /\ c \in PumpType /\ c.e = b.e /\ c.mark = b.mark /\ c.toRunner = b.toRunner
  BY <1>11, AnswerIs
<1> HIDE DEF c
<1>13. PumpFine(c)
  BY <1>11, <1>12 DEF PumpFine, EngineInv
<1>14. GrantedBy(e) \subseteq GrantedBy(f) /\ Held(e)
  BY <1>7 DEF Settled
<1>15. c.e = f /\ c.mark = p.mark /\ f.nonce = p.e.nonce
  BY <1>5, <1>8, <1>10, <1>12
<1>16. Settled(e, c, ready, shown)
  BY <1>6, <1>12, <1>13, <1>14, <1>15 DEF Settled
<1> QED  BY <1>3, <1>16 DEF d

(* The end of a pump, whatever it finds.                                   *)
LEMMA SettleSettled ==
  ASSUME NEW e, NEW p, Drained(e, p), NEW expired, NEW ready \in BOOLEAN, NEW shown \in Nat, NEW written
  PROVE  Settled(e, Settle(p, expired, ready, shown, written), ready, shown)
<1> DEFINE w == p.e.work
           cut == IF w.cuts = NoCuts THEN IssueCut(p, shown) ELSE p
           d == Settle(p, expired, ready, shown, written)
<1>1. Settled(e, p, ready, shown) /\ PumpFine(p) /\ WorkOK(p.e) /\ p.answers = <<>>
  BY DrainedSettled, PumpGives DEF Drained, EngineInv, WorkOK
<1>2. \/ d = p \/ d = PostAcceptedWork(p)
      \/ d = ResumeBorrow(p) /\ w # NoEngineWork /\ w.granted
      \/ d = RefuseWork(p) /\ w # NoEngineWork /\ ~w.granted /\ ~w.refused
      \/ /\ w # NoEngineWork /\ Held(p.e) /\ ready
         /\ d \in {cut, PostAcceptedWork(cut), GrantWork(cut)}
  BY DEF Settle, Held
<1>3. ASSUME w # NoEngineWork, Held(p.e), ready
      PROVE  Settled(e, cut, ready, shown) /\ Held(cut.e) /\ cut.answers = <<>> /\ cut.e.work.cuts.nonce = cut.e.work.nonce
  <2>1. CASE w.cuts = NoCuts
    <3>1. cut = IssueCut(p, shown)
      BY <2>1
    <3> HIDE DEF cut
    <3>2. Settled(e, cut, ready, shown) /\ cut.answers = <<>> /\ cut.e.work.cuts.nonce = w.nonce /\ Held(cut.e)
      BY <1>3, <3>1, CutSettled
    <3>3. WorkOK(cut.e) /\ cut.e.work \in EngineWorkType /\ cut.e.work.cuts.nonce # 0
      <4>1. w.nonce # 0
        BY <1>1, <1>3, NoncesAre DEF WorkOK
      <4> QED  BY <3>2, <4>1, PumpGives DEF Settled, EngineInv, WorkOK
    <3> QED  BY <3>2, <3>3 DEF WorkOK, NoCuts
  <2>2. CASE w.cuts # NoCuts
    BY <1>1, <1>3, <2>2 DEF WorkOK
  <2> QED  BY <2>1, <2>2
<1> HIDE DEF cut
<1>4. ASSUME w # NoEngineWork, Held(p.e), ready
      PROVE  Settled(e, PostAcceptedWork(cut), ready, shown) /\ Settled(e, GrantWork(cut), ready, shown)
  <2>1. cut.e.work.command
    BY <1>3, <1>4 DEF Held
  <2>1a. cut.e.work # NoEngineWork
    BY <2>1 DEF NoEngineWork
  <2> QED  BY <1>3, <1>4, <2>1a, PostSettled, GrantSettled
<1> HIDE DEF d
<1>5. Settled(e, d, ready, shown)
  BY <1>1, <1>2, <1>3, <1>4, PostSettled, ResumeSettled, RefuseSettled
<1> QED  BY <1>5 DEF d

(* A whole pump.                                                           *)
LEMMA PumpSettled ==
  ASSUME NEW e \in EngineType, NEW sent \in Seq(ToRunner), PumpFine(Pump(e, sent)), e.nonce <= runner.sequence,
         runner.sequence \in Nat, runner.sequence <= e.nonce + 1,
         NEW packets \in Seq({m \in ToEngine : TakeOK(m)}), NEW expired, NEW ready \in BOOLEAN, NEW shown \in Nat, NEW written
  PROVE  Settled(e, PumpAcceptedWork(e, sent, packets, expired, ready, shown, written), ready, shown)
<1> DEFINE P == {m \in ToEngine : TakeOK(m)}
           S == {p \in PumpType : Drained(e, p)}
           r == Pump(e, sent)
           d == PumpAcceptedWork(e, sent, packets, expired, ready, shown, written)
<1>1. e.nonce \in Nat
  BY DEF EngineType
<1>2. r \in S
  <2>1. r.e = e /\ r.answers = <<>> /\ r.mark = NoCuts /\ r \in PumpType
    BY DEF Pump, PumpFine
  <2> HIDE DEF r
  <2>2. e.nonce <= e.nonce
    BY <1>1
  <2>3. PumpFine(r)
    BY DEF r
  <2> QED  BY <2>1, <2>2, <2>3 DEF Drained
<1>3. \A x \in S : \A m \in P : Take(x, m, expired) \in S
  <2> SUFFICES ASSUME NEW x \in S, NEW m \in P PROVE Take(x, m, expired) \in S
    OBVIOUS
  <2>1. Drained(e, Take(x, m, expired))
    BY <1>1, TakeDrained
  <2> QED  BY <2>1 DEF Drained, PumpFine
<1>4. r = Pump(e, sent) /\ packets \in Seq(P)
  OBVIOUS
<1> HIDE DEF P, S, r
<1>5. \E after \in S : d = Settle(after, expired, ready, shown, written)
  BY <1>2, <1>3, <1>4, DrainKeeps
<1>6. PICK after \in S : d = Settle(after, expired, ready, shown, written)
  BY <1>5
<1>7. Drained(e, after)
  BY DEF S
<1> QED  BY <1>6, <1>7, SettleSettled

(* The command of a barrier: it is held, or answered at once.              *)
Accepted(e, p) ==
  /\ PumpFine(p) /\ e.nonce <= p.e.nonce /\ p.e.nonce <= runner.sequence
  /\ GrantedBy(p.e) = GrantedBy(e) /\ p.mark = NoCuts
  /\ \/ p.answers = <<>> /\ (~p.e.thrown => Held(p.e))
     \/ p.answers = <<FALSE>> /\ ~Held(p.e)

(* OriginalAcceptedWorkBarrier after its pump: the command is held, or     *)
(* answered with no.                                                       *)
LEMMA BarrierAccepted ==
  ASSUME NEW e, NEW p, NEW shown, Settled(e, p, FALSE, shown), ~Held(e), NEW ch \in Challenges,
         ch.nonce <= host.last, NEW at \in Nat
  PROVE  Accepted(e, AcceptBarrier(p, ch, at))
<1> DEFINE w == [p.e.work EXCEPT !.command = TRUE, !.reader = at]
           f == [p.e EXCEPT !.work = w]
           a == [p EXCEPT !.e = f]
           g == [f EXCEPT !.posted = TRUE]
           b == [p EXCEPT !.e = g]
           c == Answer(p, FALSE)
           d == AcceptBarrier(p, ch, at)
<1>1. /\ p \in PumpType /\ p.e \in EngineType /\ p.e.work \in EngineWorkType /\ PumpFine(p) /\ WorkOK(p.e)
      /\ p.e.work.nonce \in Nat /\ EngineInv(p, host.last)
  BY PumpGives DEF Settled, EngineInv, WorkOK
<1>2. p.answers = <<>> /\ GrantedBy(p.e) = GrantedBy(e) /\ p.mark = NoCuts /\ ~Held(p.e)
      /\ e.nonce <= p.e.nonce /\ p.e.nonce <= runner.sequence
  BY DEF Settled
<1>3. CASE p.e.thrown
  <2>1. d = p
    BY <1>3 DEF AcceptBarrier
  <2> HIDE DEF d
  <2>2. Accepted(e, d)
    BY <1>1, <1>2, <1>3, <2>1 DEF Accepted
  <2> QED  BY <2>2 DEF d
<1>4. CASE d = c
  <2>1. c.answers = <<FALSE>> /\ c \in PumpType /\ c.e = p.e /\ c.mark = p.mark /\ c.toRunner = p.toRunner
    BY <1>1, <1>2, AnswerIs
  <2> HIDE DEF c
  <2>2. PumpFine(c)
    BY <1>1, <2>1 DEF PumpFine, EngineInv
  <2> HIDE DEF d
  <2>3. Accepted(e, d)
    BY <1>2, <1>4, <2>1, <2>2 DEF Accepted
  <2> QED  BY <2>3 DEF d
<1>5. CASE ~p.e.thrown /\ d # c
  <2>1. /\ d = PostAcceptedWork([p EXCEPT !.e.work.command = TRUE, !.e.work.reader = at])
        /\ p.e.work # NoEngineWork /\ ~p.e.work.granted /\ ~p.e.work.refused /\ p.e.work.nonce = ch.nonce
    BY <1>5 DEF AcceptBarrier
  <2>2. d = b
    BY <1>1, <2>1, SMTT(40), ZenonT(60) DEF PostAcceptedWork, PumpType, EngineType, EngineWorkType
  <2>3. /\ w \in EngineWorkType /\ w.nonce = p.e.work.nonce /\ w.granted = p.e.work.granted
        /\ w.command /\ w.cuts = p.e.work.cuts /\ w.refused = p.e.work.refused
    BY <1>1 DEF EngineWorkType
  <2> HIDE DEF w
  <2>4. f \in EngineType /\ f.work = w /\ f.nonce = p.e.nonce /\ GrantedBy(f) = GrantedBy(p.e) /\ w # NoEngineWork
    BY <1>1, <2>1, <2>3, SameGrant
  <2> HIDE DEF f
  <2>5. g \in EngineType /\ g.work = w /\ g.nonce = p.e.nonce
    BY <2>4 DEF EngineType
  <2>6. GrantedBy(g) = GrantedBy(p.e)
    BY <2>4, <2>5 DEF GrantedBy
  <2> HIDE DEF g
  <2>7. WorkOK(g) /\ Held(g)
    BY <1>1, <2>1, <2>3, <2>5 DEF WorkOK, Held
  <2>8. PumpFine(b) /\ b.e = g /\ b.answers = p.answers /\ b.mark = p.mark
    BY <1>1, <2>5, <2>6, <2>7, EngineKeeps
  <2> HIDE DEF b, d
  <2>9. Accepted(e, d)
    BY <1>2, <2>2, <2>5, <2>6, <2>7, <2>8 DEF Accepted
  <2> QED  BY <2>9 DEF d
<1> QED  BY <1>3, <1>4, <1>5

-----------------------------------------------------------------------------
(* Pipes.                                                                  *)

(* Every element of s is one of t. *)
From(s, t) == \A i \in 1 .. Len(s) : \E j \in 1 .. Len(t) : s[i] = t[j]

(* A pipe that stays holds what it held.                                   *)
LEMMA FromStay ==
  ASSUME NEW s
  PROVE  From(s, s)
BY DEF From

(* A pipe without its head holds nothing new.                              *)
LEMMA FromTail ==
  ASSUME NEW T, NEW s \in Seq(T), s # <<>>
  PROVE  From(Tail(s), s) /\ Tail(s) \in Seq(T) /\ Head(s) \in T /\ \E i \in 1 .. Len(s) : Head(s) = s[i]
<1>1. /\ Tail(s) \in Seq(T) /\ Len(s) \in Nat \ {0} /\ Len(Tail(s)) = Len(s) - 1
      /\ Head(s) \in T /\ Head(s) = s[1]
      /\ \A i \in 1 .. Len(Tail(s)) : Tail(s)[i] = s[i + 1]
  BY PopFrontElements
<1>2. \A i \in 1 .. Len(Tail(s)) : i + 1 \in 1 .. Len(s)
  BY <1>1
<1>3. 1 \in 1 .. Len(s)
  BY <1>1
<1> QED  BY <1>1, <1>2, <1>3 DEF From

(* A turn takes the first packets and leaves the rest. *)
LEMMA BatchAndRest ==
  ASSUME NEW T, NEW s \in Seq(T), NEW n \in Nat
  PROVE  /\ Batch(n, s) \in Seq(T) /\ Rest(n, s) \in Seq(T)
         /\ From(Batch(n, s), s) /\ From(Rest(n, s), s)
<1> DEFINE k == AtMost(n, s)
           l == Len(s)
<1>1. l \in Nat /\ k \in 0 .. l
  BY DEF AtMost
<1>2. k \in Nat /\ k + 1 \in Nat /\ k <= l
  BY <1>1
<1>a. \A i \in 1 .. l : s[i] \in T
  OBVIOUS
<1> HIDE DEF k
<1>3. Len(SubSeq(s, 1, k)) = k /\ \A i \in 1 .. k : SubSeq(s, 1, k)[i] = s[i]
  BY <1>1, <1>2, SubSeqProperties
<1>4. SubSeq(s, 1, k) \in Seq(T)
  BY <1>1, <1>2, SubSeqProperties
<1>5. SubSeq(s, k + 1, l) \in Seq(T)
  BY <1>1, <1>2, SubSeqProperties
<1>6. /\ Len(SubSeq(s, k + 1, l)) = l - k
      /\ \A i \in 1 .. l - k : SubSeq(s, k + 1, l)[i] = s[k + i]
  BY <1>1, <1>2, SubSeqProperties
<1>7. \A i \in 1 .. l - k : k + i \in 1 .. l
  BY <1>1
<1>8. \A i \in 1 .. k : i \in 1 .. l
  BY <1>1
<1>9. From(SubSeq(s, 1, k), s)
  BY <1>3, <1>8 DEF From
<1>10. From(SubSeq(s, k + 1, l), s)
  BY <1>6, <1>7 DEF From
<1> QED  BY <1>4, <1>5, <1>9, <1>10 DEF Batch, Rest, k

(* Taking the first element of a pipe.                                     *)
TakenTo(s, t) ==
  /\ \A k : Some(t, k) => Some(s, k)
  /\ \A k : Some(s, k) => Some(t, k) \/ Head(s).kind = k
  /\ \A k : One(s, k) => One(t, k)
  /\ \A k : One(s, k) /\ Head(s).kind = k => ~Some(t, k)
  /\ \A k : Head(s).kind = k => Some(s, k)
  /\ \A c : In(s, c) <=> In(t, c) \/ Head(s).command = c
  /\ Len(s) \in Nat \ {0} /\ Len(t) = Len(s) - 1 /\ Head(s) = s[1]
  /\ \A i \in 1 .. Len(t) : t[i] = s[i + 1] /\ i + 1 \in 1 .. Len(s)
  /\ \A i \in 1 .. Len(s) : i = 1 \/ (i - 1 \in 1 .. Len(t) /\ t[i - 1] = s[i])

(* What is known of a pipe without its head.                               *)
LEMMA Taken ==
  ASSUME NEW T, NEW s \in Seq(T), s # <<>>, NEW t, t = Tail(s)
  PROVE  t \in Seq(T) /\ Head(s) \in T /\ TakenTo(s, t)
<1>1. /\ t \in Seq(T) /\ Len(s) \in Nat \ {0} /\ Len(t) = Len(s) - 1
      /\ Head(s) \in T /\ Head(s) = s[1]
      /\ \A i \in 1 .. Len(t) : t[i] = s[i + 1]
  BY PopFrontElements
<1>2. /\ \A i \in 1 .. Len(t) : i + 1 \in 1 .. Len(s) /\ i + 1 # 1
      /\ \A i \in 1 .. Len(s) : i = 1 \/ (i - 1 \in 1 .. Len(t) /\ t[i - 1] = s[i])
      /\ 1 \in 1 .. Len(s)
      /\ \A i, j \in 1 .. Len(t) : i + 1 = j + 1 => i = j
  BY <1>1
<1>3. \A k : Some(t, k) => Some(s, k)
  BY <1>1, <1>2 DEF Some
<1>4. ASSUME NEW k, Some(s, k) PROVE Some(t, k) \/ Head(s).kind = k
  <2>1. PICK i \in 1 .. Len(s) : s[i].kind = k
    BY <1>4 DEF Some
  <2>2. CASE i = 1
    BY <1>1, <2>1, <2>2
  <2>3. CASE i - 1 \in 1 .. Len(t) /\ t[i - 1] = s[i]
    BY <2>1, <2>3 DEF Some
  <2> QED  BY <1>2, <2>2, <2>3
<1>5. ASSUME NEW k, One(s, k) PROVE One(t, k)
  <2> SUFFICES ASSUME NEW i \in 1 .. Len(t), NEW j \in 1 .. Len(t), t[i].kind = k, t[j].kind = k PROVE i = j
    BY DEF One
  <2>1. s[i + 1].kind = k /\ s[j + 1].kind = k /\ i + 1 \in 1 .. Len(s) /\ j + 1 \in 1 .. Len(s)
    BY <1>1, <1>2
  <2>2. i + 1 = j + 1
    BY <1>5, <2>1 DEF One
  <2> QED  BY <1>2, <2>2
<1>6. \A k : One(s, k) /\ Head(s).kind = k => ~Some(t, k)
  BY <1>1, <1>2 DEF One, Some
<1>7. \A k : Head(s).kind = k => Some(s, k)
  BY <1>1, <1>2 DEF Some
<1>8. \A c : In(s, c) <=> In(t, c) \/ Head(s).command = c
  BY <1>1, <1>2 DEF In
<1> QED  BY <1>1, <1>2, <1>3, <1>4, <1>5, <1>6, <1>7, <1>8 DEF TakenTo

(* Adding an element at the end. *)
AddedTo(s, x, t) ==
  /\ \A k : Some(t, k) <=> Some(s, k) \/ x.kind = k
  /\ \A k : One(s, k) /\ (x.kind = k => ~Some(s, k)) => One(t, k)
  /\ \A c : In(t, c) <=> In(s, c) \/ x.command = c
  /\ Len(s) \in Nat /\ Len(t) = Len(s) + 1 /\ t[Len(s) + 1] = x /\ \A i \in 1 .. Len(s) : t[i] = s[i]
  /\ \A i \in 1 .. Len(t) : i \in 1 .. Len(s) \/ i = Len(s) + 1
  /\ \A i \in 1 .. Len(s) : i \in 1 .. Len(t) /\ i < Len(s) + 1
  /\ Len(s) + 1 \in 1 .. Len(t)

(* What is known of a pipe with one more element.                          *)
LEMMA Added ==
  ASSUME NEW T, NEW s \in Seq(T), NEW x \in T, NEW t, t = Append(s, x)
  PROVE  t \in Seq(T) /\ AddedTo(s, x, t)
<1>1. /\ t \in Seq(T) /\ Len(s) \in Nat /\ Len(t) = Len(s) + 1
      /\ \A i \in 1 .. Len(t) : t[i] = IF i <= Len(s) THEN s[i] ELSE x
  BY PushBackElements
<1>2. /\ \A i \in 1 .. Len(s) : i \in 1 .. Len(t) /\ i < Len(s) + 1
      /\ \A i \in 1 .. Len(t) : i \in 1 .. Len(s) \/ i = Len(s) + 1
      /\ Len(s) + 1 \in 1 .. Len(t)
  BY <1>1
<1>3. t[Len(s) + 1] = x /\ \A i \in 1 .. Len(s) : t[i] = s[i]
  BY <1>1, <1>2
<1>4. \A k : Some(t, k) <=> Some(s, k) \/ x.kind = k
  BY <1>2, <1>3 DEF Some
<1>5. \A k : One(s, k) /\ (x.kind = k => ~Some(s, k)) => One(t, k)
  BY <1>2, <1>3 DEF One, Some
<1>6. \A c : In(t, c) <=> In(s, c) \/ x.command = c
  BY <1>2, <1>3 DEF In
<1> QED  BY <1>1, <1>2, <1>3, <1>4, <1>5, <1>6 DEF AddedTo

(* Adding one at the front. *)
FrontedTo(s, x, t) ==
  /\ \A k : Some(t, k) <=> Some(s, k) \/ x.kind = k
  /\ \A k : One(s, k) /\ x.kind # k => One(t, k)
  /\ \A c : In(t, c) <=> In(s, c) \/ x.command = c
  /\ Len(s) \in Nat /\ Len(t) = Len(s) + 1 /\ t[1] = x /\ 1 \in 1 .. Len(t)
  /\ \A i \in 1 .. Len(t) : i = 1 \/ (i - 1 \in 1 .. Len(s) /\ t[i] = s[i - 1])
  /\ \A i \in 1 .. Len(s) : i + 1 \in 1 .. Len(t) /\ t[i + 1] = s[i]

(* What is known of a pipe with one more element in front.                 *)
LEMMA Fronted ==
  ASSUME NEW T, NEW s \in Seq(T), NEW x \in T, NEW t, t = <<x>> \o s
  PROVE  t \in Seq(T) /\ FrontedTo(s, x, t)
<1>1. /\ t \in Seq(T) /\ Len(s) \in Nat /\ Len(t) = Len(s) + 1
      /\ \A i \in 1 .. Len(t) : t[i] = IF i = 1 THEN x ELSE s[i - 1]
  BY PushFrontElements
<1>2. /\ \A i \in 1 .. Len(t) : i = 1 \/ (i - 1 \in 1 .. Len(s) /\ t[i] = s[i - 1])
      /\ \A i \in 1 .. Len(s) : i + 1 \in 1 .. Len(t) /\ t[i + 1] = s[i]
      /\ t[1] = x /\ 1 \in 1 .. Len(t)
  BY <1>1
<1>a. \A i, j \in 1 .. Len(t) : i - 1 = j - 1 => i = j
  BY <1>1
<1>3. \A k : Some(t, k) <=> Some(s, k) \/ x.kind = k
  BY <1>2 DEF Some
<1>4. \A k : One(s, k) /\ x.kind # k => One(t, k)
  BY <1>2, <1>a, SMTT(40) DEF One
<1>5. \A c : In(t, c) <=> In(s, c) \/ x.command = c
  BY <1>2 DEF In
<1> QED  BY <1>1, <1>2, <1>3, <1>4, <1>5 DEF FrontedTo

(* What a handler appends: one line, or nothing. *)
LEMMA AddedOne ==
  ASSUME NEW T, NEW s \in Seq(T), NEW x \in T, NEW f, DOMAIN f = {1}, f[1] = x, f = [i \in {1} |-> f[i]]
  PROVE  s \o f = Append(s, x)
<1>1. f = <<x>>
  OBVIOUS
<1>2. s \o <<x>> = Append(s, x)
  OBVIOUS
<1> QED  BY <1>1, <1>2

-----------------------------------------------------------------------------
(* What one process knows stays true while the others move on.             *)

(* The runner, while the others grant, settle and complete more.           *)
LEMMA RunnerGrows ==
  ASSUME NEW t \in TurnType, NEW u \in TurnType, u.r = t.r,
         From(u.toEngine, t.toEngine), From(u.toHost, t.toHost),
         NEW n1 \in Nat, NEW n2 \in Nat, NEW l1 \in Nat, NEW l2 \in Nat,
         NEW g1, NEW g2, NEW q1, NEW q2, NEW o1, NEW o2, RunnerInv(t, n1, l1, g1, q1, o1),
         n1 <= n2, n2 <= t.r.sequence, l1 <= l2, l2 <= t.r.sequence,
         g1 \subseteq g2, q1 \subseteq q2, o1 \subseteq o2
  PROVE  RunnerInv(u, n2, l2, g2, q2, o2)
<1>1. /\ CountInv(t.r) /\ ReceiptInv(t.r, g1, q1) /\ ResumeInv(t.r, o1)
      /\ IdleInv(t.r, t.toHost) /\ BeginInv(t.r, n1, l1) /\ SentInv(t, g1) /\ t.r.sequence \in Nat
  BY DEF RunnerInv, TurnType, RunnerType
<1>2. ReceiptInv(u.r, g2, q2)
  BY <1>1 DEF ReceiptInv
<1>3. ResumeInv(u.r, o2)
  BY <1>1 DEF ResumeInv
<1>4. IdleInv(u.r, u.toHost)
  BY <1>1 DEF IdleInv, From
<1>5. BeginInv(u.r, n2, l2)
  BY <1>1 DEF BeginInv
<1>6. SentInv(u, g2)
  BY <1>1, SMTT(40), ZenonT(60) DEF SentInv, From
<1> QED  BY <1>1, <1>2, <1>3, <1>4, <1>5, <1>6 DEF RunnerInv

(* The host, while the others grant, settle and complete more.             *)
LEMMA HostGrows ==
  ASSUME NEW c \in CallType, NEW d \in CallType, d.h = c.h, From(d.toRunner, c.toRunner),
         NEW g1, NEW g2, NEW q1, NEW q2, NEW o1, NEW o2, HostInv(c, g1, q1, o1),
         g1 \subseteq g2, q1 \subseteq q2, o1 \subseteq o2,
         c.h.pending.nonce \in g2 \ o2 => ~c.h.pending.raw
  PROVE  HostInv(d, g2, q2, o2)
<1>1. \A i \in 1 .. Len(d.toRunner) : \E j \in 1 .. Len(c.toRunner) : d.toRunner[i] = c.toRunner[j]
  BY DEF From
<1>2. \A i \in 1 .. Len(c.toRunner) :
          LET m == c.toRunner[i]
          IN (m.kind = "OBSERVED" => m.cuts.nonce \in q1) /\ (m.kind = "HOST_RESUMED" => m.nonce \in o1)
  BY DEF HostInv
<1>3. \A i \in 1 .. Len(d.toRunner) :
          LET m == d.toRunner[i]
          IN (m.kind = "OBSERVED" => m.cuts.nonce \in q2) /\ (m.kind = "HOST_RESUMED" => m.nonce \in o2)
  BY <1>1, <1>2
<1>4. \A n \in Nonces : c.h.entries[n].observed # NoCuts => n \in q2 /\ c.h.entries[n].observed.nonce = n
  BY DEF HostInv
<1> QED  BY <1>3, <1>4 DEF HostInv

(* The Engine, while it grants nothing and the others ask for more.        *)
LEMMA EngineGrows ==
  ASSUME NEW p \in PumpType, NEW q \in PumpType, q.e.work = p.e.work, q.e.nonce = p.e.nonce,
         From(q.toRunner, p.toRunner), NEW l1 \in Nat, NEW l2 \in Nat, EngineInv(p, l1), l1 <= l2
  PROVE  EngineInv(q, l2)
<1>1. GrantedBy(q.e) = GrantedBy(p.e)
  BY DEF GrantedBy
<1>2. p.e.work.nonce \in Nat
  BY DEF PumpType, EngineType, EngineWorkType
<1>3. \A i \in 1 .. Len(q.toRunner) : \E j \in 1 .. Len(p.toRunner) : q.toRunner[i] = p.toRunner[j]
  BY DEF From
<1>4. p.e.work.command => p.e.work.nonce <= l2
  BY <1>2 DEF EngineInv
<1>5. \A i \in 1 .. Len(p.toRunner) :
       LET m == p.toRunner[i]
       IN /\ m.kind = "Acknowledged" => m.cuts.nonce \in GrantedBy(p.e)
          /\ m.kind = "Cut" => m.cuts.nonce = m.nonce /\ m.nonce # 0
          /\ m.kind = "Unsupported" => m.nonce # 0
  BY DEF EngineInv
<1>6. \A i \in 1 .. Len(q.toRunner) :
       LET m == q.toRunner[i]
       IN /\ m.kind = "Acknowledged" => m.cuts.nonce \in GrantedBy(q.e)
          /\ m.kind = "Cut" => m.cuts.nonce = m.nonce /\ m.nonce # 0
          /\ m.kind = "Unsupported" => m.nonce # 0
  BY <1>1, <1>3, <1>5, SMTT(40)
<1> QED  BY <1>4, <1>6 DEF EngineInv

(* The records a state is read as. *)
LEMMA TurnIs ==
  ASSUME NEW r \in RunnerType, NEW a \in Seq(ToEngine), NEW b \in Seq(ToHost)
  PROVE  Turn(r, a, b) \in TurnType /\ Turn(r, a, b).r = r /\ Turn(r, a, b).toEngine = a /\ Turn(r, a, b).toHost = b
BY DEF Turn, TurnType

(* The record a call of the host starts from.                              *)
LEMMA CallIs ==
  ASSUME NEW h \in HostType, NEW a \in Seq(FromHostType)
  PROVE  /\ Call(h, a, <<>>) \in CallType /\ Call(h, a, <<>>).h = h /\ Call(h, a, <<>>).toRunner = a
         /\ Call(h, a, <<>>).barriers = <<>>
<1>1. <<>> \in Seq(Challenges)
  OBVIOUS
<1> QED  BY <1>1 DEF Call, CallType

(* The record a pump of the Engine starts from.                            *)
LEMMA PumpIs ==
  ASSUME NEW e \in EngineType, NEW a \in Seq(ToRunner)
  PROVE  Pump(e, a) \in PumpType /\ Pump(e, a).e = e /\ Pump(e, a).toRunner = a
<1>1. <<>> \in Seq(BOOLEAN) /\ NoCuts \in Cuts
  BY DEF NoCuts, Cuts
<1> QED  BY <1>1 DEF Pump, PumpType

AsTurn == Turn(runner, toEngine, toHost)
AsCall == Call(host, fromHost, <<>>)
AsPump == Pump(engine, toRunner)

(* The state, as the records the three processes thread.                   *)
LEMMA StateIs ==
  ASSUME TypeInv
  PROVE  /\ AsTurn \in TurnType /\ AsTurn.r = runner /\ AsTurn.toEngine = toEngine /\ AsTurn.toHost = toHost
         /\ AsCall \in CallType /\ AsCall.h = host /\ AsCall.toRunner = fromHost /\ AsCall.barriers = <<>>
         /\ AsPump \in PumpType /\ AsPump.e = engine /\ AsPump.toRunner = toRunner
         /\ runner \in RunnerType /\ host \in HostType /\ engine \in EngineType
         /\ engine.nonce \in Nat /\ host.last \in Nat /\ runner.sequence \in Nat
         /\ engine.work \in EngineWorkType
<1>1. runner \in RunnerType /\ host \in HostType /\ engine \in EngineType
  BY DEF TypeInv
<1>2. AsTurn \in TurnType /\ AsTurn.r = runner /\ AsTurn.toEngine = toEngine /\ AsTurn.toHost = toHost
  BY TurnIs DEF AsTurn, TypeInv
<1>3. AsCall \in CallType /\ AsCall.h = host /\ AsCall.toRunner = fromHost /\ AsCall.barriers = <<>>
  BY CallIs DEF AsCall, TypeInv
<1>4. AsPump \in PumpType /\ AsPump.e = engine /\ AsPump.toRunner = toRunner
  BY PumpIs DEF AsPump, TypeInv
<1>5. engine.nonce \in Nat /\ host.last \in Nat /\ runner.sequence \in Nat /\ engine.work \in EngineWorkType
  BY <1>1 DEF RunnerType, HostType, EngineType
<1> QED  BY <1>1, <1>2, <1>3, <1>4, <1>5

(* The invariant, process by process. *)
LEMMA FenceGives ==
  ASSUME FenceInv
  PROVE  RunnerFine(AsTurn) /\ HostFine(AsCall, Quiet) /\ PumpFine(AsPump)
<1>1. TypeInv /\ RunnerOK /\ HostOK /\ EngineOK
  BY DEF FenceInv
<1>2. RunnerFine(AsTurn)
  BY <1>1, StateIs DEF RunnerFine, RunnerOK, AsTurn
<1>3. HostFine(AsCall, Quiet)
  BY <1>1, StateIs DEF HostFine, HostOK, AsCall
<1>4. PumpFine(AsPump)
  BY <1>1, StateIs DEF PumpFine, EngineOK, AsPump
<1> QED  BY <1>2, <1>3, <1>4

(* The counters of the three processes are one apart at most.              *)
LEMMA CountsAgree ==
  ASSUME FenceInv
  PROVE  /\ engine.nonce <= runner.sequence /\ runner.sequence <= engine.nonce + 1
         /\ host.last <= runner.sequence /\ runner.sequence <= host.last + 1
         /\ engine.nonce \in Nat /\ host.last \in Nat /\ runner.sequence \in Nat
<1>1. RunnerFine(AsTurn) /\ TypeInv /\ AsTurn.r = runner
  BY FenceGives, StateIs DEF FenceInv
<1>2. BeginInv(runner, engine.nonce, host.last)
  BY <1>1, FineGives
<1> QED  BY <1>1, <1>2, StateIs DEF BeginInv

(* The pipes of the Engine move and the processes do not. *)
Still ==
  /\ runner' = runner /\ host' = host /\ before' = before /\ submitted' = submitted
  /\ toEngine' = toEngine /\ toRunner' = toRunner /\ toHost' = toHost /\ fromHost' = fromHost
  /\ settled' = settled /\ engine'.work = engine.work /\ engine'.nonce = engine.nonce

(* While the three processes stand still, so does what they rely on.       *)
LEMMA StillKeeps ==
  ASSUME FenceInv, TypeInv', Still, Good' = Good
  PROVE  RunnerOK' /\ HostOK' /\ EngineOK' /\ LoneInv' /\ GrantedBy(engine') = GrantedBy(engine)
<1>1. TypeInv /\ RunnerOK /\ HostOK /\ EngineOK /\ LoneInv
  BY DEF FenceInv
<1>2. GrantedBy(engine') = GrantedBy(engine) /\ Quiet' = Quiet
  BY DEF Still, GrantedBy, Quiet, QuietAt
<1>3. RunnerOK'
  BY <1>1, <1>2 DEF RunnerOK, Still
<1>4. HostOK'
  BY <1>1, <1>2 DEF HostOK, Still
<1>5. EngineOK'
  <2>1. AsPump \in PumpType /\ AsPump.e = engine /\ AsPump.toRunner = toRunner
    BY <1>1, StateIs
  <2>2. AsPump' \in PumpType /\ AsPump'.e = engine' /\ AsPump'.toRunner = toRunner
    <3>1. engine' \in EngineType /\ toRunner' \in Seq(ToRunner) /\ toRunner' = toRunner
      BY DEF TypeInv, Still
    <3> QED  BY <3>1, PumpIs DEF AsPump
  <2>3. host.last \in Nat /\ host.last <= host.last /\ host' = host
    BY <1>1, StateIs DEF Still
  <2>4. EngineInv(AsPump', host.last)
    BY <1>1, <2>1, <2>2, <2>3, FromStay, EngineGrows DEF Still, EngineOK, AsPump
  <2> QED  BY <2>3, <2>4 DEF EngineOK, AsPump
<1>6. LoneInv'
  BY <1>1 DEF LoneInv, Still
<1> QED  BY <1>2, <1>3, <1>4, <1>5, <1>6

-----------------------------------------------------------------------------
(* A turn of the runner.                                                   *)

Quietly == UNCHANGED <<host, stdin, stdout, engineVars, owned, stopped, history>>

(* A step of the runner that is a turn keeps the invariant.                *)
LEMMA RunnerStep ==
  ASSUME FenceInv, NEW u, RunnerFine(u), u.r.generation = 0 => runner.generation = 0,
         runner' = u.r, toEngine' = u.toEngine, toHost' = u.toHost,
         toRunner' \in Seq(ToRunner), From(toRunner', toRunner),
         fromHost' \in Seq(FromHostType), From(fromHost', fromHost), Quietly
  PROVE  FenceInv'
<1>1. /\ TypeInv /\ RunnerOK /\ HostOK /\ EngineOK /\ TokenInv /\ PlaceInv /\ MarkInv /\ ErrorInv /\ LoneInv
  BY DEF FenceInv
<1> USE DEF Quietly, engineVars, history
<1>2. u \in TurnType /\ u.r \in RunnerType /\ u.toEngine \in Seq(ToEngine) /\ u.toHost \in Seq(ToHost)
  BY FineGives DEF TurnType
<1>3. TypeInv'
  BY <1>1, <1>2 DEF TypeInv
<1>4. GrantedBy(engine)' = GrantedBy(engine) /\ Quiet' = Quiet /\ Good' = Good
  BY DEF GrantedBy, Quiet, QuietAt, Good
<1>5. RunnerOK'
  <2>1. RunnerInv(u, engine.nonce, host.last, GrantedBy(engine), Quiet, Good)
    BY DEF RunnerFine
  <2>2. Turn(runner', toEngine', toHost') = u
    BY <1>2 DEF Turn, TurnType
  <2> QED  BY <1>4, <2>1, <2>2 DEF RunnerOK
<1>6. HostOK'
  <2>1. AsCall \in CallType /\ AsCall.h = host /\ AsCall.toRunner = fromHost
    BY <1>1, StateIs
  <2>2. AsCall' \in CallType /\ AsCall'.h = host /\ AsCall'.toRunner = fromHost'
    <3>1. host \in HostType /\ host' = host
      BY <1>1 DEF TypeInv
    <3> QED  BY <3>1, CallIs DEF AsCall
  <2>3. host.pending.nonce \in GrantedBy(engine) \ Good => ~host.pending.raw
    BY <1>1, <2>1 DEF HostOK, HostInv, AsCall
  <2>4. HostInv(AsCall', GrantedBy(engine), Quiet, Good)
    BY <1>1, <2>1, <2>2, <2>3, HostGrows DEF HostOK, AsCall
  <2> QED  BY <1>4, <2>4 DEF HostOK, AsCall
<1>7. EngineOK'
  <2>1. AsPump \in PumpType /\ AsPump.e = engine /\ AsPump.toRunner = toRunner /\ host.last \in Nat
    BY <1>1, StateIs
  <2>2. AsPump' \in PumpType /\ AsPump'.e = engine /\ AsPump'.toRunner = toRunner'
    <3>1. engine \in EngineType /\ engine' = engine
      BY <1>1 DEF TypeInv
    <3> QED  BY <3>1, PumpIs DEF AsPump
  <2>3. host.last <= host.last
    BY <2>1
  <2>4. EngineInv(AsPump', host.last)
    BY <1>1, <2>1, <2>2, <2>3, EngineGrows DEF EngineOK, AsPump
  <2> QED  BY <2>4 DEF EngineOK, AsPump
<1>8. TokenInv'
  BY <1>1 DEF TokenInv, TokenAt, Held
<1>9. PlaceInv'
  BY <1>1 DEF PlaceInv, Placed
<1>10. MarkInv'
  BY <1>1 DEF MarkInv
<1>11. ErrorInv'
  BY <1>1, <1>4 DEF ErrorInv, Late
<1>12. LoneInv'
  BY <1>1 DEF LoneInv
<1> QED  BY <1>3, <1>5, <1>6, <1>7, <1>8, <1>9, <1>10, <1>11, <1>12 DEF FenceInv

(* What a turn of the runner starts from, and what the sockets hold.       *)
LEMMA RunnerReads ==
  ASSUME FenceInv
  PROVE  /\ RunnerFine(AsTurn) /\ AsTurn = Turn(runner, toEngine, toHost) /\ AsTurn.r = runner
         /\ Batch(RunnerBatch, toRunner) \in Seq(Receipts)
         /\ Rest(RunnerBatch, toRunner) \in Seq(ToRunner) /\ From(Rest(RunnerBatch, toRunner), toRunner)
         /\ toRunner \in Seq(ToRunner) /\ fromHost \in Seq(FromHostType)
         /\ alive \in BOOLEAN /\ (~alive) \in BOOLEAN /\ owned \in BOOLEAN /\ stopped \in BOOLEAN
<1>1. TypeInv /\ EngineOK /\ RunnerFine(AsTurn) /\ AsTurn.r = runner
  BY FenceGives, StateIs DEF FenceInv
<1>2. toRunner \in Seq(ToRunner) /\ fromHost \in Seq(FromHostType) /\ alive \in BOOLEAN /\ owned \in BOOLEAN /\ stopped \in BOOLEAN
  BY <1>1 DEF TypeInv
<1>3. RunnerBatch \in Nat
  BY RunnerWorkAssumption
<1>4. \A i \in 1 .. Len(toRunner) : toRunner[i] \in Receipts
  <2>1. AsPump.e = engine /\ AsPump.toRunner = toRunner
    BY <1>1, StateIs
  <2>2. \A i \in 1 .. Len(toRunner) : toRunner[i] \in ToRunner
    BY <1>2
  <2>3. EngineInv(AsPump, host.last)
    BY <1>1 DEF EngineOK, AsPump
  <2>4. \A i \in 1 .. Len(toRunner) : ReceiptOK(toRunner[i])
    BY <2>1, <2>3 DEF EngineInv, ReceiptOK
  <2> QED  BY <2>2, <2>4 DEF Receipts
<1>5. toRunner \in Seq(Receipts)
  <2>1. Len(toRunner) \in Nat /\ toRunner = [i \in 1 .. Len(toRunner) |-> toRunner[i]]
    BY <1>2
  <2> HIDE DEF Receipts
  <2> QED  BY <1>4, <2>1
<1>6. Batch(RunnerBatch, toRunner) \in Seq(Receipts)
  BY <1>3, <1>5, BatchAndRest
<1>7. Rest(RunnerBatch, toRunner) \in Seq(ToRunner) /\ From(Rest(RunnerBatch, toRunner), toRunner)
  BY <1>2, <1>3, BatchAndRest
<1>8. AsTurn = Turn(runner, toEngine, toHost)
  BY DEF AsTurn
<1> QED  BY ONLY <1>1, <1>2, <1>6, <1>7, <1>8

(* Tick in the state the runner is in.                                     *)
LEMMA TickedTurns ==
  ASSUME FenceInv, NEW t, RunnerFine(t)
  PROVE  Turns(t, Ticked(t))
<1>1. /\ Batch(RunnerBatch, toRunner) \in Seq(Receipts) /\ (~alive) \in BOOLEAN /\ owned \in BOOLEAN
  BY RunnerReads
<1> DEFINE b == Batch(RunnerBatch, toRunner)
           x == GenerationOf(t.r) \in past
           y == ~alive
<1>2. x \in BOOLEAN /\ y \in BOOLEAN /\ b \in Seq(Receipts)
  BY <1>1
<1>3. Ticked(t) = Tick(t, b, x, y, owned)
  BY DEF Ticked
<1> HIDE DEF b, x, y
<1> QED  BY <1>1, <1>2, <1>3, TickTurns

(* RunnerTick: the runner reads its receipts and goes on.                  *)
LEMMA RunnerTickKeeps ==
  ASSUME FenceInv, RunnerTick
  PROVE  FenceInv' /\ \E u : Turns(AsTurn, u) /\ runner' = u.r
<1> DEFINE u == Ticked(AsTurn)
<1>1. RunnerFine(AsTurn) /\ AsTurn = Turn(runner, toEngine, toHost) /\ AsTurn.r = runner
  BY RunnerReads
<1>2. Turns(AsTurn, u)
  BY <1>1, TickedTurns
<1>3. /\ runner' = u.r /\ toEngine' = u.toEngine /\ toHost' = u.toHost /\ fromHost' = fromHost /\ Quietly
      /\ toRunner' = Rest(RunnerBatch, toRunner)
  BY <1>1 DEF RunnerTick, RunnerActs, Quietly
<1> HIDE DEF u
<1>4. RunnerFine(u) /\ (u.r.generation = 0 => runner.generation = 0)
  BY <1>1, <1>2 DEF Turns, Moves
<1>5. FenceInv'
  BY <1>3, <1>4, RunnerReads, FromStay, RunnerStep
<1> QED  BY <1>2, <1>3, <1>5

(* RunnerBegin: the runner begins a fence, or asks whether it is idle.     *)
LEMMA RunnerBeginKeeps ==
  ASSUME FenceInv, NEW purpose, RunnerBegin(purpose)
  PROVE  FenceInv' /\ \E u : Turns(AsTurn, u) /\ runner' = u.r
<1>1. RunnerFine(AsTurn) /\ AsTurn = Turn(runner, toEngine, toHost) /\ AsTurn.r = runner /\ (~alive) \in BOOLEAN
  BY RunnerReads
<1>2. PICK v : /\ Turns(AsTurn, v)
               /\ RunnerActs(Ticked(v))
  <2>1. CASE MayBeginFence(runner, owned) /\ RunnerActs(Ticked(BeginFence(AsTurn, ~alive)))
    <3>1. Turns(AsTurn, BeginFence(AsTurn, ~alive))
      BY <1>1, <2>1, BeginFenceTurns
    <3> QED  BY <2>1, <3>1
  <2>2. CASE MayBeginIdle(runner) /\ RunnerActs(Ticked(BeginIdle(AsTurn, ~alive)))
    <3>1. Turns(AsTurn, BeginIdle(AsTurn, ~alive))
      BY <1>1, <2>2, BeginIdleTurns
    <3> QED  BY <2>2, <3>1
  <2> QED  BY <1>1, <2>1, <2>2 DEF RunnerBegin
<1> DEFINE u == Ticked(v)
<1>3. Turns(AsTurn, u)
  <2>1. Turns(v, u)
    BY <1>2, TickedTurns DEF Turns
  <2> QED  BY <1>2, <2>1, TurnsOn
<1>4. /\ runner' = u.r /\ toEngine' = u.toEngine /\ toHost' = u.toHost /\ fromHost' = fromHost /\ Quietly
      /\ toRunner' = Rest(RunnerBatch, toRunner)
  BY <1>2 DEF RunnerBegin, RunnerActs, Quietly
<1> HIDE DEF u
<1>5. RunnerFine(u) /\ (u.r.generation = 0 => runner.generation = 0)
  BY <1>1, <1>3 DEF Turns, Moves
<1>6. FenceInv'
  BY <1>4, <1>5, RunnerReads, FromStay, RunnerStep
<1> QED  BY <1>3, <1>4, <1>6

(* RunnerPacket: the runner reads a packet of the host, and ticks.         *)
LEMMA RunnerPacketKeeps ==
  ASSUME FenceInv, RunnerPacket
  PROVE  FenceInv' /\ \E u : Turns(AsTurn, u) /\ runner' = u.r
<1> DEFINE m == Head(fromHost)
           t == FromHost(AsTurn, m, RunnerExpired, ~alive, stopped)
           u == IF t.r.failed THEN t ELSE Ticked(t)
<1>1. /\ RunnerFine(AsTurn) /\ AsTurn = Turn(runner, toEngine, toHost) /\ AsTurn.r = runner
      /\ (~alive) \in BOOLEAN /\ stopped \in BOOLEAN /\ fromHost \in Seq(FromHostType)
      /\ toRunner \in Seq(ToRunner)
  BY RunnerReads
<1>2. /\ From(Tail(fromHost), fromHost) /\ Tail(fromHost) \in Seq(FromHostType) /\ m \in FromHostType
      /\ \E i \in 1 .. Len(fromHost) : m = fromHost[i]
  <2>1. fromHost # <<>>
    BY DEF RunnerPacket
  <2> QED  BY <1>1, <2>1, FromTail
<1>3. HostSays(m)
  <2>1. HostInv(AsCall, GrantedBy(engine), Quiet, Good) /\ AsCall.toRunner = fromHost
    BY FenceGives, HostGives, StateIs DEF FenceInv
  <2> HIDE DEF m
  <2> QED  BY <1>2, <2>1 DEF HostInv, HostSays
<1>4. Turns(AsTurn, t)
  <2>1. RunnerExpired \in BOOLEAN
    BY DEF RunnerExpired
  <2> HIDE DEF m
  <2> QED  BY <1>1, <1>2, <1>3, <2>1, FromHostTurns
<1>5. Turns(AsTurn, u)
  <2> HIDE DEF t
  <2>1. Turns(t, Ticked(t))
    BY <1>4, TickedTurns DEF Turns
  <2> QED  BY <1>4, <2>1, TurnsOn
<1>6. /\ runner' = u.r /\ toEngine' = u.toEngine /\ toHost' = u.toHost /\ fromHost' = Tail(fromHost) /\ Quietly
      /\ toRunner' = IF t.r.failed THEN toRunner ELSE Rest(RunnerBatch, toRunner)
  BY <1>1 DEF RunnerPacket, Quietly
<1> HIDE DEF u, t, m
<1>7. RunnerFine(u) /\ (u.r.generation = 0 => runner.generation = 0)
  BY <1>1, <1>5 DEF Turns, Moves
<1>8. toRunner' \in Seq(ToRunner) /\ From(toRunner', toRunner)
  BY <1>1, <1>6, RunnerReads, FromStay
<1>9. FenceInv'
  BY <1>2, <1>6, <1>7, <1>8, RunnerStep
<1> QED  BY <1>5, <1>6, <1>9

(* RunnerFinish: the runner completes a fence.                             *)
LEMMA RunnerFinishKeeps ==
  ASSUME FenceInv, RunnerFinish
  PROVE  FenceInv' /\ Finished(runner, runner')
<1> DEFINE u == [AsTurn EXCEPT !.r = FinishFence(AsTurn.r)]
<1>1. /\ RunnerFine(AsTurn) /\ AsTurn = Turn(runner, toEngine, toHost) /\ AsTurn.r = runner
      /\ fromHost \in Seq(FromHostType) /\ toRunner \in Seq(ToRunner)
      /\ AsTurn \in TurnType /\ AsTurn.toEngine = toEngine /\ AsTurn.toHost = toHost
  BY RunnerReads, StateIs DEF FenceInv
<1>2. MayFinish(AsTurn.r)
  BY <1>1 DEF RunnerFinish, FenceReady, CallbackIterationFenceReady, MayFinish
<1>3. u.r = FinishFence(runner) /\ u.toEngine = toEngine /\ u.toHost = toHost
  BY <1>1 DEF TurnType
<1>4. u = [AsTurn EXCEPT !.r = FinishFence(AsTurn.r)]
  OBVIOUS
<1> HIDE DEF u
<1>5. RunnerFine(u) /\ Finished(AsTurn.r, u.r)
  BY ONLY <1>1, <1>2, <1>4, FinishKeeps
<1>6. /\ runner' = u.r /\ toEngine' = u.toEngine /\ toHost' = u.toHost /\ fromHost' = fromHost /\ Quietly
      /\ toRunner' = toRunner
  <2>1. runner' = FinishFence(runner) /\ UNCHANGED <<host, channels, engineVars, past, owned, stopped, history>>
    BY DEF RunnerFinish
  <2>2. Quietly /\ toEngine' = toEngine /\ toHost' = toHost /\ fromHost' = fromHost /\ toRunner' = toRunner
    BY <2>1 DEF channels, Quietly
  <2> QED  BY <1>3, <2>1, <2>2
<1>7. FenceInv'
  <2>1. u.r.generation = 0 => runner.generation = 0
    BY <1>1, <1>5 DEF Finished
  <2> QED  BY <1>1, <1>5, <1>6, <2>1, FromStay, RunnerStep
<1>8. Finished(runner, runner')
  BY <1>1, <1>5, <1>6
<1> QED  BY <1>7, <1>8

-----------------------------------------------------------------------------
(* A turn of the host.                                                     *)

HostAlone == UNCHANGED <<runner, toEngine, toRunner, engineVars, past, owned, stopped, submitted, errored>>

(* A call without a barrier command writes nothing to the browser.         *)
LEMMA NoBarriers ==
  ASSUME TypeInv, NEW c, HostCalls(c), c.barriers = <<>>
  PROVE  stdin' = stdin /\ before' = before
<1>1. stdin \in Seq(LineType) /\ before \in [Nonces -> SUBSET Commands]
  BY DEF TypeInv
<1>2. DOMAIN c.barriers = {}
  OBVIOUS
<1>3. stdin' = stdin
  <2>1. [i \in DOMAIN c.barriers |-> Line("barrier", NoCommand, c.barriers[i])] = <<>>
    BY <1>2
  <2>2. stdin \o <<>> = stdin
    BY <1>1
  <2> QED  BY <2>1, <2>2 DEF HostCalls
<1>4. before' = [n \in Nonces |-> before[n]]
  BY <1>2 DEF HostCalls
<1> QED  BY <1>1, <1>3, <1>4

(* A call with one writes one line, after everything submitted so far.     *)
LEMMA OneBarrier ==
  ASSUME TypeInv, NEW c, HostCalls(c), NEW ch, c.barriers = Append(<<>>, ch)
  PROVE  /\ stdin' = Append(stdin, Line("barrier", NoCommand, ch))
         /\ before' = [n \in Nonces |-> IF n = ch.nonce THEN submitted ELSE before[n]]
<1>1. stdin \in Seq(LineType)
  BY DEF TypeInv
<1>2. DOMAIN c.barriers = {1} /\ c.barriers[1] = ch
  OBVIOUS
<1> DEFINE l == Line("barrier", NoCommand, ch)
           f == [i \in DOMAIN c.barriers |-> Line("barrier", NoCommand, c.barriers[i])]
<1>3. DOMAIN f = {1} /\ f[1] = l /\ f = [i \in {1} |-> f[i]]
  BY <1>2
<1>4. stdin' = stdin \o f
  BY DEF HostCalls
<1>5. before' = [n \in Nonces |-> IF n = ch.nonce THEN submitted ELSE before[n]]
  <2>1. \A n : (\E i \in DOMAIN c.barriers : c.barriers[i].nonce = n) <=> n = ch.nonce
    BY <1>2
  <2> QED  BY <2>1 DEF HostCalls
<1>6. stdin \o f = Append(stdin, l)
  <2>1. f = <<l>>
    <3> HIDE DEF f, l
    <3> QED  BY <1>3
  <2> HIDE DEF f, l
  <2>2. stdin \o <<l>> = Append(stdin, l)
    BY <1>1
  <2> QED  BY <2>1, <2>2
<1> QED  BY <1>4, <1>5, <1>6

(* A call that asks for no barrier, whatever was decoded.                  *)
LEMMA CallStep ==
  ASSUME FenceInv, NEW d, HostFine(d, Quiet'), d.h.last = host.last, Lone(host) => Lone(d.h),
         host' = d.h, fromHost' = d.toRunner, stdin' = stdin, before' = before,
         toHost' \in Seq(ToHost), From(toHost', toHost), stdout' \in Seq(StdoutType),
         settled \subseteq settled', settled' \subseteq Commands, HostAlone
  PROVE  TypeInv' /\ RunnerOK' /\ HostOK' /\ EngineOK' /\ LoneInv' /\ Quiet \subseteq Quiet'
<1> USE DEF HostAlone, engineVars
<1>1. TypeInv /\ RunnerOK /\ EngineOK /\ LoneInv
  BY DEF FenceInv
<1>2. d \in CallType /\ d.h \in HostType /\ d.toRunner \in Seq(FromHostType)
  BY HostGives
<1>3. TypeInv'
  BY <1>1, <1>2 DEF TypeInv
<1>4. GrantedBy(engine)' = GrantedBy(engine) /\ Quiet \subseteq Quiet' /\ Good' = Good
  BY DEF GrantedBy, Quiet, QuietAt, Good
<1>5. RunnerOK'
  <2>1. AsTurn \in TurnType /\ AsTurn.r = runner /\ AsTurn.toEngine = toEngine /\ AsTurn.toHost = toHost
    BY <1>1, StateIs
  <2>2. AsTurn' \in TurnType /\ AsTurn'.r = runner /\ AsTurn'.toEngine = toEngine /\ AsTurn'.toHost = toHost'
    <3>1. runner \in RunnerType /\ runner' = runner /\ toEngine \in Seq(ToEngine) /\ toEngine' = toEngine
      BY <1>1 DEF TypeInv
    <3> QED  BY <3>1, TurnIs DEF AsTurn
  <2>3. /\ engine.nonce <= runner.sequence /\ host.last <= runner.sequence
        /\ engine.nonce \in Nat /\ host.last \in Nat /\ engine.nonce <= engine.nonce /\ host.last <= host.last
    BY CountsAgree
  <2>4. RunnerInv(AsTurn', engine.nonce, host.last, GrantedBy(engine), Quiet', Good)
    BY <1>1, <1>4, <2>1, <2>2, <2>3, FromStay, RunnerGrows, SMTT(40) DEF RunnerOK, AsTurn
  <2> QED  BY <1>4, <2>4 DEF RunnerOK, AsTurn
<1>6. HostOK'
  <2>1. HostInv(d, GrantedBy(engine), Quiet', Good)
    BY HostGives
  <2>2. HostInv(Call(d.h, d.toRunner, <<>>), GrantedBy(engine), Quiet', Good)
    BY <2>1 DEF HostInv, Call
  <2> QED  BY <1>4, <2>2 DEF HostOK
<1>7. EngineOK'
  BY <1>1 DEF EngineOK
<1>8. LoneInv'
  BY <1>1 DEF LoneInv, Lone
<1> QED  BY <1>3, <1>4, <1>5, <1>6, <1>7, <1>8

(* A packet of the runner that asks for no barrier. *)
LEMMA HostCalledKeeps ==
  ASSUME FenceInv, ~host.failed, NEW d, Called(AsCall, d, Quiet), HostCalls(d),
         toHost' \in Seq(ToHost), From(toHost', toHost), HostAlone, stdout' = stdout, settled' = settled
  PROVE  FenceInv' /\ host'.last = host.last /\ before' = before
<1>1. /\ TypeInv /\ TokenInv /\ PlaceInv /\ MarkInv /\ ErrorInv
      /\ AsCall.h = host /\ AsCall.barriers = <<>>
  BY StateIs DEF FenceInv
<1>2. /\ HostFine(d, Quiet) /\ d.barriers = <<>> /\ d.h.last = host.last
      /\ (Waiting(host) => Waiting(d.h)) /\ (Lone(host) => Lone(d.h))
  BY <1>1 DEF Called
<1>3. stdin' = stdin /\ before' = before /\ host' = d.h /\ fromHost' = d.toRunner
  BY <1>1, <1>2, NoBarriers DEF HostCalls
<1>4. host'.last = host.last /\ Quiet' = Quiet
  BY <1>2, <1>3 DEF Quiet, QuietAt
<1>5. TypeInv' /\ RunnerOK' /\ HostOK' /\ EngineOK' /\ LoneInv'
  <2>1. HostFine(d, Quiet')
    BY <1>2, <1>4
  <2>2. stdout' \in Seq(StdoutType) /\ settled \subseteq settled' /\ settled' \subseteq Commands
    BY <1>1 DEF TypeInv
  <2> QED  BY <1>2, <1>3, <2>1, <2>2, CallStep
<1> USE DEF HostAlone, engineVars
<1>6. TokenInv'
  BY <1>1, <1>2, <1>3, <1>4 DEF TokenInv, TokenAt, Held, Waiting
<1>7. PlaceInv'
  BY <1>1, <1>3, <1>4 DEF PlaceInv, Placed
<1>8. MarkInv'
  BY <1>1, <1>3, <1>4 DEF MarkInv
<1>9. ErrorInv'
  BY <1>1, <1>4 DEF ErrorInv, Late, GrantedBy
<1> QED  BY <1>3, <1>4, <1>5, <1>6, <1>7, <1>8, <1>9 DEF FenceInv

(* The barrier command: everything that was submitted is before it.        *)
Asked(n) == [k \in Nonces |-> IF k = n THEN submitted ELSE before[k]]

(* The line of a barrier has every command submitted so far before it.     *)
LEMMA FencedByBarrier ==
  ASSUME TypeInv, PlaceInv, NEW n \in Nonces, NEW x \in LineType, x.kind = "barrier", x.command = NoCommand,
         x.challenge.nonce = n, NEW t, t = Append(stdin, x)
  PROVE  Fenced(t, Asked(n))
<1>1. stdin \in Seq(LineType) /\ Fenced(stdin, before) /\ submitted \subseteq Commands
      /\ before \in [Nonces -> SUBSET Commands] /\ NoCommand \notin Commands
  BY WorkFenceAssumption DEF TypeInv, PlaceInv, NoCommand
<1>2. /\ Len(stdin) \in Nat /\ Len(t) = Len(stdin) + 1 /\ t[Len(stdin) + 1] = x
      /\ \A i \in 1 .. Len(stdin) : t[i] = stdin[i]
      /\ \A i \in 1 .. Len(t) : i \in 1 .. Len(stdin) \/ i = Len(stdin) + 1
      /\ \A i \in 1 .. Len(stdin) : i \in 1 .. Len(t) /\ i < Len(stdin) + 1
      /\ Len(stdin) + 1 \in 1 .. Len(t)
  BY <1>1, Added DEF AddedTo
<1>3. SUFFICES ASSUME NEW i \in 1 .. Len(t), NEW k \in Nonces, t[i].command \in Asked(n)[k]
               PROVE  \E j \in 1 .. Len(t) : i < j /\ t[j].kind = "barrier" /\ t[j].challenge.nonce = k
  BY DEF Fenced
<1>4. t[i].command \in Commands
  BY <1>1, <1>3 DEF Asked
<1>5. i \in 1 .. Len(stdin)
  BY <1>1, <1>2, <1>4
<1>6. CASE k = n
  BY <1>2, <1>5, <1>6
<1>7. CASE k # n
  <2>1. stdin[i].command \in before[k]
    BY <1>2, <1>3, <1>5, <1>7 DEF Asked
  <2>2. PICK j \in 1 .. Len(stdin) : i < j /\ stdin[j].kind = "barrier" /\ stdin[j].challenge.nonce = k
    BY <1>1, <1>5, <2>1 DEF Fenced
  <2> QED  BY <1>2, <2>2
<1> QED  BY <1>6, <1>7

(* A packet of the runner that begins a barrier.                           *)
ForCallback(m) == m.kind = "BEGIN callback"

(* A borrow the host has begun keeps the invariant.                        *)
LEMMA HostBegunKeeps ==
  ASSUME FenceInv, ~host.failed, NEW m \in ToHost, NEW d, Begun(AsCall, d, m, Quiet), HostCalls(d),
         NEW n \in Nonces, n = m.nonce, n <= runner.sequence, runner.generation = 0 => ~ForCallback(m),
         toHost' \in Seq(ToHost), From(toHost', toHost), HostAlone, stdout' = stdout, settled' = settled
  PROVE  FenceInv' /\ host'.last = n /\ before' = Asked(n) /\ host.last < n
<1> DEFINE ch == d.h.challenge
           x == Line("barrier", NoCommand, ch)
<1>1. /\ TypeInv /\ RunnerOK /\ HostOK /\ EngineOK /\ TokenInv /\ PlaceInv /\ MarkInv /\ ErrorInv /\ LoneInv
      /\ AsCall.h = host /\ AsCall.barriers = <<>> /\ host.last \in Nat
  BY StateIs DEF FenceInv
<1>2. /\ HostFine(d, Quiet) /\ d.barriers = Append(<<>>, ch) /\ ch.nonce = n /\ d.h.last = n /\ host.last < n
      /\ host.pending = NoPending /\ Waiting(d.h) /\ (ch.callback => ForCallback(m))
  <2>1. AsCall.h.last = host.last /\ AsCall.h.pending = host.pending
    BY <1>1
  <2> QED  BY <1>1, <2>1, Zenon DEF Begun, ForCallback
<1>3. /\ d \in CallType /\ d.h \in HostType /\ d.toRunner \in Seq(FromHostType) /\ ch \in Challenges
      /\ HostInv(d, GrantedBy(engine), Quiet, Good) /\ n \in Nat
  BY <1>2, HostGives DEF ToHost, PacketOf
<1>4. stdin' = Append(stdin, x) /\ before' = Asked(n) /\ host' = d.h /\ fromHost' = d.toRunner
  BY <1>1, <1>2, OneBarrier DEF HostCalls, Asked
<1>5. x \in LineType /\ x.kind = "barrier" /\ x.command = NoCommand /\ x.challenge = ch
  BY <1>3 DEF Line, LineType, Named, NoCommand
<1> HIDE DEF ch, x
<1> USE DEF HostAlone, engineVars
<1>6. /\ stdin \in Seq(LineType) /\ before \in [Nonces -> SUBSET Commands] /\ submitted \subseteq Commands
      /\ NoCommand \notin Commands
  BY <1>1, WorkFenceAssumption DEF TypeInv, NoCommand
<1>7. /\ stdin' \in Seq(LineType)
      /\ \A k : Some(stdin', k) <=> Some(stdin, k) \/ x.kind = k
      /\ \A k : One(stdin, k) /\ (x.kind = k => ~Some(stdin, k)) => One(stdin', k)
      /\ \A c : In(stdin', c) <=> In(stdin, c) \/ x.command = c
      /\ Len(stdin) \in Nat /\ Len(stdin') = Len(stdin) + 1 /\ stdin'[Len(stdin) + 1] = x
      /\ \A i \in 1 .. Len(stdin) : stdin'[i] = stdin[i]
      /\ \A i \in 1 .. Len(stdin') : i \in 1 .. Len(stdin) \/ i = Len(stdin) + 1
  <2>1. x \in LineType /\ stdin \in Seq(LineType) /\ stdin' = Append(stdin, x)
    BY <1>4, <1>5, <1>6
  <2>2. stdin' \in Seq(LineType) /\ AddedTo(stdin, x, stdin')
    BY ONLY <2>1, Added
  <2> QED  BY <2>2 DEF AddedTo
<1>8. /\ before' \in [Nonces -> SUBSET Commands]
      /\ \A k \in Nonces : before'[k] = IF k = n THEN submitted ELSE before[k]
      /\ \A k \in Nonces : k <= host.last => before'[k] = before[k] /\ k <= n
  <2>1. \A k \in Nonces : k <= host.last => k # n /\ k <= n
    <3>1. host.last \in Nat /\ n \in Nat /\ host.last < n
      BY <1>1, <1>2, <1>3
    <3>2. \A k \in Nonces : k \in Nat
      BY NoncesAre
    <3> QED  BY ONLY <3>1, <3>2
  <2>2. before' = [k \in Nonces |-> IF k = n THEN submitted ELSE before[k]]
    BY <1>4 DEF Asked
  <2>3. \A k \in Nonces : before'[k] = IF k = n THEN submitted ELSE before[k]
    BY <2>2
  <2>4. before' \in [Nonces -> SUBSET Commands]
    BY <1>6, <2>2
  <2> QED  BY ONLY <2>1, <2>3, <2>4
<1>9. TypeInv'
  BY <1>1, <1>3, <1>4, <1>7, <1>8 DEF TypeInv
<1>10. /\ host'.last = n /\ GrantedBy(engine)' = GrantedBy(engine) /\ Good' = Good /\ Quiet \subseteq Quiet'
  <2>1. host'.last = n /\ GrantedBy(engine)' = GrantedBy(engine) /\ Good' = Good
    BY <1>2, <1>4 DEF GrantedBy, Good
  <2> QED  BY <1>8, <2>1 DEF Quiet, QuietAt
<1>11. RunnerOK'
  <2>1. AsTurn \in TurnType /\ AsTurn.r = runner /\ AsTurn.toEngine = toEngine /\ AsTurn.toHost = toHost
    BY <1>1, StateIs
  <2>2. AsTurn' \in TurnType /\ AsTurn'.r = runner /\ AsTurn'.toEngine = toEngine /\ AsTurn'.toHost = toHost'
    <3>1. runner \in RunnerType /\ runner' = runner /\ toEngine \in Seq(ToEngine) /\ toEngine' = toEngine
      BY <1>1 DEF TypeInv
    <3> QED  BY <3>1, TurnIs DEF AsTurn
  <2>3. /\ engine.nonce <= runner.sequence /\ engine.nonce \in Nat /\ engine.nonce <= engine.nonce
    BY CountsAgree
  <2>4. n <= runner.sequence /\ host.last <= n
    BY <1>1, <1>2, <1>3
  <2>5. RunnerInv(AsTurn', engine.nonce, n, GrantedBy(engine), Quiet', Good)
    BY <1>1, <1>3, <1>10, <2>1, <2>2, <2>3, <2>4, FromStay, RunnerGrows, SMTT(40) DEF RunnerOK, AsTurn
  <2> QED  BY <1>10, <2>5 DEF RunnerOK, AsTurn
<1>12. HostOK'
  <2>1. AsCall' \in CallType /\ AsCall'.h = d.h /\ AsCall'.toRunner = d.toRunner
    BY <1>3, <1>4, CallIs DEF AsCall
  <2>2. d.h.pending.nonce \in GrantedBy(engine) \ Good => ~d.h.pending.raw
    BY <1>2 DEF Waiting
  <2>3. HostInv(AsCall', GrantedBy(engine), Quiet', Good)
    BY <1>3, <1>10, <2>1, <2>2, FromStay, HostGrows
  <2> QED  BY <1>10, <2>3 DEF HostOK, AsCall
<1>13. EngineOK'
  <2>1. AsPump \in PumpType /\ AsPump' = AsPump
    BY <1>1, StateIs DEF AsPump
  <2>2. host.last <= n
    BY <1>1, <1>2, <1>3
  <2>3. EngineInv(AsPump, n)
    BY <1>1, <1>3, <2>1, <2>2, FromStay, EngineGrows DEF EngineOK, AsPump
  <2> QED  BY <1>10, <2>1, <2>3 DEF EngineOK, AsPump
<1>14. ~Some(stdin, "barrier") /\ ~Some(ui, "barrier") /\ ~Held(engine) /\ ~Some(queue, "answer") /\ ~Some(stdout, "answer")
  <2>1. TokenAt = {}
    BY <1>1, <1>2 DEF TokenInv
  <2>2. \A k \in 1 .. 5 : k \notin TokenAt
    BY <2>1
  <2>3. 1 \in 1 .. 5 /\ 2 \in 1 .. 5 /\ 3 \in 1 .. 5 /\ 4 \in 1 .. 5 /\ 5 \in 1 .. 5
    OBVIOUS
  <2> QED  BY <2>2, <2>3 DEF TokenAt
<1>15. TokenInv'
  <2>1. \A k \in TokenAt' : k = 1
    BY <1>14 DEF TokenAt, Held
  <2>2. One(stdin, "barrier") /\ One(ui, "barrier") /\ One(queue, "answer") /\ One(stdout, "answer")
    BY <1>1 DEF TokenInv
  <2>3. One(stdin', "barrier")
    BY <1>5, <1>7, <1>14, <2>2
  <2>4. host'.pending # NoPending /\ ~host'.pending.raw
    BY <1>2, <1>4 DEF Waiting
  <2>5. \A i \in 1 .. Len(stdin') : stdin'[i].kind = "barrier" => stdin'[i].challenge.nonce <= host'.last
    <3>1. n <= n
      BY <1>3
    <3> QED  BY <1>2, <1>5, <1>7, <1>10, <1>14, <3>1 DEF Some
  <2>6. \A i \in 1 .. Len(ui) : ui[i].kind # "barrier"
    BY <1>14 DEF Some
  <2> QED  BY <2>1, <2>2, <2>3, <2>4, <2>5, <2>6 DEF TokenInv
<1>16. PlaceInv'
  <2>1. \A c \in submitted : Placed(c)'
    BY <1>1, <1>7 DEF PlaceInv, Placed
  <2>2. \A k \in Nonces : before'[k] \subseteq submitted /\ (k > host'.last => before'[k] = {})
    <3>1. \A k \in Nonces : before[k] \subseteq submitted /\ (k > host.last => before[k] = {})
      BY <1>1 DEF PlaceInv
    <3>2. \A k \in Nonces : k > n => k > host.last /\ k # n
      BY <1>1, <1>2, <1>3, NoncesAre
    <3> QED  BY <1>8, <1>10, <3>1, <3>2
  <2>3. \A c \in Commands : In(stdin', c) => In(stdin, c)
    BY <1>5, <1>6, <1>7
  <2>4. \A i \in 1 .. Len(stdin') : stdin'[i].kind = "barrier" <=> stdin'[i].command = NoCommand
    BY <1>1, <1>5, <1>7 DEF PlaceInv
  <2>5. Fenced(stdin', before')
    BY <1>1, <1>2, <1>4, <1>5, FencedByBarrier
  <2> QED  BY <1>1, <2>1, <2>2, <2>3, <2>4, <2>5 DEF PlaceInv
<1>17. MarkInv'
  BY <1>1, <1>8, <1>10 DEF MarkInv
<1>18. ErrorInv'
  BY <1>1, <1>14 DEF ErrorInv, Some
<1>19. LoneInv'
  <2>1. n \in Nonces /\ before'[n] = submitted
    BY <1>8
  <2> QED  BY <1>2, <1>4, <1>10, <2>1 DEF LoneInv, Waiting, ch
<1> QED  BY <1>2, <1>4, <1>9, <1>10, <1>11, <1>12, <1>13, <1>15, <1>16, <1>17, <1>18, <1>19 DEF FenceInv

(* What a packet of the runner does to the promise: nothing, or it asks.   *)
HostStays == host'.last = host.last /\ before' = before
HostAsks(n) ==
  /\ n \in Nonces /\ host.last < n /\ n <= runner.sequence
  /\ host'.last = n /\ before' = Asked(n)

(* HostPacket: the host reads a packet of the runner.                      *)
LEMMA HostPacketKeeps ==
  ASSUME FenceInv, HostPacket
  PROVE  FenceInv' /\ (HostStays \/ \E n : HostAsks(n))
<1> DEFINE m == Head(toHost)
           d == WorkPacket(AsCall, m)
<1>1. /\ TypeInv /\ HostFine(AsCall, Quiet) /\ RunnerFine(AsTurn) /\ AsTurn.r = runner /\ AsTurn.toHost = toHost
      /\ ~host.failed /\ toHost # <<>>
  BY FenceGives, StateIs DEF FenceInv, HostPacket
<1>2. toHost \in Seq(ToHost)
  BY <1>1 DEF TypeInv
<1>3. /\ From(Tail(toHost), toHost) /\ Tail(toHost) \in Seq(ToHost) /\ m \in ToHost
      /\ \E i \in 1 .. Len(toHost) : m = toHost[i]
  BY <1>1, <1>2, FromTail
<1>4. /\ HostCalls(d) /\ toHost' = Tail(toHost) /\ stdout' = stdout /\ settled' = settled /\ HostAlone
  BY DEF HostPacket, HostCall, AsCall, HostAlone
<1> HIDE DEF m
<1>5. /\ m.kind \in {"BEGIN", "BEGIN callback"} => m.nonce \in Nonces
      /\ m.kind \in {"BEGIN", "BEGIN callback"} => m.nonce <= runner.sequence
      /\ m.kind = "ACK" => m.cuts.nonce \in GrantedBy(engine)
      /\ runner.generation = 0 => ~ForCallback(m)
  <2>1. SentInv(AsTurn, GrantedBy(engine)) /\ IdleInv(runner, toHost)
    BY <1>1, FineGives
  <2>2. PICK i \in 1 .. Len(toHost) : m = toHost[i]
    BY <1>3
  <2>3. /\ m.kind \in {"BEGIN", "BEGIN callback"} => m.nonce \in Nonces /\ m.nonce <= runner.sequence
        /\ m.kind = "ACK" => m.cuts.nonce \in GrantedBy(engine)
    BY <1>1, <2>1, <2>2 DEF SentInv
  <2>4. runner.generation = 0 => ~ForCallback(m)
    BY <2>1, <2>2 DEF IdleInv, ForCallback
  <2> QED  BY <2>3, <2>4
<1>6. Called(AsCall, d, Quiet) \/ Begun(AsCall, d, m, Quiet)
  BY <1>1, <1>3, <1>5, WorkPacketCalled
<1> HIDE DEF d
<1>7. CASE Called(AsCall, d, Quiet)
  <2>1. FenceInv' /\ host'.last = host.last /\ before' = before
    BY <1>1, <1>3, <1>4, <1>7, HostCalledKeeps
  <2> QED  BY <2>1 DEF HostStays
<1>8. CASE Begun(AsCall, d, m, Quiet)
  <2>1. PICK n : n = m.nonce
    OBVIOUS
  <2>2. n \in Nonces /\ n <= runner.sequence
    BY <1>5, <1>8, <2>1 DEF Begun
  <2>3. FenceInv' /\ host'.last = n /\ before' = Asked(n) /\ host.last < n
    BY <1>1, <1>3, <1>4, <1>5, <1>8, <2>1, <2>2, HostBegunKeeps
  <2> QED  BY <2>2, <2>3 DEF HostAsks
<1> QED  BY <1>6, <1>7, <1>8

-----------------------------------------------------------------------------
(* The decoder of stdout.                                                  *)

(* What the host makes of an output of the browser.                        *)
LEMMA DecodedCalls ==
  ASSUME FenceInv, ~host.failed, stdout # <<>>, NEW q, Quiet \subseteq q, NEW m, m = Head(stdout),
         m.kind = "mark" => m.cuts.nonce \in q
  PROVE  /\ Returned(AsCall, Decoded(m), q)
         /\ m.kind # "answer" => Called(AsCall, Decoded(m), q)
         /\ m.kind = "error" => Decoded(m).h.failed
<1> DEFINE d == Decoded(m)
<1>1. /\ TypeInv /\ HostFine(AsCall, Quiet) /\ AsCall.h = host /\ TokenInv /\ ErrorInv /\ HostOK
  BY FenceGives, StateIs DEF FenceInv
<1>2. stdout \in Seq(StdoutType)
  BY <1>1 DEF TypeInv
<1>3. m \in StdoutType /\ TakenTo(stdout, Tail(stdout))
  BY <1>2, Taken
<1>4. m.kind \in {"reply", "error", "answer", "mark"} /\ m.ok \in BOOLEAN /\ m.cuts \in Cuts
  BY <1>3 DEF StdoutType, OutputOf
<1>5. HostFine(AsCall, q)
  <2>1. AsCall \in CallType /\ HostInv(AsCall, GrantedBy(engine), Quiet, Good)
    BY <1>1, HostGives
  <2>2. AsCall.h.pending.nonce \in GrantedBy(engine) \ Good => ~AsCall.h.pending.raw
    BY <2>1 DEF HostInv
  <2>3. HostInv(AsCall, GrantedBy(engine), q, Good)
    BY <2>1, <2>2, FromStay, HostGrows
  <2> QED  BY <2>1, <2>3 DEF HostFine
<1>6. HostCall = AsCall
  BY DEF HostCall, AsCall
<1>7. CASE m.kind = "reply"
  <2>1. d = AsCall
    BY <1>6, <1>7 DEF Decoded
  <2> HIDE DEF d
  <2>2. Called(AsCall, d, q) /\ Returned(AsCall, d, q)
    BY <1>5, <2>1, CalledStay DEF Called, Returned
  <2> QED  BY <1>7, <2>2 DEF d
<1>8. CASE m.kind = "error"
  <2>1. d = Throw(AsCall)
    BY <1>6, <1>8 DEF Decoded
  <2> HIDE DEF d
  <2>2. Called(AsCall, d, q) /\ d.h.failed
    BY <1>5, <2>1, ThrowCalled
  <2>3. Returned(AsCall, d, q)
    BY <2>2 DEF Called, Returned
  <2> QED  BY <1>8, <2>2, <2>3 DEF d
<1>9. CASE m.kind = "mark"
  <2>1. d = WorkChanged(Observe(AsCall, m.cuts))
    BY <1>6, <1>9 DEF Decoded
  <2>2. Called(AsCall, Observe(AsCall, m.cuts), q)
    BY <1>4, <1>5, <1>9, ObserveCalled
  <2>3. Called(Observe(AsCall, m.cuts), d, q)
    BY <2>1, <2>2, WorkChangedCalled DEF Called
  <2> HIDE DEF d
  <2>4. Called(AsCall, d, q)
    BY <2>2, <2>3, CalledOn
  <2>5. Returned(AsCall, d, q)
    BY <2>4 DEF Called, Returned
  <2> QED  BY <1>9, <2>4, <2>5 DEF d
<1>10. CASE m.kind = "answer"
  <2>1. d = RawReturned(AsCall, m.ok)
    BY <1>6, <1>10 DEF Decoded
  <2>2. Some(stdout, "answer") /\ stdout[1] = m /\ 1 \in 1 .. Len(stdout)
    BY <1>3, <1>10 DEF TakenTo
  <2>3. host.pending # NoPending
    <3>1. 5 \in TokenAt
      BY <2>2 DEF TokenAt
    <3> QED  BY <1>1, <3>1 DEF TokenInv
  <2>4. host.pending.nonce \notin GrantedBy(engine) \ Good
    <3>1. SUFFICES ASSUME host.pending.nonce \in GrantedBy(engine) \ Good PROVE FALSE
      OBVIOUS
    <3>2. host.pending.nonce = host.last
      BY <1>1, <2>3 DEF HostOK, HostInv, Call
    <3>3. Late /\ errored # {}
      BY <3>1, <3>2 DEF Late, Good
    <3>4. \A e \in 1 .. Len(stdout) : stdout[e].kind = "error" => 1 < e
      <4>1. Len(stdout) \in Nat
        BY <1>2
      <4> QED  BY <1>10, <2>2, <4>1
    <3> QED  BY <1>1, <1>10, <2>2, <3>3, <3>4 DEF ErrorInv
  <2>5. Returned(AsCall, d, q)
    <3>1. AsCall.h.pending # NoPending /\ AsCall.h.pending.nonce \notin GrantedBy(engine) \ Good
      BY <1>1, <2>3, <2>4
    <3> HIDE DEF d
    <3> QED  BY <1>4, <1>5, <2>1, <3>1, RawCalled
  <2> HIDE DEF d
  <2> QED  BY <1>10, <2>5 DEF d
<1> QED  BY <1>4, <1>7, <1>8, <1>9, <1>10

(* What the decoder does to the promise: it settles one command or none.   *)
HostSettles ==
  /\ host'.last = host.last /\ before' = before
  /\ settled' = settled \/ \E c \in submitted \ settled : settled' = settled \cup {c}

(* HostDecode: the host reads an output of the browser.                    *)
LEMMA HostDecodeKeeps ==
  ASSUME FenceInv, HostDecode
  PROVE  FenceInv' /\ HostSettles
<1> DEFINE m == Head(stdout)
           d == Decoded(m)
           q == QuietAt(host.last, before, settled')
<1>1. /\ TypeInv /\ TokenInv /\ PlaceInv /\ MarkInv /\ ErrorInv /\ ~host.failed /\ stdout # <<>>
      /\ AsCall.h = host /\ AsCall.barriers = <<>>
  BY StateIs DEF FenceInv, HostDecode
<1>2. /\ stdout \in Seq(StdoutType) /\ before \in [Nonces -> SUBSET Commands] /\ settled \subseteq Commands
      /\ NoCommand \notin Commands
  BY <1>1, WorkFenceAssumption DEF TypeInv, NoCommand
<1>3. /\ HostCalls(d) /\ stdout' = Tail(stdout) /\ settled' = settled \cup ({m.command} \cap Commands)
      /\ toHost' = toHost /\ HostAlone
  BY DEF HostDecode, HostAlone
<1>4. stdout' \in Seq(StdoutType) /\ m \in StdoutType /\ TakenTo(stdout, stdout')
  BY <1>1, <1>2, <1>3, Taken
<1>5. m.kind \in {"reply", "error", "answer", "mark"}
  BY <1>4 DEF StdoutType, OutputOf
<1>6. /\ Len(stdout) \in Nat \ {0} /\ m = stdout[1] /\ 1 \in 1 .. Len(stdout)
  <2>1. Len(stdout) \in Nat \ {0} /\ m = stdout[1]
    BY <1>4 DEF TakenTo
  <2> QED  BY <2>1
<1> HIDE DEF m
<1>7. settled \subseteq settled' /\ settled' \subseteq Commands /\ (m.command \in Commands => m.command \in settled')
  BY <1>2, <1>3
<1>8. m.kind = "mark" => m.cuts.nonce \in q
  <2>1. SUFFICES ASSUME m.kind = "mark" PROVE m.cuts.nonce \in q
    OBVIOUS
  <2>2. /\ m.cuts.nonce \in Nonces /\ m.cuts.nonce <= host.last
        /\ \A c \in before[m.cuts.nonce] : c \in settled \/ \E j \in 1 .. Len(stdout) : j < 1 /\ stdout[j].command = c
    BY <1>1, <1>6, <2>1 DEF MarkInv
  <2>3. before[m.cuts.nonce] \subseteq settled
    BY <2>2
  <2> QED  BY <1>7, <2>2, <2>3 DEF QuietAt
<1>9. Quiet \subseteq q
  BY <1>7 DEF Quiet, QuietAt
<1> HIDE DEF q
<1>10. /\ Returned(AsCall, d, q) /\ (m.kind # "answer" => Called(AsCall, d, q))
       /\ (m.kind = "error" => d.h.failed)
  <2>1. m = Head(stdout)
    BY DEF m
  <2> QED  BY <1>1, <1>8, <1>9, <2>1, DecodedCalls
<1> HIDE DEF d
<1>11. /\ HostFine(d, q) /\ d.barriers = <<>> /\ d.h.last = host.last /\ (Lone(host) => Lone(d.h))
       /\ (m.kind # "answer" => (Waiting(host) => Waiting(d.h)))
  <2>1. m.kind # "answer" => (Waiting(AsCall.h) => Waiting(d.h))
    BY <1>10 DEF Called
  <2>2. /\ HostFine(d, q) /\ d.barriers = AsCall.barriers /\ d.h.last = AsCall.h.last /\ (Lone(AsCall.h) => Lone(d.h))
    BY <1>10 DEF Returned
  <2> QED  BY <1>1, <2>1, <2>2
<1>12. stdin' = stdin /\ before' = before /\ host' = d.h /\ fromHost' = d.toRunner /\ host'.last = host.last
  BY <1>1, <1>3, <1>11, NoBarriers DEF HostCalls
<1>13. Quiet' = q
  BY <1>12 DEF Quiet, QuietAt, q
<1>14. TypeInv' /\ RunnerOK' /\ HostOK' /\ EngineOK' /\ LoneInv'
  <2>1. toHost' \in Seq(ToHost) /\ From(toHost', toHost)
    BY <1>1, <1>3, FromStay DEF TypeInv
  <2> QED  BY <1>3, <1>4, <1>7, <1>11, <1>12, <1>13, <2>1, CallStep
<1> USE DEF HostAlone, engineVars
<1>15. TokenInv'
  <2>1. One(stdout', "answer") /\ (Some(stdout', "answer") => Some(stdout, "answer"))
    BY <1>1, <1>4 DEF TokenInv, TakenTo
  <2>2. TokenAt' \subseteq TokenAt
    BY <1>3, <1>12, <2>1 DEF TokenAt, Held
  <2>3. TokenAt' # {} => host'.pending # NoPending /\ ~host'.pending.raw
    <3>1. CASE m.kind = "answer"
      <4>1. 5 \in TokenAt
        BY <1>6, <3>1 DEF TokenAt, Some
      <4>2. 5 \notin TokenAt'
        BY <1>1, <1>4, <3>1 DEF TokenInv, TakenTo, TokenAt, m
      <4>3. TokenAt' = {}
        BY <1>1, <2>2, <4>1, <4>2 DEF TokenInv
      <4> QED  BY <4>3
    <3>2. CASE m.kind # "answer"
      <4>1. TokenAt' # {} => TokenAt # {}
        BY <2>2
      <4>2. TokenAt # {} => Waiting(host)
        BY <1>1 DEF TokenInv, Waiting
      <4> QED  BY <1>11, <1>12, <3>2, <4>1, <4>2 DEF Waiting
    <3> QED  BY <3>1, <3>2
  <2>4. /\ One(stdin, "barrier") /\ One(ui, "barrier") /\ One(queue, "answer")
        /\ \A k, l \in TokenAt' : k = l
        /\ \A i \in 1 .. Len(stdin) : stdin[i].kind = "barrier" => stdin[i].challenge.nonce <= host.last
        /\ \A i \in 1 .. Len(ui) : ui[i].kind = "barrier" => ui[i].challenge.nonce <= host.last
    BY <1>1, <2>2 DEF TokenInv
  <2> QED  BY <1>3, <1>12, <2>1, <2>3, <2>4 DEF TokenInv
<1>16. m.command \in Commands => m.command \in submitted
  BY <1>1, <1>6 DEF PlaceInv, In
<1>17. PlaceInv'
  <2>1. \A c \in Commands : In(stdout, c) => In(stdout', c) \/ c \in settled'
    BY <1>4, <1>7 DEF TakenTo, m
  <2>2. \A c \in Commands : In(stdout', c) => In(stdout, c)
    BY <1>4 DEF TakenTo
  <2>3. submitted \subseteq Commands
    BY <1>1 DEF TypeInv
  <2>4. \A c \in submitted : Placed(c)'
    BY <1>1, <1>3, <1>7, <1>12, <2>1, <2>3 DEF PlaceInv, Placed
  <2>5. settled' \subseteq submitted
    BY <1>1, <1>3, <1>16 DEF PlaceInv
  <2> QED  BY <1>1, <1>3, <1>12, <2>2, <2>4, <2>5 DEF PlaceInv
<1>18. MarkInv'
  <2>1. \A n \in Nonces : \A c \in before[n] : c \in Commands
    BY <1>2
  <2>2. mark # NoMark /\ ~mark.written =>
          \A c \in before[mark.cuts.nonce] :
            \/ c \in settled' \/ In(stdout', c)
            \/ \E i \in 1 .. Len(queue) : queue[i].command = c /\ queue[i].sequence <= mark.cuts.writer
    <3>1. SUFFICES ASSUME mark # NoMark, ~mark.written, NEW c \in before[mark.cuts.nonce]
                   PROVE  \/ c \in settled' \/ In(stdout', c)
                          \/ \E i \in 1 .. Len(queue) : queue[i].command = c /\ queue[i].sequence <= mark.cuts.writer
      OBVIOUS
    <3>2. mark.cuts.nonce \in Nonces /\ c \in Commands
      BY <1>1, <2>1, <3>1 DEF MarkInv
    <3>3. In(stdout, c) => In(stdout', c) \/ c \in settled'
      BY <1>4, <1>7, <3>2 DEF TakenTo, m
    <3> QED  BY <1>1, <1>7, <3>1, <3>3 DEF MarkInv
  <2>3. ASSUME NEW i \in 1 .. Len(stdout'), stdout'[i].kind = "mark"
        PROVE  /\ stdout'[i].cuts.nonce \in Nonces /\ stdout'[i].cuts.nonce <= host.last
               /\ stdout'[i].command = NoCommand
               /\ \A c \in before[stdout'[i].cuts.nonce] :
                    c \in settled' \/ \E j \in 1 .. Len(stdout') : j < i /\ stdout'[j].command = c
    <3>1. i + 1 \in 1 .. Len(stdout) /\ stdout'[i] = stdout[i + 1] /\ i \in Nat
      BY <1>4, <2>3 DEF TakenTo
    <3>2. /\ stdout'[i].cuts.nonce \in Nonces /\ stdout'[i].cuts.nonce <= host.last
          /\ stdout'[i].command = NoCommand
          /\ \A c \in before[stdout'[i].cuts.nonce] :
               c \in settled \/ \E j \in 1 .. Len(stdout) : j < i + 1 /\ stdout[j].command = c
      BY <1>1, <2>3, <3>1 DEF MarkInv
    <3>3. ASSUME NEW c \in before[stdout'[i].cuts.nonce]
          PROVE  c \in settled' \/ \E j \in 1 .. Len(stdout') : j < i /\ stdout'[j].command = c
      <4>1. CASE c \in settled
        BY <1>7, <4>1
      <4>2. CASE \E j \in 1 .. Len(stdout) : j < i + 1 /\ stdout[j].command = c
        <5>1. PICK j \in 1 .. Len(stdout) : j < i + 1 /\ stdout[j].command = c
          BY <4>2
        <5>2. CASE j = 1
          <6>1. c \in Commands /\ c = m.command
            BY <1>6, <2>1, <3>2, <3>3, <5>1, <5>2
          <6> QED  BY <1>7, <6>1
        <5>3. CASE j - 1 \in 1 .. Len(stdout') /\ stdout'[j - 1] = stdout[j]
          <6>1. j - 1 < i
            BY <3>1, <5>1
          <6> QED  BY <5>1, <5>3, <6>1
        <5> QED  BY <1>4, <5>2, <5>3 DEF TakenTo
      <4> QED  BY <3>2, <3>3, <4>1, <4>2
    <3> QED  BY <3>2, <3>3
  <2>4. \A i \in 1 .. Len(queue) : queue[i].sequence <= published
    BY <1>1 DEF MarkInv
  <2>5. mark # NoMark /\ ~mark.written => mark.cuts.nonce \in Nonces /\ mark.cuts.nonce <= host.last
    BY <1>1 DEF MarkInv
  <2> QED  BY <1>3, <1>12, <2>2, <2>3, <2>4, <2>5 DEF MarkInv
<1>19. ErrorInv'
  <2>1. SUFFICES ASSUME errored # {}, ~host'.failed
                 PROVE  \/ \E e \in 1 .. Len(stdout') :
                             stdout'[e].kind = "error" /\ (Late => \A i \in 1 .. Len(stdout') : i < e => stdout'[i].kind # "answer")
                        \/ \E e \in 1 .. Len(queue) :
                             /\ queue[e].kind = "error"
                             /\ Late => /\ \A i \in 1 .. Len(stdout') : stdout'[i].kind # "answer"
                                        /\ \A i \in 1 .. Len(queue) : i < e => queue[i].kind # "answer"
    BY <1>3, <1>12, SMTT(40), ZenonT(60) DEF ErrorInv, Late, GrantedBy
  <2>2. m.kind # "error"
    BY <1>10, <1>12, <2>1
  <2>3. ASSUME NEW e \in 1 .. Len(stdout), stdout[e].kind = "error",
               Late => \A i \in 1 .. Len(stdout) : i < e => stdout[i].kind # "answer"
        PROVE  \E f \in 1 .. Len(stdout') :
                 stdout'[f].kind = "error" /\ (Late => \A i \in 1 .. Len(stdout') : i < f => stdout'[i].kind # "answer")
    <3>1. e - 1 \in 1 .. Len(stdout') /\ stdout'[e - 1] = stdout[e]
      BY <1>4, <1>6, <2>2, <2>3 DEF TakenTo
    <3>2. ASSUME Late, NEW i \in 1 .. Len(stdout'), i < e - 1 PROVE stdout'[i].kind # "answer"
      <4>1. i + 1 \in 1 .. Len(stdout) /\ stdout'[i] = stdout[i + 1]
        BY <1>4 DEF TakenTo
      <4>2. i + 1 < e
        BY <3>2
      <4> QED  BY <2>3, <3>2, <4>1, <4>2
    <3> QED  BY <2>3, <3>1, <3>2
  <2>4. Late => ((\A i \in 1 .. Len(stdout) : stdout[i].kind # "answer") => (\A i \in 1 .. Len(stdout') : stdout'[i].kind # "answer"))
    BY <1>4 DEF TakenTo
  <2>5. CASE \E e \in 1 .. Len(stdout) :
               stdout[e].kind = "error" /\ (Late => \A i \in 1 .. Len(stdout) : i < e => stdout[i].kind # "answer")
    BY <2>3, <2>5
  <2>6. CASE \E e \in 1 .. Len(queue) :
         /\ queue[e].kind = "error"
         /\ Late => /\ \A i \in 1 .. Len(stdout) : stdout[i].kind # "answer"
                    /\ \A i \in 1 .. Len(queue) : i < e => queue[i].kind # "answer"
    BY <2>4, <2>6
  <2> QED  BY <1>1, <2>1, <2>5, <2>6 DEF ErrorInv
<1>20. HostSettles
  <2>1. settled' = settled \/ (m.command \in submitted \ settled /\ settled' = settled \cup {m.command})
    BY <1>3, <1>16
  <2> QED  BY <1>12, <2>1 DEF HostSettles
<1> QED  BY <1>14, <1>15, <1>17, <1>18, <1>19, <1>20 DEF FenceInv

(* A command that the client writes: an idle worker writes controls only.  *)
LEMMA HostSubmitKeeps ==
  ASSUME FenceInv, NEW c \in Commands, HostSubmit(c)
  PROVE  FenceInv' /\ c \notin submitted
<1> DEFINE x == Line("command", c, NoChallenge)
<1>1. /\ TypeInv /\ RunnerOK /\ HostOK /\ EngineOK /\ TokenInv /\ PlaceInv /\ MarkInv /\ ErrorInv /\ LoneInv
      /\ c \notin submitted /\ stdin' = Append(stdin, x) /\ submitted' = submitted \cup {c}
      /\ (c \notin Controls => AuthorAdmitted(host))
  BY DEF FenceInv, HostSubmit
<1>2. UNCHANGED <<runner, host, toEngine, toRunner, toHost, fromHost, stdout, engineVars,
                 past, owned, stopped, settled, before, errored>>
  BY DEF HostSubmit
<1> USE DEF engineVars
<1>3. x \in LineType /\ x.kind = "command" /\ x.command = c /\ c # NoCommand
  BY WorkFenceAssumption DEF Line, LineType, Named, NoChallenge, Challenges, NoCommand
<1>4. stdin \in Seq(LineType) /\ submitted \subseteq Commands /\ before \in [Nonces -> SUBSET Commands]
  BY <1>1 DEF TypeInv
<1> HIDE DEF x
<1>5. stdin' \in Seq(LineType) /\ AddedTo(stdin, x, stdin')
  BY <1>1, <1>3, <1>4, Added
<1>6. TypeInv'
  BY <1>1, <1>2, <1>4, <1>5 DEF TypeInv
<1>7. RunnerOK' /\ HostOK' /\ EngineOK'
  <2>1. GrantedBy(engine)' = GrantedBy(engine) /\ Quiet' = Quiet /\ Good' = Good
    BY <1>2 DEF GrantedBy, Quiet, QuietAt, Good
  <2> QED  BY <1>1, <1>2, <2>1 DEF RunnerOK, HostOK, EngineOK
<1>8. TokenInv'
  <2>1. (Some(stdin', "barrier") <=> Some(stdin, "barrier")) /\ One(stdin', "barrier")
    BY <1>1, <1>3, <1>5 DEF TokenInv, AddedTo
  <2>2. TokenAt' = TokenAt
    BY <1>2, <2>1 DEF TokenAt, Held
  <2>3. \A i \in 1 .. Len(stdin') : stdin'[i].kind = "barrier" => stdin'[i].challenge.nonce <= host.last
    BY <1>1, <1>3, <1>5 DEF TokenInv, AddedTo
  <2> QED  BY <1>1, <1>2, <2>1, <2>2, <2>3 DEF TokenInv
<1>9. PlaceInv'
  <2>1. \A k : In(stdin', k) <=> In(stdin, k) \/ k = c
    BY <1>3, <1>5 DEF AddedTo
  <2>2. \A k \in submitted' : Placed(k)'
    BY <1>1, <1>2, <2>1 DEF PlaceInv, Placed
  <2>3. Fenced(stdin', before)
    <3>1. SUFFICES ASSUME NEW i \in 1 .. Len(stdin'), NEW n \in Nonces, stdin'[i].command \in before[n]
                   PROVE  \E j \in 1 .. Len(stdin') : i < j /\ stdin'[j].kind = "barrier" /\ stdin'[j].challenge.nonce = n
      BY DEF Fenced
    <3>2. c \notin before[n]
      BY <1>1 DEF PlaceInv
    <3>3. i \in 1 .. Len(stdin) /\ stdin'[i] = stdin[i]
      BY <1>3, <1>5, <3>1, <3>2 DEF AddedTo
    <3>4. PICK j \in 1 .. Len(stdin) : i < j /\ stdin[j].kind = "barrier" /\ stdin[j].challenge.nonce = n
      BY <1>1, <3>1, <3>3 DEF PlaceInv, Fenced
    <3>5. j \in 1 .. Len(stdin') /\ stdin'[j] = stdin[j]
      BY <1>5 DEF AddedTo
    <3> QED  BY <3>4, <3>5
  <2>4. \A i \in 1 .. Len(stdin') : stdin'[i].kind = "barrier" <=> stdin'[i].command = NoCommand
    BY <1>1, <1>3, <1>5 DEF PlaceInv, AddedTo
  <2>5. \A n \in Nonces : before[n] \subseteq submitted' /\ (n > host.last => before[n] = {})
    BY <1>1 DEF PlaceInv
  <2>6. settled \subseteq submitted'
    BY <1>1 DEF PlaceInv
  <2>7. \A k \in Commands : In(stdout, k) \/ In(queue, k) \/ k \in running \/ In(ui, k) \/ In(stdin', k) => k \in submitted'
    BY <1>1, <2>1 DEF PlaceInv
  <2>8. \A i \in 1 .. Len(ui) : ui[i].kind \in {"barrier", "watch"} <=> ui[i].command = NoCommand
    BY <1>1 DEF PlaceInv
  <2> QED  BY <1>2, <2>2, <2>3, <2>4, <2>5, <2>6, <2>7, <2>8 DEF PlaceInv
<1>10. MarkInv' /\ ErrorInv'
  BY <1>1, <1>2 DEF MarkInv, ErrorInv, Late, GrantedBy
<1>11. LoneInv'
  BY <1>1, <1>2 DEF LoneInv, AuthorAdmitted
<1> QED  BY <1>1, <1>6, <1>7, <1>8, <1>9, <1>10, <1>11 DEF FenceInv

-----------------------------------------------------------------------------
(* The pipes and threads of the Engine.                                    *)

(* The parts of the invariant, without the processes that stand still.     *)
LEMMA StillFence ==
  ASSUME FenceInv, TypeInv', Still, Good' = Good, TokenInv', PlaceInv', MarkInv', ErrorInv'
  PROVE  FenceInv'
BY StillKeeps DEF FenceInv

StillPromise == UNCHANGED <<runner, host, submitted, settled, before>>

(* The writer thread writes its oldest packet.                             *)
LEMMA WriterWritesKeeps ==
  ASSUME FenceInv, WriterWrites
  PROVE  FenceInv' /\ StillPromise
<1> DEFINE m == Head(queue)
<1>1. /\ TypeInv /\ TokenInv /\ PlaceInv /\ MarkInv /\ ErrorInv /\ queue # <<>>
      /\ stdout' = Append(stdout, m) /\ queue' = Tail(queue)
  BY DEF FenceInv, WriterWrites
<1>2. UNCHANGED <<otherProcesses, errored, toEngine, toRunner, stdin, engine, alive, ui, running, accepted,
                 published, mark, wake>>
  BY DEF WriterWrites
<1>3. stdout \in Seq(StdoutType) /\ queue \in Seq(QueueType) /\ published \in Nat
  BY <1>1 DEF TypeInv
<1>4. queue' \in Seq(QueueType) /\ m \in QueueType /\ TakenTo(queue, queue')
  BY <1>1, <1>3, Taken
<1>5. m \in StdoutType /\ m.kind \in {"reply", "error", "answer"}
  BY <1>4 DEF QueueType, StdoutType, OutputOf
<1>6. Len(queue) \in Nat \ {0} /\ m = queue[1] /\ 1 \in 1 .. Len(queue)
  <2>1. Len(queue) \in Nat \ {0} /\ m = queue[1]
    BY <1>4 DEF TakenTo
  <2> QED  BY <2>1
<1>7. stdout' \in Seq(StdoutType) /\ AddedTo(stdout, m, stdout')
  BY <1>1, <1>3, <1>5, Added
<1> USE DEF otherProcesses
<1>8. TypeInv'
  BY <1>1, <1>2, <1>4, <1>7 DEF TypeInv
<1>9. Still /\ Good' = Good
  BY <1>2 DEF Still, Good, GrantedBy
<1>10. TokenInv'
  <2>1. One(queue', "answer") /\ (Some(queue', "answer") => Some(queue, "answer"))
    BY <1>1, <1>4 DEF TokenInv, TakenTo
  <2>2. CASE m.kind = "answer"
    <3>1. 4 \in TokenAt /\ ~Some(queue', "answer")
      BY <1>1, <1>4, <1>6, <2>2 DEF TokenAt, Some, TokenInv, TakenTo
    <3>2. \A k \in TokenAt : k = 4
      BY <1>1, <3>1 DEF TokenInv
    <3>3. ~Some(stdout, "answer")
      BY <3>2 DEF TokenAt
    <3>4. One(stdout', "answer")
      BY <1>1, <1>7, <3>3 DEF AddedTo, TokenInv
    <3>5. \A k \in TokenAt' : k = 5
      BY <1>2, <3>1, <3>2 DEF TokenAt, Held
    <3> QED  BY <1>1, <1>2, <2>1, <3>1, <3>4, <3>5 DEF TokenInv
  <2>3. CASE m.kind # "answer"
    <3>1. One(stdout', "answer") /\ (Some(stdout', "answer") <=> Some(stdout, "answer"))
      BY <1>1, <1>7, <2>3 DEF AddedTo, TokenInv
    <3>2. TokenAt' \subseteq TokenAt
      BY <1>2, <2>1, <3>1 DEF TokenAt, Held
    <3> QED  BY <1>1, <1>2, <2>1, <3>1, <3>2 DEF TokenInv
  <2> QED  BY <2>2, <2>3
<1>11. PlaceInv'
  <2>1. \A c : In(stdout', c) \/ In(queue', c) <=> In(stdout, c) \/ In(queue, c)
    BY <1>4, <1>7 DEF TakenTo, AddedTo, m
  <2> QED  BY <1>1, <1>2, <2>1 DEF PlaceInv, Placed
<1> HIDE DEF m
<1>12. MarkInv'
  <2>1. \A i \in 1 .. Len(queue') : queue'[i].sequence <= published
    BY <1>1, <1>4 DEF MarkInv, TakenTo
  <2>2. ASSUME mark # NoMark, ~mark.written, NEW c \in before[mark.cuts.nonce]
        PROVE  \/ c \in settled \/ In(stdout', c)
               \/ \E i \in 1 .. Len(queue') : queue'[i].command = c /\ queue'[i].sequence <= mark.cuts.writer
    <3>1. \/ c \in settled \/ In(stdout, c)
          \/ \E i \in 1 .. Len(queue) : queue[i].command = c /\ queue[i].sequence <= mark.cuts.writer
      BY <1>1, <2>2 DEF MarkInv
    <3>2. CASE In(stdout, c)
      BY <1>7, <3>2 DEF AddedTo
    <3>3. CASE \E i \in 1 .. Len(queue) : queue[i].command = c /\ queue[i].sequence <= mark.cuts.writer
      <4>1. PICK i \in 1 .. Len(queue) : queue[i].command = c /\ queue[i].sequence <= mark.cuts.writer
        BY <3>3
      <4>2. CASE i = 1
        BY <1>6, <1>7, <4>1, <4>2 DEF AddedTo
      <4>3. CASE i - 1 \in 1 .. Len(queue') /\ queue'[i - 1] = queue[i]
        BY <4>1, <4>3
      <4> QED  BY <1>4, <4>2, <4>3 DEF TakenTo
    <3> QED  BY <3>1, <3>2, <3>3
  <2>3. ASSUME NEW i \in 1 .. Len(stdout'), stdout'[i].kind = "mark"
        PROVE  /\ stdout'[i].cuts.nonce \in Nonces /\ stdout'[i].cuts.nonce <= host.last
               /\ stdout'[i].command = NoCommand
               /\ \A c \in before[stdout'[i].cuts.nonce] :
                    c \in settled \/ \E j \in 1 .. Len(stdout') : j < i /\ stdout'[j].command = c
    <3>1. i \in 1 .. Len(stdout) /\ stdout'[i] = stdout[i]
      BY <1>5, <1>7, <2>3 DEF AddedTo
    <3>2. \A j \in 1 .. Len(stdout) : j \in 1 .. Len(stdout') /\ stdout'[j] = stdout[j]
      BY <1>7 DEF AddedTo
    <3> QED  BY <1>1, <2>3, <3>1, <3>2 DEF MarkInv
  <2> QED  BY <1>1, <1>2, <2>1, <2>2, <2>3 DEF MarkInv
<1>13. ErrorInv'
  <2>1. SUFFICES ASSUME errored # {}, ~host.failed
                 PROVE  \/ \E e \in 1 .. Len(stdout') :
                             stdout'[e].kind = "error" /\ (Late => \A i \in 1 .. Len(stdout') : i < e => stdout'[i].kind # "answer")
                        \/ \E e \in 1 .. Len(queue') :
                             /\ queue'[e].kind = "error"
                             /\ Late => /\ \A i \in 1 .. Len(stdout') : stdout'[i].kind # "answer"
                                        /\ \A i \in 1 .. Len(queue') : i < e => queue'[i].kind # "answer"
    BY <1>2 DEF ErrorInv, Late, GrantedBy
  <2>2. /\ Len(stdout) \in Nat /\ stdout'[Len(stdout) + 1] = m /\ Len(stdout) + 1 \in 1 .. Len(stdout')
        /\ \A i \in 1 .. Len(stdout) : stdout'[i] = stdout[i] /\ i \in 1 .. Len(stdout') /\ i < Len(stdout) + 1
        /\ \A i \in 1 .. Len(stdout') : i \in 1 .. Len(stdout) \/ i = Len(stdout) + 1
    BY <1>7 DEF AddedTo
  <2>3. ASSUME NEW e \in 1 .. Len(stdout), stdout[e].kind = "error",
               Late => \A i \in 1 .. Len(stdout) : i < e => stdout[i].kind # "answer"
        PROVE  stdout'[e].kind = "error" /\ (Late => \A i \in 1 .. Len(stdout') : i < e => stdout'[i].kind # "answer")
    <3>1. \A i \in 1 .. Len(stdout') : i < e => i \in 1 .. Len(stdout) /\ stdout'[i] = stdout[i]
      BY <2>2
    <3> QED  BY <2>2, <2>3, <3>1
  <2>4. ASSUME NEW e \in 1 .. Len(queue), queue[e].kind = "error",
               Late => /\ \A i \in 1 .. Len(stdout) : stdout[i].kind # "answer"
                       /\ \A i \in 1 .. Len(queue) : i < e => queue[i].kind # "answer"
        PROVE  \/ \E f \in 1 .. Len(stdout') :
                             stdout'[f].kind = "error" /\ (Late => \A i \in 1 .. Len(stdout') : i < f => stdout'[i].kind # "answer")
               \/ \E f \in 1 .. Len(queue') :
                             /\ queue'[f].kind = "error"
                             /\ Late => /\ \A i \in 1 .. Len(stdout') : stdout'[i].kind # "answer"
                                        /\ \A i \in 1 .. Len(queue') : i < f => queue'[i].kind # "answer"
    <3>1. CASE e = 1
      <4>1. stdout'[Len(stdout) + 1].kind = "error"
        BY <1>6, <2>2, <2>4, <3>1
      <4>2. Late => \A i \in 1 .. Len(stdout') : i < Len(stdout) + 1 => stdout'[i].kind # "answer"
        <5>1. \A i \in 1 .. Len(stdout') : i < Len(stdout) + 1 => i \in 1 .. Len(stdout)
          BY <2>2
        <5> QED  BY <2>2, <2>4, <5>1
      <4> QED  BY <2>2, <4>1, <4>2
    <3>2. CASE e - 1 \in 1 .. Len(queue') /\ queue'[e - 1] = queue[e]
      <4>1. e # 1 /\ e \in Nat /\ 1 < e
        BY <2>4, <3>2
      <4>2. Late => m.kind # "answer"
        BY <1>6, <2>4, <4>1
      <4>3. Late => \A i \in 1 .. Len(stdout') : stdout'[i].kind # "answer"
        BY <2>2, <2>4, <4>2
      <4>4. Late => \A i \in 1 .. Len(queue') : i < e - 1 => queue'[i].kind # "answer"
        <5>1. \A i \in 1 .. Len(queue') : i < e - 1 => i + 1 \in 1 .. Len(queue) /\ i + 1 < e /\ queue'[i] = queue[i + 1]
          BY <1>4, <4>1 DEF TakenTo
        <5> QED  BY <2>4, <5>1
      <4> QED  BY <2>4, <3>2, <4>3, <4>4
    <3> QED  BY <1>4, <3>1, <3>2 DEF TakenTo
  <2>5. CASE \E e \in 1 .. Len(stdout) :
               stdout[e].kind = "error" /\ (Late => \A i \in 1 .. Len(stdout) : i < e => stdout[i].kind # "answer")
    BY <2>2, <2>3, <2>5
  <2>6. CASE \E e \in 1 .. Len(queue) :
         /\ queue[e].kind = "error"
         /\ Late => /\ \A i \in 1 .. Len(stdout) : stdout[i].kind # "answer"
                    /\ \A i \in 1 .. Len(queue) : i < e => queue[i].kind # "answer"
    BY <2>4, <2>6
  <2> QED  BY <1>1, <2>1, <2>5, <2>6 DEF ErrorInv
<1>14. StillPromise
  BY <1>2 DEF StillPromise
<1> QED  BY <1>8, <1>9, <1>10, <1>11, <1>12, <1>13, <1>14, StillFence

(* Errors and answers are not disturbed by a packet that is neither, at    *)
(* the end of stdout.                                                      *)
LEMMA WriterMarksKeeps ==
  ASSUME FenceInv, WriterMarks
  PROVE  FenceInv' /\ StillPromise
<1> DEFINE m == Output("mark", NoCommand, TRUE, mark.cuts, 0)
<1>1. /\ TypeInv /\ TokenInv /\ PlaceInv /\ MarkInv /\ ErrorInv /\ mark # NoMark /\ ~mark.written
      /\ WatermarkReady(mark.cuts)
      /\ stdout' = Append(stdout, m) /\ mark' = [mark EXCEPT !.written = TRUE]
  BY DEF FenceInv, WriterMarks
<1>2. UNCHANGED <<otherProcesses, errored, toEngine, toRunner, stdin, engine, alive, ui, running, accepted,
                 queue, published, wake>>
  BY DEF WriterMarks
<1>3. /\ stdout \in Seq(StdoutType) /\ queue \in Seq(QueueType) /\ published \in Nat
      /\ mark \in [cuts : Cuts, written : BOOLEAN]
  BY <1>1 DEF TypeInv
<1>4. m \in StdoutType /\ m.kind = "mark" /\ m.command = NoCommand /\ m.cuts = mark.cuts
  BY <1>3 DEF Output, StdoutType, OutputOf, Named
<1> HIDE DEF m
<1>5. stdout' \in Seq(StdoutType) /\ AddedTo(stdout, m, stdout')
  BY <1>1, <1>3, <1>4, Added
<1>6. mark' \in [cuts : Cuts, written : BOOLEAN] /\ mark'.written
  BY <1>1, <1>3
<1> USE DEF otherProcesses
<1>7. TypeInv'
  BY <1>1, <1>2, <1>5, <1>6 DEF TypeInv
<1>8. Still /\ Good' = Good
  BY <1>2 DEF Still, Good, GrantedBy
<1>9. One(stdout', "answer") /\ (Some(stdout', "answer") <=> Some(stdout, "answer"))
  BY <1>1, <1>4, <1>5 DEF AddedTo, TokenInv
<1>10. TokenInv'
  <2>1. TokenAt' = TokenAt
    BY <1>2, <1>9 DEF TokenAt, Held
  <2> QED  BY <1>1, <1>2, <1>9, <2>1 DEF TokenInv
<1>11. PlaceInv'
  <2>1. \A c \in Commands : In(stdout', c) <=> In(stdout, c)
    BY <1>4, <1>5, WorkFenceAssumption DEF AddedTo, NoCommand
  <2>2. submitted \subseteq Commands
    BY <1>1 DEF TypeInv
  <2> QED  BY <1>1, <1>2, <2>1, <2>2 DEF PlaceInv, Placed
<1>12. /\ Len(stdout) \in Nat /\ stdout'[Len(stdout) + 1] = m /\ Len(stdout) + 1 \in 1 .. Len(stdout')
       /\ \A i \in 1 .. Len(stdout) : stdout'[i] = stdout[i] /\ i \in 1 .. Len(stdout') /\ i < Len(stdout) + 1
       /\ \A i \in 1 .. Len(stdout') : i \in 1 .. Len(stdout) \/ i = Len(stdout) + 1
  BY <1>5 DEF AddedTo
<1>13. MarkInv'
  <2>1. \A i \in 1 .. Len(queue) : queue[i].sequence <= published
    BY <1>1 DEF MarkInv
  <2>2. ASSUME NEW i \in 1 .. Len(stdout'), stdout'[i].kind = "mark"
        PROVE  /\ stdout'[i].cuts.nonce \in Nonces /\ stdout'[i].cuts.nonce <= host.last
               /\ stdout'[i].command = NoCommand
               /\ \A c \in before[stdout'[i].cuts.nonce] :
                    c \in settled \/ \E j \in 1 .. Len(stdout') : j < i /\ stdout'[j].command = c
    <3>1. CASE i \in 1 .. Len(stdout)
      BY <1>1, <1>12, <2>2, <3>1 DEF MarkInv
    <3>2. CASE i = Len(stdout) + 1
      <4>1. stdout'[i] = m
        BY <1>12, <3>2
      <4>2. ASSUME NEW c \in before[mark.cuts.nonce]
            PROVE  c \in settled \/ \E j \in 1 .. Len(stdout') : j < i /\ stdout'[j].command = c
        <5>1. \/ c \in settled \/ In(stdout, c)
              \/ \E k \in 1 .. Len(queue) : queue[k].command = c /\ queue[k].sequence <= mark.cuts.writer
          BY <1>1, <4>2 DEF MarkInv
        <5>2. \A k \in 1 .. Len(queue) : ~(queue[k].sequence <= mark.cuts.writer)
          <6>1. DOMAIN queue = 1 .. Len(queue)
            BY <1>3
          <6>2. \A k \in 1 .. Len(queue) : queue[k].sequence > mark.cuts.writer
            BY <1>1, <6>1 DEF WatermarkReady
          <6>a. mark.cuts.writer \in Nat
            BY <1>3 DEF Cuts
          <6>b. \A k \in 1 .. Len(queue) : queue[k] \in QueueType
            BY <1>3
          <6>3. mark.cuts.writer \in Nat /\ \A k \in 1 .. Len(queue) : queue[k].sequence \in Nat
            BY <6>a, <6>b DEF QueueType, OutputOf
          <6> QED  BY <6>2, <6>3
        <5>3. CASE In(stdout, c)
          BY <1>12, <3>2, <5>3 DEF In
        <5> QED  BY <5>1, <5>2, <5>3
      <4>3. mark.cuts.nonce \in Nonces /\ mark.cuts.nonce <= host.last
        BY <1>1 DEF MarkInv
      <4> QED  BY <1>4, <4>1, <4>2, <4>3
    <3> QED  BY <1>12, <3>1, <3>2
  <2> QED  BY <1>2, <1>6, <2>1, <2>2 DEF MarkInv
<1>14. ErrorInv'
  <2>1. SUFFICES ASSUME errored # {}, ~host.failed
                 PROVE  \/ \E e \in 1 .. Len(stdout') :
                             stdout'[e].kind = "error" /\ (Late => \A i \in 1 .. Len(stdout') : i < e => stdout'[i].kind # "answer")
                        \/ \E e \in 1 .. Len(queue) :
                             /\ queue[e].kind = "error"
                             /\ Late => /\ \A i \in 1 .. Len(stdout') : stdout'[i].kind # "answer"
                                        /\ \A i \in 1 .. Len(queue) : i < e => queue[i].kind # "answer"
    BY <1>2 DEF ErrorInv, Late, GrantedBy
  <2>2. CASE \E e \in 1 .. Len(stdout) :
               stdout[e].kind = "error" /\ (Late => \A i \in 1 .. Len(stdout) : i < e => stdout[i].kind # "answer")
    <3>1. PICK e \in 1 .. Len(stdout) :
               stdout[e].kind = "error" /\ (Late => \A i \in 1 .. Len(stdout) : i < e => stdout[i].kind # "answer")
      BY <2>2
    <3>2. \A i \in 1 .. Len(stdout') : i < e => i \in 1 .. Len(stdout) /\ stdout'[i] = stdout[i]
      BY <1>12
    <3> QED  BY <1>12, <3>1, <3>2
  <2>3. CASE \E e \in 1 .. Len(queue) :
         /\ queue[e].kind = "error"
         /\ Late => /\ \A i \in 1 .. Len(stdout) : stdout[i].kind # "answer"
                    /\ \A i \in 1 .. Len(queue) : i < e => queue[i].kind # "answer"
    <3>1. (\A i \in 1 .. Len(stdout) : stdout[i].kind # "answer") => \A i \in 1 .. Len(stdout') : stdout'[i].kind # "answer"
      BY <1>4, <1>12
    <3> QED  BY <2>3, <3>1
  <2> QED  BY <1>1, <2>1, <2>2, <2>3 DEF ErrorInv
<1>15. StillPromise
  BY <1>2 DEF StillPromise
<1> QED  BY <1>7, <1>8, <1>10, <1>11, <1>13, <1>14, <1>15, StillFence

-----------------------------------------------------------------------------
(* The reader, the operations and the watching thread.                     *)

(* Only flags change. *)
LEMMA FlagsKeep ==
  ASSUME FenceInv, TypeInv', Still,
         UNCHANGED <<stdin, stdout, ui, running, queue, published, mark, errored>>
  PROVE  FenceInv' /\ StillPromise
<1>1. TypeInv /\ TokenInv /\ PlaceInv /\ MarkInv /\ ErrorInv
  BY DEF FenceInv
<1>2. Good' = Good /\ GrantedBy(engine') = GrantedBy(engine) /\ Held(engine') = Held(engine) /\ Late' = Late
  BY DEF Good, GrantedBy, Held, Still, Late
<1>3. TokenInv'
  <2>1. TokenAt' = TokenAt
    BY <1>2 DEF TokenAt
  <2> QED  BY <1>1, <2>1 DEF TokenInv, Still
<1>4. PlaceInv'
  BY <1>1 DEF PlaceInv, Placed, Still
<1>5. MarkInv'
  BY <1>1 DEF MarkInv, Still
<1>6. ErrorInv'
  BY <1>1, <1>2 DEF ErrorInv, Still
<1>7. StillPromise
  BY DEF StillPromise, Still
<1> QED  BY <1>2, <1>3, <1>4, <1>5, <1>6, <1>7, StillFence

(* The steps that change flags only: faults of several kinds, and the      *)
(* polling thread.                                                         *)
LEMMA FlagStepsKeep ==
  ASSUME FenceInv,
         Disown \/ Stop \/ Expire \/ Crash \/ HostKills \/ PublishUnattested \/ WatcherLoads \/ WatcherReturns
  PROVE  FenceInv' /\ StillPromise
<1>1. TypeInv
  BY DEF FenceInv
<1>2. engine \in EngineType /\ owned \in BOOLEAN /\ stopped \in BOOLEAN /\ alive \in BOOLEAN
  BY <1>1 DEF TypeInv
<1>3. CASE Disown \/ Stop \/ Expire
  <2>1. TypeInv'
    BY <1>1, <1>2, <1>3 DEF TypeInv, Disown, Stop, Expire, channels, engineVars, history
  <2>2. Still
    BY <1>3 DEF Still, Disown, Stop, Expire, channels, engineVars, history
  <2>3. UNCHANGED <<stdin, stdout, ui, running, queue, published, mark, errored>>
    BY <1>3 DEF Disown, Stop, Expire, channels, engineVars, history
  <2> QED  BY <2>1, <2>2, <2>3, FlagsKeep
<1>4. CASE Crash \/ HostKills
  <2>1. TypeInv'
    BY <1>1, <1>2, <1>4 DEF TypeInv, Crash, HostKills, channels, history
  <2>2. Still
    BY <1>4 DEF Still, Crash, HostKills, channels, history
  <2>3. UNCHANGED <<stdin, stdout, ui, running, queue, published, mark, errored>>
    BY <1>4 DEF Crash, HostKills, channels, history
  <2> QED  BY <2>1, <2>2, <2>3, FlagsKeep
<1>5. CASE PublishUnattested
  <2>1. engine' \in EngineType /\ engine'.work = engine.work /\ engine'.nonce = engine.nonce
    BY <1>2, <1>5 DEF PublishUnattested, EngineType
  <2>2. TypeInv'
    BY <1>1, <1>2, <1>5, <2>1 DEF TypeInv, PublishUnattested, otherProcesses
  <2>3. Still
    BY <1>5, <2>1 DEF Still, PublishUnattested, otherProcesses
  <2>4. UNCHANGED <<stdin, stdout, ui, running, queue, published, mark, errored>>
    BY <1>5 DEF PublishUnattested
  <2> QED  BY <2>2, <2>3, <2>4, FlagsKeep
<1>6. CASE WatcherLoads \/ WatcherReturns
  <2>1. UNCHANGED <<ui, watcherUnchanged>>
    BY <1>6 DEF WatcherLoads, WatcherReturns
  <2>2. TypeInv'
    BY <1>1, <1>2, <2>1 DEF TypeInv, watcherUnchanged, otherProcesses, channels
  <2>3. Still
    BY <2>1 DEF Still, watcherUnchanged, otherProcesses, channels
  <2>4. UNCHANGED <<stdin, stdout, ui, running, queue, published, mark, errored>>
    BY <2>1 DEF watcherUnchanged, channels
  <2> QED  BY <2>2, <2>3, <2>4, FlagsKeep
<1> QED  BY <1>3, <1>4, <1>5, <1>6

(* A command moves from one place to another. *)
LEMMA PlaceMoves ==
  ASSUME FenceInv, Still,
         \A c \in Commands : In(stdout', c) \/ In(queue', c) \/ c \in running' \/ In(ui', c) \/ In(stdin', c)
                         <=> In(stdout, c) \/ In(queue, c) \/ c \in running \/ In(ui, c) \/ In(stdin, c),
         \A i \in 1 .. Len(stdin') : stdin'[i].kind = "barrier" <=> stdin'[i].command = NoCommand,
         \A i \in 1 .. Len(ui') : ui'[i].kind \in {"barrier", "watch"} <=> ui'[i].command = NoCommand,
         Fenced(stdin', before)
  PROVE  PlaceInv'
<1>1. PlaceInv /\ submitted \subseteq Commands
  BY DEF FenceInv, TypeInv
<1>2. \A c \in submitted' : Placed(c)'
  BY <1>1 DEF PlaceInv, Placed, Still
<1>3. \A c \in Commands : In(stdout', c) \/ In(queue', c) \/ c \in running' \/ In(ui', c) \/ In(stdin', c) => c \in submitted'
  BY <1>1 DEF PlaceInv, Still
<1>4. /\ \A n \in Nonces : before'[n] \subseteq submitted' /\ (n > host'.last => before'[n] = {})
      /\ settled' \subseteq submitted' /\ Fenced(stdin', before')
  BY <1>1 DEF PlaceInv, Still
<1> QED  BY <1>2, <1>3, <1>4 DEF PlaceInv

(* The writer's queue grows by a packet. *)
LEMMA QueueGrows ==
  ASSUME FenceInv, Still, UNCHANGED <<stdout, mark, errored>>,
         NEW x \in QueueType, x.sequence = published + 1, published' = published + 1, AddedTo(queue, x, queue')
  PROVE  MarkInv' /\ ErrorInv'
<1>1. TypeInv /\ MarkInv /\ ErrorInv /\ Late' = Late
  BY DEF FenceInv, Late, Still, GrantedBy
<1>2. published \in Nat /\ queue \in Seq(QueueType)
  BY <1>1 DEF TypeInv
<1>3. /\ \A i \in 1 .. Len(queue) : i \in 1 .. Len(queue') /\ queue'[i] = queue[i] /\ i < Len(queue) + 1
      /\ \A i \in 1 .. Len(queue') : i \in 1 .. Len(queue) \/ i = Len(queue) + 1
      /\ queue'[Len(queue) + 1] = x /\ Len(queue) \in Nat
  BY DEF AddedTo
<1>4. \A i \in 1 .. Len(queue') : queue'[i].sequence <= published'
  <2> SUFFICES ASSUME NEW i \in 1 .. Len(queue') PROVE queue'[i].sequence <= published'
    OBVIOUS
  <2>1. CASE i \in 1 .. Len(queue)
    <3>1. queue[i].sequence <= published /\ queue'[i] = queue[i] /\ queue[i] \in QueueType
      BY <1>1, <1>2, <1>3, <2>1 DEF MarkInv
    <3>2. queue[i].sequence \in Nat
      BY <3>1 DEF QueueType, OutputOf
    <3> QED  BY <1>2, <3>1, <3>2
  <2>2. CASE i = Len(queue) + 1
    BY <1>2, <1>3, <2>2
  <2> QED  BY <1>3, <2>1, <2>2
<1>5. MarkInv'
  <2>1. mark # NoMark /\ ~mark.written =>
       /\ mark.cuts.nonce \in Nonces /\ mark.cuts.nonce <= host.last
       /\ \A c \in before[mark.cuts.nonce] :
            \/ c \in settled \/ In(stdout, c)
            \/ \E i \in 1 .. Len(queue') : queue'[i].command = c /\ queue'[i].sequence <= mark.cuts.writer
    BY <1>1, <1>3 DEF MarkInv
  <2> QED  BY <1>1, <1>4, <2>1 DEF MarkInv, Still
<1>6. ErrorInv'
  <2>1. SUFFICES ASSUME errored # {}, ~host.failed
                 PROVE  \/ \E e \in 1 .. Len(stdout) :
                             stdout[e].kind = "error" /\ (Late => \A i \in 1 .. Len(stdout) : i < e => stdout[i].kind # "answer")
                        \/ \E e \in 1 .. Len(queue') :
                             /\ queue'[e].kind = "error"
                             /\ Late => /\ \A i \in 1 .. Len(stdout) : stdout[i].kind # "answer"
                                        /\ \A i \in 1 .. Len(queue') : i < e => queue'[i].kind # "answer"
    BY <1>1 DEF ErrorInv, Still
  <2>2. CASE \E e \in 1 .. Len(stdout) :
               stdout[e].kind = "error" /\ (Late => \A i \in 1 .. Len(stdout) : i < e => stdout[i].kind # "answer")
    BY <2>2
  <2>3. CASE \E e \in 1 .. Len(queue) :
         /\ queue[e].kind = "error"
         /\ Late => /\ \A i \in 1 .. Len(stdout) : stdout[i].kind # "answer"
                    /\ \A i \in 1 .. Len(queue) : i < e => queue[i].kind # "answer"
    <3>1. PICK e \in 1 .. Len(queue) :
         /\ queue[e].kind = "error"
         /\ Late => /\ \A i \in 1 .. Len(stdout) : stdout[i].kind # "answer"
                    /\ \A i \in 1 .. Len(queue) : i < e => queue[i].kind # "answer"
      BY <2>3
    <3>2. \A i \in 1 .. Len(queue') : i < e => i \in 1 .. Len(queue)
      BY <1>3
    <3> QED  BY <1>3, <3>1, <3>2, SMTT(40)
  <2> QED  BY <1>1, <2>1, <2>2, <2>3 DEF ErrorInv
<1> QED  BY <1>5, <1>6

(* Nothing happens at the writer. *)
LEMMA WriterStays ==
  ASSUME FenceInv, Still, UNCHANGED <<stdout, queue, published, mark, errored>>
  PROVE  MarkInv' /\ ErrorInv'
<1>1. MarkInv /\ ErrorInv /\ Late' = Late
  BY DEF FenceInv, Late, Still, GrantedBy
<1> QED  BY <1>1 DEF MarkInv, ErrorInv, Still

(* WatcherPosts: the polling thread posts its task.                        *)
LEMMA WatcherPostsKeeps ==
  ASSUME FenceInv, WatcherPosts
  PROVE  FenceInv' /\ StillPromise
<1>1. /\ TypeInv /\ TokenInv /\ PlaceInv /\ ui' = Append(ui, WatchTask) /\ UNCHANGED watcherUnchanged
  BY DEF FenceInv, WatcherPosts
<1>2. ui \in Seq(TaskType)
  BY <1>1 DEF TypeInv
<1>3. WatchTask \in TaskType /\ WatchTask.kind = "watch" /\ WatchTask.command = NoCommand
  BY DEF WatchTask, Task, TaskType, Named, NoChallenge, Challenges
<1>4. ui' \in Seq(TaskType) /\ AddedTo(ui, WatchTask, ui')
  BY <1>1, <1>2, <1>3, Added
<1>5. TypeInv' /\ Still /\ UNCHANGED <<stdin, stdout, running, queue, published, mark, errored>>
  <2>1. TypeInv'
    BY <1>1, <1>4 DEF TypeInv, watcherUnchanged, otherProcesses, channels
  <2>2. Still
    BY <1>1 DEF Still, watcherUnchanged, otherProcesses, channels
  <2>3. UNCHANGED <<stdin, stdout, running, queue, published, mark, errored>>
    BY <1>1 DEF watcherUnchanged, otherProcesses, channels
  <2> QED  BY <2>1, <2>2, <2>3
<1>6. Good' = Good
  BY <1>5 DEF Still, Good, GrantedBy
<1>7. TokenInv'
  <2>1. (Some(ui', "barrier") <=> Some(ui, "barrier")) /\ One(ui', "barrier")
    BY <1>1, <1>3, <1>4 DEF TokenInv, AddedTo
  <2>2. TokenAt' = TokenAt
    BY <1>5, <2>1 DEF TokenAt, Held, Still
  <2>3. \A i \in 1 .. Len(ui') : ui'[i].kind = "barrier" => ui'[i].challenge.nonce <= host.last
    BY <1>1, <1>3, <1>4 DEF TokenInv, AddedTo
  <2> QED  BY <1>1, <1>5, <2>1, <2>2, <2>3 DEF TokenInv, Still
<1>8. PlaceInv'
  <2>1. \A c \in Commands : In(ui', c) <=> In(ui, c)
    BY <1>3, <1>4, WorkFenceAssumption DEF AddedTo, NoCommand
  <2>2. \A c \in Commands : In(stdout', c) \/ In(queue', c) \/ c \in running' \/ In(ui', c) \/ In(stdin', c)
                         <=> In(stdout, c) \/ In(queue, c) \/ c \in running \/ In(ui, c) \/ In(stdin, c)
    BY <1>5, <2>1
  <2>3. \A i \in 1 .. Len(ui') : ui'[i].kind \in {"barrier", "watch"} <=> ui'[i].command = NoCommand
    BY <1>1, <1>3, <1>4 DEF PlaceInv, AddedTo
  <2>4. /\ \A i \in 1 .. Len(stdin') : stdin'[i].kind = "barrier" <=> stdin'[i].command = NoCommand
        /\ Fenced(stdin', before)
    BY <1>1, <1>5 DEF PlaceInv
  <2> QED  BY <1>5, <2>2, <2>3, <2>4, PlaceMoves
<1>9. MarkInv' /\ ErrorInv' /\ StillPromise
  BY <1>5, WriterStays DEF StillPromise, Still
<1> QED  BY <1>5, <1>6, <1>7, <1>8, <1>9, StillFence

(* What is left of the pipe is fenced as the pipe was. *)
LEMMA FencedTail ==
  ASSUME NEW s \in Seq(LineType), s # <<>>, NEW t, t = Tail(s), NEW b, Fenced(s, b)
  PROVE  Fenced(t, b)
<1>1. TakenTo(s, t)
  BY Taken
<1>2. SUFFICES ASSUME NEW i \in 1 .. Len(t), NEW n \in Nonces, t[i].command \in b[n]
               PROVE  \E j \in 1 .. Len(t) : i < j /\ t[j].kind = "barrier" /\ t[j].challenge.nonce = n
  BY DEF Fenced
<1>3. i + 1 \in 1 .. Len(s) /\ s[i + 1] = t[i]
  BY <1>1 DEF TakenTo
<1>4. PICK j \in 1 .. Len(s) : i + 1 < j /\ s[j].kind = "barrier" /\ s[j].challenge.nonce = n
  BY <1>2, <1>3 DEF Fenced
<1>5. j # 1 /\ i < j - 1
  BY <1>4
<1>6. j - 1 \in 1 .. Len(t) /\ t[j - 1] = s[j]
  BY <1>1, <1>4, <1>5 DEF TakenTo
<1> QED  BY <1>4, <1>5, <1>6

(* ReaderAccepts: a line of stdin becomes a task.                          *)
LEMMA ReaderAcceptsKeeps ==
  ASSUME FenceInv, ReaderAccepts
  PROVE  FenceInv' /\ StillPromise
<1> DEFINE l == Head(stdin)
           x == Task(l.kind, l.command, l.challenge, accepted + 1)
<1>1. /\ TypeInv /\ TokenInv /\ PlaceInv /\ stdin # <<>>
      /\ ui' = Append(ui, x) /\ accepted' = accepted + 1 /\ stdin' = Tail(stdin)
  BY DEF FenceInv, ReaderAccepts
<1>2. UNCHANGED <<otherProcesses, errored, toEngine, toRunner, stdout, engine, alive, running, queue,
                 published, mark, wake>>
  BY DEF ReaderAccepts
<1>3. stdin \in Seq(LineType) /\ ui \in Seq(TaskType) /\ accepted \in Nat
  BY <1>1 DEF TypeInv
<1>4. stdin' \in Seq(LineType) /\ l \in LineType /\ TakenTo(stdin, stdin')
  BY <1>1, <1>3, Taken
<1>a. l = stdin[1] /\ 1 \in 1 .. Len(stdin)
  <2>1. Len(stdin) \in Nat \ {0} /\ l = stdin[1]
    BY <1>4 DEF TakenTo
  <2> QED  BY <2>1
<1>5. x \in TaskType /\ x.kind = l.kind /\ x.command = l.command /\ x.challenge = l.challenge
      /\ x.kind \in {"command", "barrier"}
  BY <1>3, <1>4 DEF Task, TaskType, LineType
<1> HIDE DEF x, l
<1>6. ui' \in Seq(TaskType) /\ AddedTo(ui, x, ui')
  BY <1>1, <1>3, <1>5, Added
<1>7. TypeInv'
  <2>1. accepted' \in Nat
    BY <1>1, <1>3
  <2> QED  BY <1>1, <1>2, <1>4, <1>6, <2>1 DEF TypeInv, otherProcesses
<1>8. Still /\ Good' = Good
  BY <1>2 DEF Still, otherProcesses, Good, GrantedBy
<1>9. TokenInv'
  <2>1. /\ One(stdin', "barrier")
        /\ (Some(stdin', "barrier") => Some(stdin, "barrier"))
    BY <1>1, <1>4 DEF TokenInv, TakenTo
  <2>2. \A i \in 1 .. Len(stdin') : stdin'[i].kind = "barrier" => stdin'[i].challenge.nonce <= host.last
    BY <1>1, <1>4 DEF TokenInv, TakenTo
  <2>3. \A i \in 1 .. Len(ui') : ui'[i].kind = "barrier" => ui'[i].challenge.nonce <= host.last
    BY <1>1, <1>a, <1>5, <1>6 DEF TokenInv, AddedTo
  <2>4. CASE l.kind = "barrier"
    <3>1. ~Some(stdin', "barrier")
      BY <1>1, <1>4, <2>4 DEF TokenInv, TakenTo, l
    <3>2. 1 \in TokenAt
      BY <1>a, <2>4 DEF TokenAt, Some
    <3>3. \A k \in TokenAt : k = 1
      BY <1>1, <3>2 DEF TokenInv
    <3>4. ~Some(ui, "barrier")
      BY <3>3 DEF TokenAt
    <3>5. One(ui', "barrier")
      BY <1>1, <1>6, <3>4 DEF TokenInv, AddedTo
    <3>6. \A k \in TokenAt' : k = 2
      BY <1>2, <3>1, <3>3 DEF TokenAt, Held
    <3> QED  BY <1>1, <1>2, <2>1, <2>2, <2>3, <3>2, <3>5, <3>6 DEF TokenInv, otherProcesses
  <2>5. CASE l.kind # "barrier"
    <3>1. One(ui', "barrier") /\ (Some(ui', "barrier") <=> Some(ui, "barrier"))
      BY <1>1, <1>5, <1>6, <2>5 DEF TokenInv, AddedTo
    <3>2. TokenAt' \subseteq TokenAt
      BY <1>2, <2>1, <3>1 DEF TokenAt, Held
    <3> QED  BY <1>1, <1>2, <2>1, <2>2, <2>3, <3>1, <3>2 DEF TokenInv, otherProcesses
  <2> QED  BY <2>4, <2>5
<1>10. PlaceInv'
  <2>1. \A c : In(ui', c) \/ In(stdin', c) <=> In(ui, c) \/ In(stdin, c)
    BY <1>4, <1>5, <1>6 DEF TakenTo, AddedTo, l
  <2>2. \A c \in Commands : In(stdout', c) \/ In(queue', c) \/ c \in running' \/ In(ui', c) \/ In(stdin', c)
                         <=> In(stdout, c) \/ In(queue, c) \/ c \in running \/ In(ui, c) \/ In(stdin, c)
    BY <1>2, <2>1
  <2>3. l.kind = "barrier" <=> l.command = NoCommand
    BY <1>1, <1>a DEF PlaceInv
  <2>4. \A i \in 1 .. Len(ui') : ui'[i].kind \in {"barrier", "watch"} <=> ui'[i].command = NoCommand
    BY <1>1, <1>5, <1>6, <2>3 DEF PlaceInv, AddedTo
  <2>5. \A i \in 1 .. Len(stdin') : stdin'[i].kind = "barrier" <=> stdin'[i].command = NoCommand
    BY <1>1, <1>4 DEF PlaceInv, TakenTo
  <2>6. Fenced(stdin', before)
    BY <1>1, <1>3, FencedTail DEF PlaceInv
  <2> QED  BY <1>8, <2>2, <2>4, <2>5, <2>6, PlaceMoves
<1>11. MarkInv' /\ ErrorInv' /\ StillPromise
  BY <1>2, <1>8, WriterStays DEF StillPromise, otherProcesses
<1> QED  BY <1>7, <1>8, <1>9, <1>10, <1>11, StillFence

(* A command's route task begins its operation; a reply's task sends it.   *)
LEMMA UITaskTaken ==
  ASSUME FenceInv, ui # <<>>, ui' = Tail(ui), Head(ui).kind \in {"command", "reply"}
  PROVE  /\ ui' \in Seq(TaskType) /\ TakenTo(ui, ui') /\ Head(ui).command \in Commands
         /\ One(ui', "barrier") /\ (Some(ui', "barrier") <=> Some(ui, "barrier"))
         /\ \A i \in 1 .. Len(ui') : ui'[i].kind = "barrier" => ui'[i].challenge.nonce <= host.last
         /\ \A i \in 1 .. Len(ui') : ui'[i].kind \in {"barrier", "watch"} <=> ui'[i].command = NoCommand
<1>1. TypeInv /\ TokenInv /\ PlaceInv
  BY DEF FenceInv
<1>2. ui \in Seq(TaskType)
  BY <1>1 DEF TypeInv
<1>3. ui' \in Seq(TaskType) /\ Head(ui) \in TaskType /\ TakenTo(ui, ui')
  BY <1>2, Taken
<1>4. Head(ui) = ui[1] /\ 1 \in 1 .. Len(ui)
  <2>1. Len(ui) \in Nat \ {0} /\ Head(ui) = ui[1]
    BY <1>3 DEF TakenTo
  <2> QED  BY <2>1
<1>5. Head(ui).command # NoCommand
  BY <1>1, <1>4 DEF PlaceInv
<1>6. Head(ui).command \in Commands
  BY <1>3, <1>5 DEF TaskType, Named
<1>7. One(ui', "barrier") /\ (Some(ui', "barrier") <=> Some(ui, "barrier"))
  BY <1>1, <1>3 DEF TokenInv, TakenTo
<1>8. \A i \in 1 .. Len(ui') : ui'[i].kind = "barrier" => ui'[i].challenge.nonce <= host.last
  BY <1>1, <1>3 DEF TokenInv, TakenTo
<1>9. \A i \in 1 .. Len(ui') : ui'[i].kind \in {"barrier", "watch"} <=> ui'[i].command = NoCommand
  BY <1>1, <1>3 DEF PlaceInv, TakenTo
<1> QED  BY <1>3, <1>6, <1>7, <1>8, <1>9

(* UICommand: the operation of a command begins.                           *)
LEMMA UICommandKeeps ==
  ASSUME FenceInv, UICommand
  PROVE  FenceInv' /\ StillPromise
<1> DEFINE c0 == Head(ui).command
<1>1. /\ TypeInv /\ TokenInv /\ PlaceInv /\ ui # <<>> /\ Head(ui).kind \in {"command", "reply"}
      /\ ui' = Tail(ui) /\ running' = running \cup {c0}
  BY DEF FenceInv, UICommand
<1>2. UNCHANGED <<otherProcesses, errored, toEngine, toRunner, stdin, stdout, engine, alive, accepted,
                 queue, published, mark, wake>>
  BY DEF UICommand
<1>3. /\ ui' \in Seq(TaskType) /\ TakenTo(ui, ui') /\ c0 \in Commands
      /\ One(ui', "barrier") /\ (Some(ui', "barrier") <=> Some(ui, "barrier"))
      /\ \A i \in 1 .. Len(ui') : ui'[i].kind = "barrier" => ui'[i].challenge.nonce <= host.last
      /\ \A i \in 1 .. Len(ui') : ui'[i].kind \in {"barrier", "watch"} <=> ui'[i].command = NoCommand
  BY <1>1, UITaskTaken
<1>4. \A c : In(ui, c) <=> In(ui', c) \/ c0 = c
  BY <1>3 DEF TakenTo
<1> HIDE DEF c0
<1>5. TypeInv'
  <2>1. running' \subseteq Commands
    BY <1>1, <1>3 DEF TypeInv
  <2> QED  BY <1>1, <1>2, <1>3, <2>1 DEF TypeInv, otherProcesses
<1>6. Still /\ Good' = Good
  BY <1>2 DEF Still, otherProcesses, Good, GrantedBy
<1>7. TokenInv'
  <2>1. TokenAt' = TokenAt
    BY <1>2, <1>3 DEF TokenAt, Held
  <2> QED  BY <1>1, <1>2, <1>3, <2>1 DEF TokenInv, otherProcesses
<1>8. PlaceInv'
  <2>1. \A c \in Commands : In(stdout', c) \/ In(queue', c) \/ c \in running' \/ In(ui', c) \/ In(stdin', c)
                         <=> In(stdout, c) \/ In(queue, c) \/ c \in running \/ In(ui, c) \/ In(stdin, c)
    BY <1>1, <1>2, <1>4
  <2>2. /\ \A i \in 1 .. Len(stdin') : stdin'[i].kind = "barrier" <=> stdin'[i].command = NoCommand
        /\ Fenced(stdin', before)
    BY <1>1, <1>2 DEF PlaceInv
  <2> QED  BY <1>3, <1>6, <2>1, <2>2, PlaceMoves
<1>9. MarkInv' /\ ErrorInv' /\ StillPromise
  BY <1>2, <1>6, WriterStays DEF StillPromise, otherProcesses
<1> QED  BY <1>5, <1>6, <1>7, <1>8, <1>9, StillFence

(* The writer is given the reply of a command.                             *)
LEMMA Replied ==
  ASSUME FenceInv, NEW c \in Commands, Reply(c)
  PROVE  \E x \in QueueType :
           /\ x.kind = "reply" /\ x.command = c /\ x.sequence = published + 1
           /\ queue' \in Seq(QueueType) /\ AddedTo(queue, x, queue') /\ published' = published + 1 /\ published' \in Nat
           /\ One(queue', "answer") /\ (Some(queue', "answer") <=> Some(queue, "answer"))
<1> DEFINE x == Output("reply", c, TRUE, NoCuts, published + 1)
<1>1. TypeInv /\ TokenInv
  BY DEF FenceInv
<1>2. queue \in Seq(QueueType) /\ published \in Nat /\ queue' = Append(queue, x) /\ published' = published + 1
  BY <1>1 DEF TypeInv, Reply
<1>a. NoCuts \in Cuts /\ published + 1 \in Nat
  BY <1>2 DEF NoCuts, Cuts
<1>3. x \in QueueType /\ x.kind = "reply" /\ x.command = c /\ x.sequence = published + 1
  BY <1>a DEF Output, QueueType, OutputOf, Named
<1> HIDE DEF x
<1>4. queue' \in Seq(QueueType) /\ AddedTo(queue, x, queue')
  BY <1>2, <1>3, Added
<1>5. One(queue', "answer") /\ (Some(queue', "answer") <=> Some(queue, "answer"))
  BY <1>1, <1>3, <1>4 DEF TokenInv, AddedTo
<1> QED  BY <1>2, <1>a, <1>3, <1>4, <1>5

(* UIReply: the posted reply of a command goes to the writer.              *)
LEMMA UIReplyKeeps ==
  ASSUME FenceInv, UIReply
  PROVE  FenceInv' /\ StillPromise
<1> DEFINE c0 == Head(ui).command
<1>1. /\ TypeInv /\ TokenInv /\ PlaceInv /\ ui # <<>> /\ Head(ui).kind \in {"command", "reply"}
      /\ ui' = Tail(ui) /\ Reply(c0)
  BY DEF FenceInv, UIReply
<1>2. UNCHANGED <<otherProcesses, errored, toEngine, toRunner, stdin, stdout, engine, alive, running,
                 accepted, mark, wake>>
  BY DEF UIReply
<1>3. /\ ui' \in Seq(TaskType) /\ TakenTo(ui, ui') /\ c0 \in Commands
      /\ One(ui', "barrier") /\ (Some(ui', "barrier") <=> Some(ui, "barrier"))
      /\ \A i \in 1 .. Len(ui') : ui'[i].kind = "barrier" => ui'[i].challenge.nonce <= host.last
      /\ \A i \in 1 .. Len(ui') : ui'[i].kind \in {"barrier", "watch"} <=> ui'[i].command = NoCommand
  BY <1>1, UITaskTaken
<1>4. \A c : In(ui, c) <=> In(ui', c) \/ c0 = c
  BY <1>3 DEF TakenTo
<1> HIDE DEF c0
<1>5. PICK x \in QueueType :
           /\ x.kind = "reply" /\ x.command = c0 /\ x.sequence = published + 1
           /\ queue' \in Seq(QueueType) /\ AddedTo(queue, x, queue') /\ published' = published + 1 /\ published' \in Nat
           /\ One(queue', "answer") /\ (Some(queue', "answer") <=> Some(queue, "answer"))
  BY <1>1, <1>3, Replied
<1>6. TypeInv'
  BY <1>1, <1>2, <1>3, <1>5 DEF TypeInv, otherProcesses
<1>7. Still /\ Good' = Good
  BY <1>2 DEF Still, otherProcesses, Good, GrantedBy
<1>8. TokenInv'
  <2>1. TokenAt' = TokenAt
    BY <1>2, <1>3, <1>5 DEF TokenAt, Held
  <2> QED  BY <1>1, <1>2, <1>3, <1>5, <2>1 DEF TokenInv, otherProcesses
<1>9. PlaceInv'
  <2>1. \A c : In(queue', c) <=> In(queue, c) \/ c0 = c
    BY <1>5 DEF AddedTo
  <2>2. \A c \in Commands : In(stdout', c) \/ In(queue', c) \/ c \in running' \/ In(ui', c) \/ In(stdin', c)
                         <=> In(stdout, c) \/ In(queue, c) \/ c \in running \/ In(ui, c) \/ In(stdin, c)
    BY <1>2, <1>4, <2>1
  <2>3. /\ \A i \in 1 .. Len(stdin') : stdin'[i].kind = "barrier" <=> stdin'[i].command = NoCommand
        /\ Fenced(stdin', before)
    BY <1>1, <1>2 DEF PlaceInv
  <2> QED  BY <1>3, <1>7, <2>2, <2>3, PlaceMoves
<1>10. MarkInv' /\ ErrorInv' /\ StillPromise
  BY <1>2, <1>5, <1>7, QueueGrows DEF StillPromise, otherProcesses
<1> QED  BY <1>6, <1>7, <1>8, <1>9, <1>10, StillFence

(* An operation ends: it answers at once, or posts the task that does.     *)
LEMMA OperationEndsKeeps ==
  ASSUME FenceInv, NEW c0 \in Commands, OperationEnds(c0)
  PROVE  FenceInv' /\ StillPromise
<1>1. /\ TypeInv /\ TokenInv /\ PlaceInv /\ c0 \in running /\ running' = running \ {c0}
      /\ \/ Reply(c0) /\ UNCHANGED ui
         \/ /\ ui' = Append(ui, Task("reply", c0, NoChallenge, 0))
            /\ UNCHANGED <<queue, published>>
  BY DEF FenceInv, OperationEnds
<1>2. UNCHANGED <<otherProcesses, errored, toEngine, toRunner, stdin, stdout, engine, alive, accepted,
                 mark, wake>>
  BY DEF OperationEnds
<1>3. Still /\ Good' = Good /\ running' \subseteq Commands
  BY <1>1, <1>2 DEF Still, otherProcesses, Good, GrantedBy, TypeInv
<1>4. /\ \A i \in 1 .. Len(stdin') : stdin'[i].kind = "barrier" <=> stdin'[i].command = NoCommand
      /\ Fenced(stdin', before)
  BY <1>1, <1>2 DEF PlaceInv
<1>5. CASE Reply(c0) /\ UNCHANGED ui
  <2>1. PICK x \in QueueType :
           /\ x.kind = "reply" /\ x.command = c0 /\ x.sequence = published + 1
           /\ queue' \in Seq(QueueType) /\ AddedTo(queue, x, queue') /\ published' = published + 1 /\ published' \in Nat
           /\ One(queue', "answer") /\ (Some(queue', "answer") <=> Some(queue, "answer"))
    BY <1>5, Replied
  <2>2. TypeInv'
    BY <1>1, <1>2, <1>3, <1>5, <2>1 DEF TypeInv, otherProcesses
  <2>3. TokenInv'
    <3>1. TokenAt' = TokenAt
      BY <1>2, <1>5, <2>1 DEF TokenAt, Held
    <3> QED  BY <1>1, <1>2, <1>5, <2>1, <3>1 DEF TokenInv, otherProcesses
  <2>4. PlaceInv'
    <3>1. \A c : In(queue', c) <=> In(queue, c) \/ c0 = c
      BY <2>1 DEF AddedTo
    <3>2. \A c \in Commands : In(stdout', c) \/ In(queue', c) \/ c \in running' \/ In(ui', c) \/ In(stdin', c)
                           <=> In(stdout, c) \/ In(queue, c) \/ c \in running \/ In(ui, c) \/ In(stdin, c)
      BY <1>1, <1>2, <1>5, <3>1
    <3>3. \A i \in 1 .. Len(ui') : ui'[i].kind \in {"barrier", "watch"} <=> ui'[i].command = NoCommand
      BY <1>1, <1>5 DEF PlaceInv
    <3> QED  BY <1>3, <1>4, <3>2, <3>3, PlaceMoves
  <2>5. MarkInv' /\ ErrorInv' /\ StillPromise
    BY <1>2, <1>3, <2>1, QueueGrows DEF StillPromise, otherProcesses
  <2> QED  BY <1>3, <2>2, <2>3, <2>4, <2>5, StillFence
<1>6. CASE ui' = Append(ui, Task("reply", c0, NoChallenge, 0)) /\ UNCHANGED <<queue, published>>
  <2> DEFINE x == Task("reply", c0, NoChallenge, 0)
  <2>1. ui \in Seq(TaskType)
    BY <1>1 DEF TypeInv
  <2>2. x \in TaskType /\ x.kind = "reply" /\ x.command = c0 /\ c0 # NoCommand
    BY WorkFenceAssumption DEF Task, TaskType, Named, NoChallenge, Challenges, NoCommand
  <2>3. ui' = Append(ui, x)
    BY <1>6
  <2> HIDE DEF x
  <2>4. ui' \in Seq(TaskType) /\ AddedTo(ui, x, ui')
    BY <2>1, <2>2, <2>3, Added
  <2>5. TypeInv'
    BY <1>1, <1>2, <1>3, <1>6, <2>4 DEF TypeInv, otherProcesses
  <2>6. TokenInv'
    <3>1. One(ui', "barrier") /\ (Some(ui', "barrier") <=> Some(ui, "barrier"))
      BY <1>1, <2>2, <2>4 DEF TokenInv, AddedTo
    <3>2. \A i \in 1 .. Len(ui') : ui'[i].kind = "barrier" => ui'[i].challenge.nonce <= host.last
      BY <1>1, <2>2, <2>4 DEF TokenInv, AddedTo
    <3>3. TokenAt' = TokenAt
      BY <1>2, <1>6, <3>1 DEF TokenAt, Held
    <3> QED  BY <1>1, <1>2, <1>6, <3>1, <3>2, <3>3 DEF TokenInv, otherProcesses
  <2>7. PlaceInv'
    <3>1. \A c : In(ui', c) <=> In(ui, c) \/ c0 = c
      BY <2>2, <2>4 DEF AddedTo
    <3>2. \A c \in Commands : In(stdout', c) \/ In(queue', c) \/ c \in running' \/ In(ui', c) \/ In(stdin', c)
                           <=> In(stdout, c) \/ In(queue, c) \/ c \in running \/ In(ui, c) \/ In(stdin, c)
      BY <1>1, <1>2, <1>6, <3>1
    <3>3. \A i \in 1 .. Len(ui') : ui'[i].kind \in {"barrier", "watch"} <=> ui'[i].command = NoCommand
      BY <1>1, <2>2, <2>4 DEF PlaceInv, AddedTo
    <3> QED  BY <1>3, <1>4, <3>2, <3>3, PlaceMoves
  <2>8. MarkInv' /\ ErrorInv' /\ StillPromise
    BY <1>2, <1>3, <1>6, WriterStays DEF StillPromise, otherProcesses
  <2> QED  BY <1>3, <2>5, <2>6, <2>7, <2>8, StillFence
<1> QED  BY <1>1, <1>5, <1>6

(* The event queue overflows: the error goes ahead of the writer's queue.  *)
LEMMA EventOverflowKeeps ==
  ASSUME FenceInv, EventOverflow
  PROVE  FenceInv' /\ StillPromise
<1> DEFINE x == Output("error", NoCommand, FALSE, NoCuts, published + 1)
<1>1. /\ TypeInv /\ TokenInv /\ PlaceInv /\ MarkInv /\ errored = {}
      /\ queue' = <<x>> \o queue /\ published' = published + 1
      /\ errored' = {n \in Nonces : n > engine.nonce \/ (n = engine.nonce /\ engine.work # NoEngineWork
                                                         /\ ~engine.work.granted)} \cup {0}
  BY DEF FenceInv, EventOverflow
<1>2. UNCHANGED <<otherProcesses, toEngine, toRunner, stdin, stdout, engine, alive, ui, running, accepted,
                 mark, wake>>
  BY DEF EventOverflow
<1>3. /\ queue \in Seq(QueueType) /\ published \in Nat /\ published + 1 \in Nat /\ engine.nonce \in Nat
      /\ Nonces \subseteq Nat \ {0} /\ mark \in [cuts : Cuts, written : BOOLEAN]
  <2>1. queue \in Seq(QueueType) /\ published \in Nat /\ mark \in [cuts : Cuts, written : BOOLEAN]
    BY <1>1 DEF TypeInv
  <2>2. engine.nonce \in Nat
    BY <1>1, StateIs
  <2>3. Nonces \subseteq Nat \ {0}
    BY HostWorkAssumption
  <2> QED  BY <2>1, <2>2, <2>3
<1>4. x \in QueueType /\ x.kind = "error" /\ x.command = NoCommand /\ x.sequence = published + 1
  <2>1. NoCuts \in Cuts
    BY DEF NoCuts, Cuts
  <2> QED  BY <1>3, <2>1 DEF Output, QueueType, OutputOf, Named
<1> HIDE DEF x
<1>5. queue' \in Seq(QueueType) /\ FrontedTo(queue, x, queue')
  BY <1>1, <1>3, <1>4, Fronted
<1>6. /\ Len(queue) \in Nat /\ queue'[1] = x /\ 1 \in 1 .. Len(queue')
      /\ \A i \in 1 .. Len(queue') : i = 1 \/ (i - 1 \in 1 .. Len(queue) /\ queue'[i] = queue[i - 1])
      /\ \A i \in 1 .. Len(queue) : i + 1 \in 1 .. Len(queue') /\ queue'[i + 1] = queue[i]
  BY <1>5 DEF FrontedTo
<1>7. TypeInv'
  <2>a. \A n \in Nonces : n \in Nat
    BY <1>3
  <2>b. \A n \in errored' : n \in Nonces \/ n = 0
    BY <1>1
  <2>1. errored' \subseteq Nat
    BY <2>a, <2>b
  <2> QED  BY <1>1, <1>2, <1>3, <1>5, <2>1 DEF TypeInv, otherProcesses
<1>8. /\ GrantedBy(engine)' = GrantedBy(engine)
      /\ \A n \in GrantedBy(engine) : n \notin errored'
  <2>1. GrantedBy(engine)' = GrantedBy(engine)
    BY <1>2
  <2>2. \A n \in Nonces : n \in Nat \ {0}
    BY <1>3
  <2>3. ASSUME NEW n \in GrantedBy(engine) PROVE n \notin errored'
    <3>1. n \in Nonces /\ n \in Nat \ {0} /\ (n < engine.nonce \/ (n = engine.nonce /\ (engine.work = NoEngineWork \/ engine.work.granted)))
      BY <2>2, <2>3 DEF GrantedBy
    <3>2. ~(n > engine.nonce) /\ n # 0
      BY <1>3, <3>1
    <3>3. ~(n = engine.nonce /\ engine.work # NoEngineWork /\ ~engine.work.granted)
      BY <1>3, <3>1
    <3> QED  BY <1>1, <3>2, <3>3
  <2> QED  BY <2>1, <2>3
<1>9. Still /\ Good' = Good
  <2>1. Good' = Good
    BY <1>1, <1>8 DEF Good
  <2> QED  BY <1>2, <2>1 DEF Still, otherProcesses
<1>10. TokenInv'
  <2>1. One(queue', "answer") /\ (Some(queue', "answer") <=> Some(queue, "answer"))
    BY <1>1, <1>4, <1>5 DEF TokenInv, FrontedTo
  <2>2. TokenAt' = TokenAt
    BY <1>2, <2>1 DEF TokenAt, Held
  <2> QED  BY <1>1, <1>2, <2>1, <2>2 DEF TokenInv, otherProcesses
<1>11. PlaceInv'
  <2>1. \A c \in Commands : In(queue', c) <=> In(queue, c)
    BY <1>4, <1>5, WorkFenceAssumption DEF FrontedTo, NoCommand
  <2>2. \A c \in Commands : In(stdout', c) \/ In(queue', c) \/ c \in running' \/ In(ui', c) \/ In(stdin', c)
                         <=> In(stdout, c) \/ In(queue, c) \/ c \in running \/ In(ui, c) \/ In(stdin, c)
    BY <1>2, <2>1
  <2>3. /\ \A i \in 1 .. Len(stdin') : stdin'[i].kind = "barrier" <=> stdin'[i].command = NoCommand
        /\ \A i \in 1 .. Len(ui') : ui'[i].kind \in {"barrier", "watch"} <=> ui'[i].command = NoCommand
        /\ Fenced(stdin', before)
    BY <1>1, <1>2 DEF PlaceInv
  <2> QED  BY <1>9, <2>2, <2>3, PlaceMoves
<1>12. MarkInv'
  <2>1. \A i \in 1 .. Len(queue') : queue'[i].sequence <= published'
    <3>1. \A i \in 1 .. Len(queue) : queue[i].sequence <= published /\ queue[i] \in QueueType
      BY <1>1, <1>3 DEF MarkInv
    <3>2. \A i \in 1 .. Len(queue) : queue[i].sequence <= published + 1
      <4> SUFFICES ASSUME NEW i \in 1 .. Len(queue) PROVE queue[i].sequence <= published + 1
        OBVIOUS
      <4>1. queue[i].sequence \in Nat /\ queue[i].sequence <= published
        BY <3>1 DEF QueueType, OutputOf
      <4> QED  BY <1>3, <4>1
    <3>3. published + 1 <= published + 1
      BY <1>3
    <3> QED  BY <1>1, <1>4, <1>6, <3>2, <3>3
  <2>2. ASSUME mark # NoMark, ~mark.written, NEW c \in before[mark.cuts.nonce]
        PROVE  \/ c \in settled \/ In(stdout, c)
               \/ \E i \in 1 .. Len(queue') : queue'[i].command = c /\ queue'[i].sequence <= mark.cuts.writer
    <3>1. \/ c \in settled \/ In(stdout, c)
          \/ \E i \in 1 .. Len(queue) : queue[i].command = c /\ queue[i].sequence <= mark.cuts.writer
      BY <1>1, <2>2 DEF MarkInv
    <3>2. CASE \E i \in 1 .. Len(queue) : queue[i].command = c /\ queue[i].sequence <= mark.cuts.writer
      <4>1. PICK i \in 1 .. Len(queue) : queue[i].command = c /\ queue[i].sequence <= mark.cuts.writer
        BY <3>2
      <4>2. i + 1 \in 1 .. Len(queue') /\ queue'[i + 1] = queue[i]
        BY <1>6
      <4> QED  BY <4>1, <4>2
    <3> QED  BY <3>1, <3>2
  <2> QED  BY <1>1, <1>2, <2>1, <2>2, SMTT(40) DEF MarkInv, otherProcesses
<1>13. ErrorInv'
  <2>1. ~Late'
    BY <1>2, <1>8 DEF Late, otherProcesses
  <2>2. queue'[1].kind = "error"
    BY <1>4, <1>6
  <2> QED  BY <1>6, <2>1, <2>2 DEF ErrorInv
<1>14. StillPromise
  BY <1>2 DEF StillPromise, otherProcesses
<1> QED  BY <1>7, <1>9, <1>10, <1>11, <1>12, <1>13, <1>14, StillFence

-----------------------------------------------------------------------------
(* A turn of the Engine's coordinator.                                     *)

(* What a pump may leave. *)
TurnOK(p) ==
  /\ PumpFine(p) /\ engine.nonce <= p.e.nonce /\ p.e.nonce <= runner.sequence
  /\ GrantedBy(engine) \subseteq GrantedBy(p.e)
  /\ GrantedBy(p.e) = GrantedBy(engine) \/ Held(engine)
  /\ p.answers \in {<<>>, <<TRUE>>, <<FALSE>>}

(* The writer is given the answer of a barrier command, or nothing. *)
Answered(p) ==
  \/ p.answers = <<>> /\ queue' = queue /\ published' = published
  \/ \E x \in QueueType :
       /\ p.answers # <<>> /\ x.kind = "answer" /\ x.command = NoCommand /\ x.sequence = published + 1
       /\ AddedTo(queue, x, queue') /\ published' = published + 1

(* A coordinator's turn gives the writer one answer at most.               *)
LEMMA TurnAnswers ==
  ASSUME TypeInv, NEW p, TurnOK(p), EngineTurn(p)
  PROVE  Answered(p) /\ queue' \in Seq(QueueType) /\ published' \in Nat
<1> DEFINE f == [i \in DOMAIN p.answers |-> Output("answer", NoCommand, p.answers[i], NoCuts, published + i)]
<1>1. queue \in Seq(QueueType) /\ published \in Nat
  BY DEF TypeInv
<1>2. queue' = queue \o f /\ published' = published + Len(p.answers)
  BY DEF EngineTurn
<1>3. CASE p.answers = <<>>
  <2>1. DOMAIN p.answers = {} /\ Len(p.answers) = 0
    BY <1>3
  <2>2. f = <<>>
    BY <2>1
  <2> HIDE DEF f
  <2>3. queue \o <<>> = queue /\ published + 0 = published
    BY <1>1
  <2> QED  BY <1>1, <1>2, <1>3, <2>1, <2>2, <2>3 DEF Answered
<1>4. ASSUME NEW ok \in BOOLEAN, p.answers = <<ok>>
      PROVE  Answered(p) /\ queue' \in Seq(QueueType) /\ published' \in Nat
  <2> DEFINE x == Output("answer", NoCommand, ok, NoCuts, published + 1)
  <2>1. DOMAIN p.answers = {1} /\ p.answers[1] = ok /\ Len(p.answers) = 1 /\ p.answers # <<>>
    BY <1>4
  <2>2. DOMAIN f = {1} /\ f[1] = x /\ f = [i \in {1} |-> f[i]]
    BY <2>1
  <2>3. f = <<x>>
    <3> HIDE DEF f, x
    <3> QED  BY <2>2
  <2>a. NoCuts \in Cuts /\ published + 1 \in Nat
    BY <1>1 DEF NoCuts, Cuts
  <2>4. x \in QueueType /\ x.kind = "answer" /\ x.command = NoCommand /\ x.sequence = published + 1
    BY <2>a DEF Output, QueueType, OutputOf, Named
  <2> HIDE DEF x, f
  <2>5. queue \o <<x>> = Append(queue, x)
    BY <1>1
  <2>6. queue' \in Seq(QueueType) /\ AddedTo(queue, x, queue')
    BY <1>1, <1>2, <2>3, <2>4, <2>5, Added
  <2> QED  BY <1>2, <2>1, <2>a, <2>4, <2>6 DEF Answered
<1>5. p.answers \in {<<>>, <<TRUE>>, <<FALSE>>}
  BY DEF TurnOK
<1>6. CASE p.answers = <<TRUE>>
  BY <1>4, <1>6
<1>7. CASE p.answers = <<FALSE>>
  BY <1>4, <1>7
<1> QED  BY <1>3, <1>5, <1>6, <1>7

(* A pump moves neither the other processes nor the pipes of the browser.  *)
PumpAlone ==
  /\ toEngine' = Rest(EngineBatch, toEngine)
  /\ UNCHANGED <<otherProcesses, errored, stdin, stdout, running, accepted>>

(* The shape of the state after a coordinator's turn.                      *)
LEMMA TurnTypes ==
  ASSUME TypeInv, NEW p, TurnOK(p), EngineTurn(p), PumpAlone, ui' \in Seq(TaskType)
  PROVE  TypeInv' /\ From(toEngine', toEngine) /\ engine' = p.e /\ toRunner' = p.toRunner
<1>1. /\ p.e \in EngineType /\ p.toRunner \in Seq(ToRunner) /\ p.mark \in Cuts
  BY PumpGives DEF TurnOK
<1>2. engine' = p.e /\ toRunner' = p.toRunner /\ alive' \in BOOLEAN
  BY DEF EngineTurn
<1>3. queue' \in Seq(QueueType) /\ published' \in Nat
  BY TurnAnswers
<1>4. mark' \in [cuts : Cuts, written : BOOLEAN]
  <2>1. mark \in [cuts : Cuts, written : BOOLEAN]
    BY DEF TypeInv
  <2>2. NoMark \in [cuts : Cuts, written : BOOLEAN]
    BY DEF NoMark, NoCuts, Cuts
  <2>3. [cuts |-> p.mark, written |-> FALSE] \in [cuts : Cuts, written : BOOLEAN]
    BY <1>1
  <2>4. mark' \in {mark, NoMark, [cuts |-> p.mark, written |-> FALSE]}
    BY DEF EngineTurn
  <2> QED  BY <2>1, <2>2, <2>3, <2>4
<1>5. toEngine' \in Seq(ToEngine) /\ From(toEngine', toEngine)
  <2>1. toEngine \in Seq(ToEngine) /\ EngineBatch \in Nat
    BY EngineWorkAssumption DEF TypeInv
  <2> QED  BY <2>1, BatchAndRest DEF PumpAlone
<1> QED  BY <1>1, <1>2, <1>3, <1>4, <1>5 DEF TypeInv, PumpAlone, otherProcesses

(* What the three processes rely on, after a coordinator's turn.           *)
LEMMA TurnProcesses ==
  ASSUME FenceInv, NEW p, TurnOK(p), EngineTurn(p), PumpAlone, ui' \in Seq(TaskType)
  PROVE  RunnerOK' /\ HostOK' /\ EngineOK' /\ LoneInv'
<1>1. /\ TypeInv /\ RunnerOK /\ HostOK /\ LoneInv /\ TokenInv
      /\ TypeInv' /\ From(toEngine', toEngine) /\ engine' = p.e /\ toRunner' = p.toRunner
  BY TurnTypes DEF FenceInv
<1>2. /\ runner' = runner /\ host' = host /\ toHost' = toHost /\ fromHost' = fromHost
      /\ submitted' = submitted /\ settled' = settled /\ before' = before /\ errored' = errored
  BY DEF PumpAlone, otherProcesses
<1>3. GrantedBy(engine) \subseteq GrantedBy(engine') /\ Quiet' = Quiet /\ Good \subseteq Good'
  <2>1. GrantedBy(engine) \subseteq GrantedBy(engine')
    BY <1>1 DEF TurnOK
  <2>2. Quiet' = Quiet
    BY <1>2 DEF Quiet, QuietAt
  <2>3. Good' = GrantedBy(engine') \ errored
    BY <1>2 DEF Good, GrantedBy
  <2> QED  BY <2>1, <2>2, <2>3 DEF Good
<1>4. RunnerOK'
  <2>1. AsTurn \in TurnType /\ AsTurn.r = runner /\ AsTurn.toEngine = toEngine /\ AsTurn.toHost = toHost
    BY <1>1, StateIs
  <2>2. AsTurn' \in TurnType /\ AsTurn'.r = runner /\ AsTurn'.toEngine = toEngine' /\ AsTurn'.toHost = toHost
    <3>1. runner' \in RunnerType /\ toEngine' \in Seq(ToEngine) /\ toHost' \in Seq(ToHost)
      BY <1>1 DEF TypeInv
    <3> QED  BY <1>2, <3>1, TurnIs DEF AsTurn
  <2>3. From(toHost, toHost)
    BY FromStay
  <2>4. /\ engine.nonce \in Nat /\ p.e.nonce \in Nat /\ host.last \in Nat /\ engine.nonce <= p.e.nonce
        /\ p.e.nonce <= runner.sequence /\ host.last <= host.last /\ host.last <= runner.sequence
    BY CountsAgree, PumpGives DEF TurnOK
  <2>5. RunnerInv(AsTurn, engine.nonce, host.last, GrantedBy(engine), Quiet, Good)
    BY <1>1 DEF RunnerOK, AsTurn
  <2>6. Quiet \subseteq Quiet
    OBVIOUS
  <2>7. RunnerInv(AsTurn', p.e.nonce, host.last, GrantedBy(engine'), Quiet, Good')
    BY <1>1, <1>3, <2>1, <2>2, <2>3, <2>4, <2>5, <2>6, RunnerGrows, SMTT(40)
  <2> QED  BY <1>1, <1>2, <1>3, <2>7 DEF RunnerOK, AsTurn, GrantedBy
<1>5. HostOK'
  <2>1. AsCall \in CallType /\ AsCall.h = host /\ AsCall.toRunner = fromHost
    BY <1>1, StateIs
  <2>2. HostInv(AsCall, GrantedBy(engine), Quiet, Good)
    BY <1>1 DEF HostOK, AsCall
  <2>3. host.pending.nonce \in GrantedBy(engine') \ Good' => ~host.pending.raw
    <3>1. CASE Held(engine)
      <4>1. 3 \in TokenAt
        BY <3>1 DEF TokenAt
      <4> QED  BY <1>1, <4>1 DEF TokenInv
    <3>2. CASE GrantedBy(engine') = GrantedBy(engine)
      <4>1. Good' = Good
        BY <1>2, <3>2 DEF Good
      <4>2. host.pending.nonce \in GrantedBy(engine) \ Good => ~host.pending.raw
        BY <2>1, <2>2 DEF HostInv
      <4> QED  BY <3>2, <4>1, <4>2
    <3> QED  BY <1>1, <3>1, <3>2 DEF TurnOK
  <2>4. From(fromHost, fromHost) /\ Quiet \subseteq Quiet
    BY FromStay
  <2>5. HostInv(AsCall, GrantedBy(engine'), Quiet, Good')
    BY <1>3, <2>1, <2>2, <2>3, <2>4, HostGrows
  <2> QED  BY <1>2, <1>3, <2>5 DEF HostOK, AsCall, GrantedBy
<1>6. EngineOK'
  <2>1. EngineInv(p, host.last)
    BY PumpGives DEF TurnOK
  <2>2. AsPump' \in PumpType /\ AsPump'.e = p.e /\ AsPump'.toRunner = p.toRunner
    <3>1. engine' \in EngineType /\ toRunner' \in Seq(ToRunner)
      BY <1>1 DEF TypeInv
    <3> QED  BY <1>1, <3>1, PumpIs DEF AsPump
  <2>3. EngineInv(AsPump', host.last)
    BY <2>1, <2>2 DEF EngineInv
  <2> QED  BY <1>2, <2>3 DEF EngineOK, AsPump
<1>7. LoneInv'
  BY <1>1, <1>2 DEF LoneInv
<1> QED  BY <1>4, <1>5, <1>6, <1>7

(* The writer's queue after a coordinator's turn.                          *)
LEMMA TurnQueue ==
  ASSUME FenceInv, NEW p, Answered(p)
  PROVE  /\ \A c \in Commands : In(queue', c) <=> In(queue, c)
         /\ p.answers = <<>> => queue' = queue
         /\ One(queue, "answer") /\ ~Some(queue, "answer") => One(queue', "answer")
         /\ \A i \in 1 .. Len(queue) : i \in 1 .. Len(queue') /\ queue'[i] = queue[i]
         /\ \A i \in 1 .. Len(queue') : i \in 1 .. Len(queue) \/ (\A k \in 1 .. Len(queue) : k < i)
         /\ \A i \in 1 .. Len(queue') : queue'[i].sequence <= published'
<1>1. MarkInv /\ queue \in Seq(QueueType) /\ published \in Nat
  BY DEF FenceInv, TypeInv
<1>2. \A i \in 1 .. Len(queue) : queue[i].sequence <= published /\ queue[i].sequence <= published + 1
  <2> SUFFICES ASSUME NEW i \in 1 .. Len(queue)
               PROVE  queue[i].sequence <= published /\ queue[i].sequence <= published + 1
    OBVIOUS
  <2>1. queue[i] \in QueueType /\ queue[i].sequence <= published
    BY <1>1 DEF MarkInv
  <2>2. queue[i].sequence \in Nat
    BY <2>1 DEF QueueType, OutputOf
  <2> QED  BY <1>1, <2>1, <2>2
<1>3. CASE p.answers = <<>> /\ queue' = queue /\ published' = published
  BY <1>2, <1>3
<1>4. ASSUME NEW x \in QueueType,
             p.answers # <<>> /\ x.kind = "answer" /\ x.command = NoCommand /\ x.sequence = published + 1
             /\ AddedTo(queue, x, queue') /\ published' = published + 1
      PROVE  /\ \A c \in Commands : In(queue', c) <=> In(queue, c)
             /\ p.answers = <<>> => queue' = queue
             /\ One(queue, "answer") /\ ~Some(queue, "answer") => One(queue', "answer")
             /\ \A i \in 1 .. Len(queue) : i \in 1 .. Len(queue') /\ queue'[i] = queue[i]
             /\ \A i \in 1 .. Len(queue') : i \in 1 .. Len(queue) \/ (\A k \in 1 .. Len(queue) : k < i)
             /\ \A i \in 1 .. Len(queue') : queue'[i].sequence <= published'
  <2>1. \A c \in Commands : In(queue', c) <=> In(queue, c)
    BY <1>4, WorkFenceAssumption DEF AddedTo, NoCommand
  <2>2. One(queue, "answer") /\ ~Some(queue, "answer") => One(queue', "answer")
    BY <1>4 DEF AddedTo
  <2>3. \A i \in 1 .. Len(queue) : i \in 1 .. Len(queue') /\ queue'[i] = queue[i]
    BY <1>4 DEF AddedTo
  <2>4. \A i \in 1 .. Len(queue') : i \in 1 .. Len(queue) \/ (\A k \in 1 .. Len(queue) : k < i)
    BY <1>4 DEF AddedTo
  <2>5. \A i \in 1 .. Len(queue') : i \in 1 .. Len(queue) \/ queue'[i] = x
    BY <1>4 DEF AddedTo
  <2>6. x.sequence <= published'
    BY <1>1, <1>4
  <2>7. \A i \in 1 .. Len(queue') : queue'[i].sequence <= published'
    BY <1>2, <1>4, <2>3, <2>5, <2>6
  <2> QED  BY <1>4, <2>1, <2>2, <2>3, <2>4, <2>7
<1> QED  BY <1>3, <1>4 DEF Answered

(* The places of the commands after a coordinator's turn.                  *)
LEMMA TurnPlace ==
  ASSUME FenceInv, NEW p, Answered(p), PumpAlone, \A c \in Commands : In(ui', c) <=> In(ui, c),
         \A i \in 1 .. Len(ui') : ui'[i].kind \in {"barrier", "watch"} <=> ui'[i].command = NoCommand
  PROVE  PlaceInv'
<1>1. PlaceInv /\ submitted \subseteq Commands /\ \A c \in Commands : In(queue', c) <=> In(queue, c)
  BY TurnQueue DEF FenceInv, TypeInv
<1>2. /\ host' = host /\ submitted' = submitted /\ settled' = settled /\ before' = before
      /\ stdin' = stdin /\ stdout' = stdout /\ running' = running
  BY DEF PumpAlone, otherProcesses
<1>3. \A c \in Commands : Placed(c)' <=> Placed(c)
  BY <1>1, <1>2 DEF Placed
<1>4. \A c \in submitted' : Placed(c)'
  BY <1>1, <1>2, <1>3 DEF PlaceInv
<1>5. \A c \in Commands : In(stdout', c) \/ In(queue', c) \/ c \in running' \/ In(ui', c) \/ In(stdin', c) => c \in submitted'
  BY <1>1, <1>2 DEF PlaceInv
<1>6. /\ \A n \in Nonces : before'[n] \subseteq submitted' /\ (n > host'.last => before'[n] = {})
      /\ settled' \subseteq submitted' /\ Fenced(stdin', before')
      /\ \A i \in 1 .. Len(stdin') : stdin'[i].kind = "barrier" <=> stdin'[i].command = NoCommand
  BY <1>1, <1>2 DEF PlaceInv
<1> QED  BY <1>4, <1>5, <1>6 DEF PlaceInv

(* A watermark is asked for with nothing left on its way to the writer.    *)
QuietFor(n) == \A c \in before[n] : c \in settled \/ In(stdout, c) \/ In(queue, c)

(* The watermark after a coordinator's turn.                               *)
LEMMA TurnMark ==
  ASSUME FenceInv, NEW p, Answered(p), EngineTurn(p), PumpAlone,
         p.mark # NoCuts => /\ p.mark.nonce \in Nonces /\ p.mark.nonce <= host.last /\ p.mark.writer = published
                            /\ QuietFor(p.mark.nonce)
  PROVE  MarkInv'
<1>1. MarkInv
  BY DEF FenceInv
<1>2. /\ \A i \in 1 .. Len(queue) : i \in 1 .. Len(queue') /\ queue'[i] = queue[i]
      /\ \A i \in 1 .. Len(queue') : queue'[i].sequence <= published'
  BY TurnQueue
<1>3. /\ host' = host /\ settled' = settled /\ before' = before /\ stdout' = stdout
  BY DEF PumpAlone, otherProcesses
<1>4. mark' # NoMark /\ ~mark'.written =>
       /\ mark'.cuts.nonce \in Nonces /\ mark'.cuts.nonce <= host.last
       /\ \A c \in before[mark'.cuts.nonce] :
            \/ c \in settled \/ In(stdout, c)
            \/ \E i \in 1 .. Len(queue') : queue'[i].command = c /\ queue'[i].sequence <= mark'.cuts.writer
  <2>1. CASE p.mark # NoCuts
    <3>1. mark'.cuts = p.mark
      BY <2>1 DEF EngineTurn
    <3>2. ASSUME NEW c, In(queue, c)
          PROVE  \E i \in 1 .. Len(queue') : queue'[i].command = c /\ queue'[i].sequence <= p.mark.writer
      <4>1. PICK i \in 1 .. Len(queue) : queue[i].command = c
        BY <3>2 DEF In
      <4>2. queue[i].sequence <= published
        BY <1>1 DEF MarkInv
      <4> QED  BY <1>2, <2>1, <4>1, <4>2
    <3> QED  BY <2>1, <3>1, <3>2 DEF QuietFor
  <2>2. CASE p.mark = NoCuts
    <3>1. mark' = NoMark \/ mark' = mark
      BY <2>2 DEF EngineTurn
    <3>2. mark # NoMark /\ ~mark.written =>
       /\ mark.cuts.nonce \in Nonces /\ mark.cuts.nonce <= host.last
       /\ \A c \in before[mark.cuts.nonce] :
            \/ c \in settled \/ In(stdout, c)
            \/ \E i \in 1 .. Len(queue') : queue'[i].command = c /\ queue'[i].sequence <= mark.cuts.writer
      BY <1>1, <1>2 DEF MarkInv
    <3> QED  BY <3>1, <3>2
  <2> QED  BY <2>1, <2>2
<1> QED  BY <1>1, <1>2, <1>3, <1>4 DEF MarkInv

(* A fence that is granted now was held, so none of its answers is out.    *)
LEMMA TurnError ==
  ASSUME FenceInv, NEW p, TurnOK(p), Answered(p), EngineTurn(p), PumpAlone
  PROVE  ErrorInv'
<1>1. ErrorInv /\ TokenInv
  BY DEF FenceInv
<1>2. /\ host' = host /\ errored' = errored /\ stdout' = stdout /\ engine' = p.e
  BY DEF PumpAlone, otherProcesses, EngineTurn
<1>3. /\ \A i \in 1 .. Len(queue) : i \in 1 .. Len(queue') /\ queue'[i] = queue[i]
      /\ \A i \in 1 .. Len(queue') : i \in 1 .. Len(queue) \/ (\A k \in 1 .. Len(queue) : k < i)
  BY TurnQueue
<1>4. Late' => Late \/ (~Some(stdout, "answer") /\ ~Some(queue, "answer"))
  <2>1. CASE GrantedBy(p.e) = GrantedBy(engine)
    BY <1>2, <2>1 DEF Late
  <2>2. CASE Held(engine)
    <3>1. 3 \in TokenAt
      BY <2>2 DEF TokenAt
    <3>2. \A k \in TokenAt : k = 3
      BY <1>1, <3>1 DEF TokenInv
    <3> QED  BY <3>2 DEF TokenAt
  <2> QED  BY <2>1, <2>2 DEF TurnOK
<1>5. SUFFICES ASSUME errored # {}, ~host.failed
               PROVE  \/ \E e \in 1 .. Len(stdout) :
                           stdout[e].kind = "error" /\ (Late' => \A i \in 1 .. Len(stdout) : i < e => stdout[i].kind # "answer")
                      \/ \E e \in 1 .. Len(queue') :
                           /\ queue'[e].kind = "error"
                           /\ Late' => /\ \A i \in 1 .. Len(stdout) : stdout[i].kind # "answer"
                                       /\ \A i \in 1 .. Len(queue') : i < e => queue'[i].kind # "answer"
  BY <1>2 DEF ErrorInv
<1>6. CASE \E e \in 1 .. Len(stdout) :
             stdout[e].kind = "error" /\ (Late => \A i \in 1 .. Len(stdout) : i < e => stdout[i].kind # "answer")
  BY <1>4, <1>6 DEF Some
<1>7. CASE \E e \in 1 .. Len(queue) :
         /\ queue[e].kind = "error"
         /\ Late => /\ \A i \in 1 .. Len(stdout) : stdout[i].kind # "answer"
                    /\ \A i \in 1 .. Len(queue) : i < e => queue[i].kind # "answer"
  <2>1. PICK e \in 1 .. Len(queue) :
         /\ queue[e].kind = "error"
         /\ Late => /\ \A i \in 1 .. Len(stdout) : stdout[i].kind # "answer"
                    /\ \A i \in 1 .. Len(queue) : i < e => queue[i].kind # "answer"
    BY <1>7
  <2>2. \A i \in 1 .. Len(queue') : i < e => i \in 1 .. Len(queue) /\ queue'[i] = queue[i]
    <3> SUFFICES ASSUME NEW i \in 1 .. Len(queue'), i < e PROVE i \in 1 .. Len(queue)
      BY <1>3
    <3>1. ~(e < i)
      OBVIOUS
    <3> QED  BY <1>3, <3>1
  <2>3. Late' => /\ \A i \in 1 .. Len(stdout) : stdout[i].kind # "answer"
                 /\ \A i \in 1 .. Len(queue) : i < e => queue[i].kind # "answer"
    BY <1>4, <2>1 DEF Some
  <2>4. queue'[e].kind = "error" /\ e \in 1 .. Len(queue')
    BY <1>3, <2>1
  <2> QED  BY <2>2, <2>3, <2>4
<1> QED  BY <1>1, <1>5, <1>6, <1>7 DEF ErrorInv

(* What the Engine finds in its socket is the runner's.                    *)
LEMMA SocketSound ==
  ASSUME FenceInv
  PROVE  Batch(EngineBatch, toEngine) \in Seq({m \in ToEngine : TakeOK(m)})
<1> DEFINE P == {m \in ToEngine : TakeOK(m)}
<1>1. TypeInv /\ toEngine \in Seq(ToEngine) /\ AsTurn.r = runner /\ AsTurn.toEngine = toEngine
  BY StateIs DEF FenceInv, TypeInv
<1>2. SentInv(AsTurn, GrantedBy(engine))
  BY FenceGives DEF RunnerFine, RunnerInv
<1>3. \A i \in 1 .. Len(toEngine) : toEngine[i] \in ToEngine /\ TakeOK(toEngine[i])
  <2> SUFFICES ASSUME NEW i \in 1 .. Len(toEngine) PROVE toEngine[i] \in ToEngine /\ TakeOK(toEngine[i])
    OBVIOUS
  <2>1. toEngine[i] \in ToEngine
    BY <1>1
  <2>2. toEngine[i].kind = "Begin" => toEngine[i].nonce \in Nonces /\ toEngine[i].nonce <= runner.sequence
    BY <1>1, <1>2 DEF SentInv
  <2> QED  BY <2>1, <2>2 DEF TakeOK
<1>4. toEngine \in Seq(P)
  <2>1. Len(toEngine) \in Nat /\ toEngine = [i \in 1 .. Len(toEngine) |-> toEngine[i]]
    BY <1>1
  <2>2. \A i \in 1 .. Len(toEngine) : toEngine[i] \in P
    BY <1>3
  <2> HIDE DEF P
  <2> QED  BY <1>1, <2>1, <2>2
<1>5. EngineBatch \in Nat
  BY EngineWorkAssumption
<1> HIDE DEF P
<1>6. Batch(EngineBatch, toEngine) \in Seq(P)
  BY <1>4, <1>5, BatchAndRest
<1> QED  BY <1>6 DEF P

(* A pump, whatever the record's posted flag.                              *)
LEMMA PumpedSettles ==
  ASSUME FenceInv, NEW e \in EngineType, e.work = engine.work, e.nonce = engine.nonce, NEW ready \in BOOLEAN
  PROVE  Settled(engine, Pumped(e, ready), ready, published)
<1>1. /\ TypeInv /\ toRunner \in Seq(ToRunner) /\ published \in Nat
      /\ AsPump \in PumpType /\ AsPump.e = engine /\ AsPump.toRunner = toRunner
  BY StateIs DEF FenceInv, TypeInv
<1>2. EngineInv(AsPump, host.last)
  BY FenceGives DEF PumpFine
<1>3. PumpFine(Pump(e, toRunner))
  <2> DEFINE q == Pump(e, toRunner)
  <2>1. q \in PumpType /\ q.e = e /\ q.toRunner = toRunner
    BY <1>1, PumpIs
  <2> HIDE DEF q
  <2>2. From(q.toRunner, AsPump.toRunner) /\ host.last \in Nat /\ host.last <= host.last
    BY <1>1, <2>1, FromStay, CountsAgree
  <2>3. EngineInv(q, host.last)
    BY <1>1, <1>2, <2>1, <2>2, EngineGrows
  <2> QED  BY <2>1, <2>3 DEF PumpFine, q
<1>4. e.nonce <= runner.sequence /\ runner.sequence \in Nat /\ runner.sequence <= e.nonce + 1
  BY CountsAgree
<1>5. Settled(e, PumpAcceptedWork(e, toRunner, Batch(EngineBatch, toEngine), past, ready, published, mark.written),
              ready, published)
  BY <1>1, <1>3, <1>4, SocketSound, PumpSettled
<1>6. GrantedBy(e) = GrantedBy(engine) /\ (Held(e) <=> Held(engine))
  BY DEF GrantedBy, Held
<1> QED  BY <1>5, <1>6 DEF Pumped, Settled

(* The coordinator's own turns: a watch task, or the delayed one.          *)
LEMMA CoordinatorKeeps ==
  ASSUME FenceInv, NEW p, NEW ready \in BOOLEAN, Settled(engine, p, ready, published), EngineTurn(p), PumpAlone,
         ready => running = {} /\ \A c \in Commands : ~In(ui, c),
         ui' \in Seq(TaskType), \A c \in Commands : In(ui', c) <=> In(ui, c),
         \A i \in 1 .. Len(ui') : ui'[i].kind \in {"barrier", "watch"} <=> ui'[i].command = NoCommand,
         One(ui', "barrier"), Some(ui', "barrier") <=> Some(ui, "barrier"),
         \A i \in 1 .. Len(ui') : ui'[i].kind = "barrier" => ui'[i].challenge.nonce <= host.last
  PROVE  FenceInv' /\ StillPromise
<1>1. /\ TypeInv /\ TokenInv /\ PlaceInv
  BY DEF FenceInv
<1>2. TurnOK(p)
  BY DEF Settled, TurnOK
<1>3. Answered(p)
  BY <1>1, <1>2, TurnAnswers
<1>4. TypeInv' /\ RunnerOK' /\ HostOK' /\ EngineOK' /\ LoneInv' /\ engine' = p.e
  BY <1>1, <1>2, TurnTypes, TurnProcesses
<1>5. PlaceInv' /\ ErrorInv'
  BY <1>2, <1>3, TurnPlace, TurnError
<1>6. UNCHANGED <<otherProcesses, errored, stdin, stdout, running, accepted>>
  BY DEF PumpAlone
<1>7. TokenInv'
  <2>1. CASE p.answers = <<>>
    <3>1. queue' = queue
      BY <1>3, <2>1, TurnQueue
    <3>2. Held(p.e) => Held(engine)
      BY DEF Settled
    <3>3. TokenAt' \subseteq TokenAt
      BY <1>4, <1>6, <3>1, <3>2 DEF TokenAt, Held
    <3> QED  BY <1>1, <1>6, <3>1, <3>3 DEF TokenInv, otherProcesses
  <2>2. CASE p.answers # <<>>
    <3>1. Held(engine) /\ ~Held(p.e)
      BY <2>2 DEF Settled
    <3>2. 3 \in TokenAt
      BY <3>1 DEF TokenAt
    <3>3. \A k \in TokenAt : k = 3
      BY <1>1, <3>2 DEF TokenInv
    <3>a. 1 \notin TokenAt /\ 2 \notin TokenAt /\ 4 \notin TokenAt /\ 5 \notin TokenAt
      BY <3>3
    <3>4. ~Some(stdin, "barrier") /\ ~Some(ui, "barrier") /\ ~Some(queue, "answer") /\ ~Some(stdout, "answer")
      BY ONLY <3>a DEF TokenAt
    <3>5. One(queue', "answer")
      BY <1>1, <1>3, <3>4, TurnQueue DEF TokenInv
    <3>6. \A k \in TokenAt' : k = 4
      BY <1>4, <1>6, <3>1, <3>4 DEF TokenAt, Held
    <3> QED  BY <1>1, <1>6, <3>2, <3>5, <3>6 DEF TokenInv, otherProcesses
  <2>3. p.answers = <<>> \/ p.answers # <<>>
    OBVIOUS
  <2> QED  BY <2>1, <2>2, <2>3
<1>8. MarkInv'
  <2>1. ASSUME p.mark # NoCuts
        PROVE  /\ p.mark.nonce \in Nonces /\ p.mark.nonce <= host.last /\ p.mark.writer = published
               /\ QuietFor(p.mark.nonce)
    <3>1. ready /\ Held(engine) /\ p.mark.nonce \in Nonces /\ p.mark.nonce <= host.last /\ p.mark.writer = published
      BY <2>1 DEF Settled
    <3>2. 3 \in TokenAt
      BY <3>1 DEF TokenAt
    <3>3. \A k \in TokenAt : k = 3
      BY <1>1, <3>2 DEF TokenInv
    <3>4. ~Some(stdin, "barrier")
      BY <3>3 DEF TokenAt
    <3>5. ASSUME NEW c \in before[p.mark.nonce]
          PROVE  c \in settled \/ In(stdout, c) \/ In(queue, c)
      <4>1. c \in submitted /\ c \in Commands
        BY <1>1, <3>1, <3>5 DEF PlaceInv, TypeInv
      <4>2. Placed(c) /\ c \notin running /\ ~In(ui, c)
        BY <1>1, <3>1, <4>1 DEF PlaceInv
      <4>3. ~In(stdin, c)
        <5>1. SUFFICES ASSUME NEW i \in 1 .. Len(stdin), stdin[i].command = c PROVE FALSE
          BY DEF In
        <5>2. \E j \in 1 .. Len(stdin) : i < j /\ stdin[j].kind = "barrier" /\ stdin[j].challenge.nonce = p.mark.nonce
          BY <1>1, <3>1, <3>5, <5>1 DEF PlaceInv, Fenced
        <5> QED  BY <3>4, <5>2 DEF Some
      <4> QED  BY <4>2, <4>3 DEF Placed
    <3> QED  BY <3>1, <3>5 DEF QuietFor
  <2> QED  BY <1>3, <2>1, TurnMark
<1>9. StillPromise
  BY <1>6 DEF StillPromise, otherProcesses
<1> QED  BY <1>4, <1>5, <1>7, <1>8, <1>9 DEF FenceInv

(* UIWatch: the pump that the polling thread asked for.                    *)
LEMMA UIWatchKeeps ==
  ASSUME FenceInv, UIWatch
  PROVE  FenceInv' /\ StillPromise
<1> DEFINE ready == AcceptedWorkReady(Tail(ui), engine.posted)
<1>1. /\ TypeInv /\ TokenInv /\ PlaceInv /\ ui # <<>> /\ Head(ui).kind = "watch" /\ ui' = Tail(ui) /\ PumpAlone
      /\ EngineTurn(Pumped(engine, ready)) /\ engine \in EngineType /\ ui \in Seq(TaskType)
  BY DEF FenceInv, UIWatch, PumpAlone, TypeInv
<1>2. ready \in BOOLEAN
  BY DEF AcceptedWorkReady, ReadyAtBarrier
<1>3. ui' \in Seq(TaskType) /\ TakenTo(ui, ui')
  BY <1>1, Taken
<1>4. Head(ui) = ui[1] /\ 1 \in 1 .. Len(ui)
  <2>1. Len(ui) \in Nat \ {0} /\ Head(ui) = ui[1]
    BY <1>3 DEF TakenTo
  <2> QED  BY <2>1
<1>5. Head(ui).command = NoCommand
  BY <1>1, <1>4 DEF PlaceInv
<1>6. \A c \in Commands : In(ui', c) <=> In(ui, c)
  BY <1>3, <1>5, WorkFenceAssumption DEF TakenTo, NoCommand
<1>7. /\ \A i \in 1 .. Len(ui') : ui'[i].kind \in {"barrier", "watch"} <=> ui'[i].command = NoCommand
      /\ \A i \in 1 .. Len(ui') : ui'[i].kind = "barrier" => ui'[i].challenge.nonce <= host.last
      /\ One(ui', "barrier") /\ (Some(ui', "barrier") <=> Some(ui, "barrier"))
  BY <1>1, <1>3 DEF TakenTo, PlaceInv, TokenInv
<1>8. ready => running = {} /\ \A c \in Commands : ~In(ui, c)
  <2>1. ASSUME ready PROVE running = {} /\ \A c \in Commands : ~In(ui, c)
    <3>1. running = {} /\ ui' = <<>>
      BY <1>1, <2>1 DEF AcceptedWorkReady, ReadyAtBarrier
    <3>2. \A c : ~In(ui', c)
      BY <3>1 DEF In
    <3> QED  BY <1>6, <3>1, <3>2
  <2> QED  BY <2>1
<1> HIDE DEF ready
<1>9. Settled(engine, Pumped(engine, ready), ready, published)
  BY <1>1, <1>2, PumpedSettles
<1> QED  BY <1>1, <1>2, <1>3, <1>6, <1>7, <1>8, <1>9, CoordinatorKeeps

(* UIDelayed: the pump of PostAcceptedWork.                                *)
LEMMA UIDelayedKeeps ==
  ASSUME FenceInv, UIDelayed
  PROVE  FenceInv' /\ StillPromise
<1> DEFINE ready == AcceptedWorkReady(ui, FALSE)
           e == [engine EXCEPT !.posted = FALSE]
<1>1. /\ TypeInv /\ TokenInv /\ PlaceInv /\ ui' = ui /\ PumpAlone
      /\ EngineTurn(Pumped(e, ready)) /\ engine \in EngineType /\ ui \in Seq(TaskType)
  BY DEF FenceInv, UIDelayed, PumpAlone, TypeInv
<1>2. ready \in BOOLEAN
  BY DEF AcceptedWorkReady, ReadyAtBarrier
<1>3. e \in EngineType /\ e.work = engine.work /\ e.nonce = engine.nonce
  BY <1>1 DEF EngineType
<1>4. ready => running = {} /\ \A c \in Commands : ~In(ui, c)
  BY DEF AcceptedWorkReady, ReadyAtBarrier, In
<1> HIDE DEF ready, e
<1>5. Settled(engine, Pumped(e, ready), ready, published)
  BY <1>2, <1>3, PumpedSettles
<1>6. /\ \A i \in 1 .. Len(ui') : ui'[i].kind \in {"barrier", "watch"} <=> ui'[i].command = NoCommand
      /\ \A i \in 1 .. Len(ui') : ui'[i].kind = "barrier" => ui'[i].challenge.nonce <= host.last
      /\ One(ui', "barrier") /\ (Some(ui', "barrier") <=> Some(ui, "barrier"))
      /\ ui' \in Seq(TaskType) /\ \A c \in Commands : In(ui', c) <=> In(ui, c)
  BY <1>1 DEF PlaceInv, TokenInv
<1> QED  BY <1>1, <1>2, <1>4, <1>5, <1>6, CoordinatorKeeps

(* The command of a barrier.                                               *)
LEMMA UIBarrierKeeps ==
  ASSUME FenceInv, UIBarrier
  PROVE  FenceInv' /\ StillPromise
<1> DEFINE p == AcceptBarrier(Pumped(engine, FALSE), Head(ui).challenge, accepted)
<1>1. /\ TypeInv /\ TokenInv /\ PlaceInv /\ ui # <<>> /\ Head(ui).kind = "barrier" /\ ui' = Tail(ui) /\ PumpAlone
      /\ EngineTurn(p) /\ engine \in EngineType /\ ui \in Seq(TaskType) /\ accepted \in Nat
  BY DEF FenceInv, UIBarrier, PumpAlone, TypeInv
<1>2. ui' \in Seq(TaskType) /\ TakenTo(ui, ui') /\ Head(ui) \in TaskType
  BY <1>1, Taken
<1>3. Head(ui) = ui[1] /\ 1 \in 1 .. Len(ui)
  <2>1. Len(ui) \in Nat \ {0} /\ Head(ui) = ui[1]
    BY <1>2 DEF TakenTo
  <2> QED  BY <2>1
<1>4. Head(ui).command = NoCommand /\ Head(ui).challenge \in Challenges /\ Head(ui).challenge.nonce <= host.last
  <2>1. Head(ui).command = NoCommand /\ Head(ui).challenge.nonce <= host.last
    BY <1>1, <1>3 DEF PlaceInv, TokenInv
  <2> QED  BY <1>2, <2>1 DEF TaskType
<1>5. \A c \in Commands : In(ui', c) <=> In(ui, c)
  BY <1>2, <1>4, WorkFenceAssumption DEF TakenTo, NoCommand
<1>6. 2 \in TokenAt /\ \A k \in TokenAt : k = 2
  <2>1. 2 \in TokenAt
    BY <1>1, <1>3 DEF TokenAt, Some
  <2> QED  BY <1>1, <2>1 DEF TokenInv
<1>7. ~Held(engine) /\ ~Some(stdin, "barrier") /\ ~Some(queue, "answer") /\ ~Some(stdout, "answer")
  BY <1>6 DEF TokenAt
<1>8. /\ \A i \in 1 .. Len(ui') : ui'[i].kind \in {"barrier", "watch"} <=> ui'[i].command = NoCommand
      /\ \A i \in 1 .. Len(ui') : ui'[i].kind = "barrier" => ui'[i].challenge.nonce <= host.last
      /\ One(ui', "barrier") /\ ~Some(ui', "barrier")
  BY <1>1, <1>2 DEF TakenTo, PlaceInv, TokenInv
<1>9. Accepted(engine, p)
  <2>1. FALSE \in BOOLEAN
    OBVIOUS
  <2>2. Settled(engine, Pumped(engine, FALSE), FALSE, published)
    BY <1>1, <2>1, PumpedSettles
  <2> QED  BY <1>1, <1>4, <1>7, <2>2, BarrierAccepted
<1> HIDE DEF p
<1>10. TurnOK(p) /\ p.mark = NoCuts
  BY <1>9 DEF Accepted, TurnOK
<1>11. Answered(p)
  BY <1>1, <1>10, TurnAnswers
<1>12. TypeInv' /\ RunnerOK' /\ HostOK' /\ EngineOK' /\ LoneInv' /\ engine' = p.e
  BY <1>1, <1>2, <1>10, TurnTypes, TurnProcesses
<1>13. PlaceInv' /\ ErrorInv' /\ MarkInv'
  BY <1>1, <1>5, <1>8, <1>10, <1>11, TurnPlace, TurnError, TurnMark
<1>14. UNCHANGED <<otherProcesses, errored, stdin, stdout, running, accepted>>
  BY <1>1 DEF PumpAlone
<1>15. One(queue', "answer")
  BY <1>1, <1>7, <1>11, TurnQueue DEF TokenInv
<1>16. \A k, l \in TokenAt' : k = l
  <2>1. CASE p.answers = <<>>
    <3>1. queue' = queue
      BY <1>11, <2>1, TurnQueue
    <3>2. \A k \in TokenAt' : k = 3
      BY <1>7, <1>8, <1>14, <3>1 DEF TokenAt
    <3> QED  BY <3>2
  <2>2. CASE p.answers # <<>>
    <3>1. ~Held(engine')
      BY <1>9, <1>12, <2>2 DEF Accepted
    <3>2. \A k \in TokenAt' : k = 4
      BY <1>7, <1>8, <1>14, <3>1 DEF TokenAt, Held
    <3> QED  BY <3>2
  <2> QED  BY <2>1, <2>2
<1>17. TokenInv'
  BY <1>1, <1>6, <1>8, <1>14, <1>15, <1>16 DEF TokenInv, otherProcesses
<1>18. StillPromise
  BY <1>14 DEF StillPromise, otherProcesses
<1> QED  BY <1>12, <1>13, <1>17, <1>18 DEF FenceInv

-----------------------------------------------------------------------------
(* The invariant holds.                                                    *)

(* The invariant holds at the start.                                       *)
LEMMA InitFence ==
  ASSUME Init
  PROVE  FenceInv
<1>1. /\ runner = InitRunner /\ host = InitHost /\ engine = InitEngine /\ alive = TRUE
      /\ toEngine = <<>> /\ toRunner = <<>> /\ toHost = <<>> /\ fromHost = <<>>
      /\ stdin = <<>> /\ stdout = <<>>
      /\ ui = <<>> /\ running = {} /\ accepted = 0 /\ queue = <<>> /\ published = 0 /\ mark = NoMark
      /\ past = {} /\ owned = TRUE /\ stopped = FALSE
      /\ submitted = {} /\ settled = {} /\ before = [n \in Nonces |-> {}] /\ errored = {}
  BY DEF Init
<1>2. NoCuts \in Cuts /\ 0 \in Nat
  BY DEF NoCuts, Cuts
<1>3. runner \in RunnerType
  <2>1. NoRunnerWork \in RunnerWorkType /\ NoFence \in FenceType
    BY <1>2 DEF NoRunnerWork, RunnerWorkType, NoFence, FenceType
  <2> QED  BY <1>1, <2>1 DEF InitRunner, RunnerType
<1>4. host \in HostType
  <2>1. NoChallenge \in Challenges /\ NoPending \in PendingType /\ NoEntry \in EntryType
    BY <1>2 DEF NoChallenge, Challenges, NoPending, PendingType, NoEntry, EntryType
  <2> QED  BY <1>1, <2>1 DEF InitHost, HostType
<1>5. engine \in EngineType
  <2>1. NoEngineWork \in EngineWorkType
    BY <1>2 DEF NoEngineWork, EngineWorkType
  <2> QED  BY <1>1, <2>1 DEF InitEngine, EngineType
<1>6. mark \in [cuts : Cuts, written : BOOLEAN]
  BY <1>1, <1>2 DEF NoMark
<1>a. \A T : <<>> \in Seq(T)
  OBVIOUS
<1>7. TypeInv
  <2>1. before \in [Nonces -> SUBSET Commands]
    BY <1>1
  <2>2. /\ toEngine \in Seq(ToEngine) /\ toRunner \in Seq(ToRunner)
        /\ toHost \in Seq(ToHost) /\ fromHost \in Seq(FromHostType)
        /\ stdin \in Seq(LineType) /\ stdout \in Seq(StdoutType)
        /\ ui \in Seq(TaskType) /\ queue \in Seq(QueueType)
    BY <1>1, <1>a
  <2> QED  BY <1>1, <1>2, <1>3, <1>4, <1>5, <1>6, <2>1, <2>2 DEF TypeInv
<1>8. /\ AsTurn.r = runner /\ AsTurn.toEngine = <<>> /\ AsTurn.toHost = <<>>
      /\ AsCall.h = host /\ AsCall.toRunner = <<>> /\ AsPump.e = engine /\ AsPump.toRunner = <<>>
  BY <1>1, <1>7, StateIs
<1>b. Len(<<>>) = 0 /\ 1 .. 0 = {}
  OBVIOUS
<1>9. RunnerOK
  <2>1. /\ runner.work = NoRunnerWork /\ runner.fence = NoFence /\ runner.completed = 0 /\ runner.sequence = 0
        /\ runner.generation = 0 /\ engine.nonce = 0 /\ host.last = 0
    BY <1>1 DEF InitRunner, InitEngine, InitHost
  <2>2. CountInv(runner)
    BY <2>1, RunnerWorkAssumption DEF CountInv, HasFence, HasWork
  <2>3. ReceiptInv(runner, GrantedBy(engine), Quiet)
    BY <2>1 DEF ReceiptInv, NoRunnerWork
  <2>4. ResumeInv(runner, Good)
    BY <1>b, <2>1 DEF ResumeInv, NoFence
  <2>5. IdleInv(runner, <<>>)
    BY <1>b, <2>1 DEF IdleInv, HasFence
  <2>6. BeginInv(runner, engine.nonce, host.last)
    BY <2>1 DEF BeginInv, HasWork
  <2>7. SentInv(AsTurn, GrantedBy(engine))
    BY <1>8, <1>b DEF SentInv
  <2>8. RunnerInv(AsTurn, engine.nonce, host.last, GrantedBy(engine), Quiet, Good)
    BY <1>8, <2>2, <2>3, <2>4, <2>5, <2>6, <2>7 DEF RunnerInv
  <2> QED  BY <2>8 DEF RunnerOK, AsTurn
<1>10. HostOK
  <2>1. /\ host.last = 0 /\ host.pending = NoPending /\ host.challenge = NoChallenge
        /\ \A n \in Nonces : host.entries[n] = NoEntry
    BY <1>1 DEF InitHost
  <2>2. \A n \in Nonces : host.entries[n].observed = NoCuts
    BY <2>1 DEF NoEntry
  <2>3. HostInv(AsCall, GrantedBy(engine), Quiet, Good)
    BY <1>8, <1>b, <2>1, <2>2 DEF HostInv, NoPending, NoChallenge
  <2> QED  BY <2>3 DEF HostOK, AsCall
<1>11. EngineOK
  <2>1. engine.work = NoEngineWork
    BY <1>1 DEF InitEngine
  <2>2. EngineInv(AsPump, host.last)
    BY <1>8, <1>b, <2>1 DEF EngineInv, NoEngineWork
  <2> QED  BY <2>2 DEF EngineOK, AsPump
<1>12. TokenInv
  <2>1. ~Held(engine)
    BY <1>1 DEF Held, InitEngine, NoEngineWork
  <2>2. TokenAt = {}
    BY <1>1, <1>b, <2>1 DEF TokenAt, Some
  <2> QED  BY <1>1, <1>b, <2>2 DEF TokenInv, One
<1>13. PlaceInv
  BY <1>1, <1>b DEF PlaceInv, In, Fenced
<1>14. MarkInv
  BY <1>1, <1>b DEF MarkInv
<1>15. ErrorInv /\ LoneInv
  BY <1>1 DEF ErrorInv, LoneInv, InitHost
<1> QED  BY <1>7, <1>9, <1>10, <1>11, <1>12, <1>13, <1>14, <1>15 DEF FenceInv

(* The steps of the runner's loop, and those that keep what is promised    *)
(* as it is.                                                               *)
RunnerTurns == RunnerTick \/ RunnerPacket \/ \E purpose \in Purposes : RunnerBegin(purpose)
EngineSteps ==
  \/ UI \/ UIDelayed \/ ReaderAccepts \/ Writer \/ Watcher
  \/ \E c \in Commands : OperationEnds(c)
FaultSteps == Disown \/ Stop \/ Expire \/ Crash \/ HostKills \/ PublishUnattested \/ EventOverflow

(* Every step is of one of these kinds.                                    *)
LEMMA StepsAre ==
  ASSUME Next
  PROVE  \/ RunnerTurns \/ RunnerFinish \/ HostPacket \/ HostDecode
         \/ (\E c \in Commands : HostSubmit(c)) \/ EngineSteps \/ FaultSteps
BY DEF Next, Runner, Host, RunnerTurns, EngineSteps, FaultSteps

(* The steps of the Engine and the faults leave what is promised as it is. *)
LEMMA EngineStepsKeep ==
  ASSUME FenceInv, EngineSteps \/ FaultSteps
  PROVE  FenceInv' /\ StillPromise
<1>1. CASE UI
  BY <1>1, UIBarrierKeeps, UIWatchKeeps, UICommandKeeps, UIReplyKeeps DEF UI
<1>2. CASE UIDelayed \/ ReaderAccepts
  BY <1>2, UIDelayedKeeps, ReaderAcceptsKeeps
<1>3. CASE Writer
  BY <1>3, WriterWritesKeeps, WriterMarksKeeps DEF Writer
<1>4. CASE Watcher
  BY <1>4, WatcherPostsKeeps, FlagStepsKeep DEF Watcher
<1>5. CASE \E c \in Commands : OperationEnds(c)
  BY <1>5, OperationEndsKeeps
<1>6. CASE FaultSteps
  BY <1>6, FlagStepsKeep, EventOverflowKeeps DEF FaultSteps
<1> QED  BY <1>1, <1>2, <1>3, <1>4, <1>5, <1>6 DEF EngineSteps

(* The steps of the runner but the last of a fence are turns.              *)
LEMMA RunnerTurnsKeep ==
  ASSUME FenceInv, RunnerTurns
  PROVE  FenceInv' /\ \E u : Turns(AsTurn, u) /\ runner' = u.r
BY RunnerTickKeeps, RunnerPacketKeeps, RunnerBeginKeeps DEF RunnerTurns

(* Every step keeps the invariant.                                         *)
LEMMA NextFence ==
  ASSUME FenceInv, [Next]_vars
  PROVE  FenceInv'
<1>1. CASE RunnerTurns
  BY <1>1, RunnerTurnsKeep
<1>2. CASE RunnerFinish
  BY <1>2, RunnerFinishKeeps
<1>3. CASE HostPacket \/ HostDecode
  BY <1>3, HostPacketKeeps, HostDecodeKeeps
<1>4. CASE \E c \in Commands : HostSubmit(c)
  BY <1>4, HostSubmitKeeps
<1>5. CASE EngineSteps \/ FaultSteps
  BY <1>5, EngineStepsKeep
<1>6. CASE UNCHANGED vars
  <2>1. UNCHANGED <<runner, host, channels, engineVars, past, owned, stopped, history>>
    BY <1>6 DEF vars
  <2>2. Still /\ UNCHANGED <<stdin, stdout, ui, running, queue, published, mark, errored>>
    BY <2>1 DEF Still, channels, engineVars, history
  <2>3. TypeInv'
    BY <2>1 DEF FenceInv, TypeInv, channels, engineVars, history
  <2> QED  BY <2>2, <2>3, FlagsKeep
<1> QED  BY <1>1, <1>2, <1>3, <1>4, <1>5, <1>6, StepsAre

(* In every state of the work fence the three processes agree on what was  *)
(* granted, settled and completed, and the barrier command and every       *)
(* authored command is where the invariant says.                           *)
THEOREM FenceInvHolds == Spec => []FenceInv
<1>1. Init => FenceInv
  BY InitFence
<1>2. FenceInv /\ [Next]_vars => FenceInv'
  BY NextFence
<1> QED  BY <1>1, <1>2, PTL DEF Spec

(* An error that was published in time is never passed over.               *)
LEMMA NoErrorPassed ==
  ASSUME FenceInv
  PROVE  ErrorBlocksFence
<1>1. ResumeInv(runner, Good)
  BY FenceGives, FineGives, StateIs DEF FenceInv
<1> QED  BY <1>1 DEF ResumeInv, Good, ErrorBlocksFence

(* A fence never completes when the writer published an error before the   *)
(* Engine granted it (RunnerRetainedSources,                               *)
(* FinishCallbackIterationFence).                                          *)
THEOREM ErrorsBlockFences == Spec => []ErrorBlocksFence
<1>1. FenceInv => ErrorBlocksFence
  BY NoErrorPassed
<1> QED  BY <1>1, FenceInvHolds, PTL

(* A worker that is reused is quiet.                                       *)
LEMMA IdleQuiet ==
  ASSUME FenceInv
  PROVE  IdleMeansQuiet
<1>1. SUFFICES ASSUME runner.idle, RunnerAcceptedWorkReady(runner) PROVE submitted \ Controls \subseteq settled
  BY DEF IdleMeansQuiet
<1>2. /\ AsTurn.r = runner /\ RunnerFine(AsTurn) /\ runner \in RunnerType /\ runner.work \in RunnerWorkType
      /\ LoneInv /\ HostOK /\ AsTurn.toHost = toHost
  BY FenceGives, FineGives, StateIs DEF FenceInv
<1>3. CountInv(runner) /\ ReceiptInv(runner, GrantedBy(engine), Quiet) /\ IdleInv(runner, toHost)
  BY <1>2, FineGives
<1>4. runner.work.observed /\ runner.work.nonce \in Quiet /\ runner.generation = 0
  BY <1>1, <1>3 DEF RunnerAcceptedWorkReady, ReceiptInv, IdleInv
<1>5. runner.work.nonce = runner.sequence
  BY <1>2, <1>3, <1>4, WorkByNonce DEF CountInv, HasWork
<1>6. /\ runner.sequence \in Nonces /\ runner.sequence <= host.last /\ before[runner.sequence] \subseteq settled
  BY <1>4, <1>5 DEF Quiet, QuietAt
<1>7. host.last = runner.sequence /\ host.last # 0
  <2>1. host.last <= runner.sequence /\ host.last \in Nat /\ runner.sequence \in Nat
    BY CountsAgree
  <2>2. runner.sequence # 0
    BY <1>6, NoncesAre
  <2> QED  BY <1>6, <2>1, <2>2
<1>8. submitted \ Controls \subseteq before[host.last]
  BY <1>2, <1>4, <1>7 DEF LoneInv
<1> QED  BY <1>6, <1>7, <1>8

(* A worker that is reused on an idle barrier has every authored command   *)
(* answered and decoded (native-source-work.ts, beforeAuthorAdmission).    *)
THEOREM IdleWorkersAreQuiet == Spec => []IdleMeansQuiet
<1>1. FenceInv => IdleMeansQuiet
  BY IdleQuiet
<1> QED  BY <1>1, FenceInvHolds, PTL

-----------------------------------------------------------------------------
(* The fence implements its promise.                                       *)

(* What the runner's record says of a challenge. *)
VerdictBy(r, n) ==
  IF n <= r.completed THEN "resumed"
  ELSE IF n # r.work.nonce THEN "open"
  ELSE IF r.work.canceled \/ r.work.refused THEN "denied"
  ELSE IF r.work.acknowledged THEN "granted" ELSE "open"
Verdicts(r) == [n \in Nonces |-> VerdictBy(r, n)]
AskedTo(last) == {n \in Nonces : n <= last}

(* The verdicts of the promise are those of the runner's record.           *)
LEMMA VerdictsAre ==
  /\ [n \in Nonces |-> Verdict(n)] = Verdicts(runner)
  /\ \A r : Verdicts(r) \in [Nonces -> {"open", "granted", "denied", "resumed"}]
  /\ \A r : \A n \in Nonces : Verdicts(r)[n] = VerdictBy(r, n)
<1>1. \A n \in Nonces : Verdict(n) = VerdictBy(runner, n)
  BY DEF Verdict, VerdictBy
<1>2. \A r : \A n \in Nonces : VerdictBy(r, n) \in {"open", "granted", "denied", "resumed"}
  BY DEF VerdictBy
<1> QED  BY <1>1, <1>2 DEF Verdicts

(* One verdict is given.                                                   *)
LEMMA OneVerdict ==
  ASSUME NEW r, NEW s, NEW n \in Nonces, \A k \in Nonces \ {n} : VerdictBy(s, k) = VerdictBy(r, k)
  PROVE  Verdicts(s) = [Verdicts(r) EXCEPT ![n] = VerdictBy(s, n)]
BY DEF Verdicts

(* A turn of the runner grants or denies the challenge at hand.            *)
LEMMA TurnJudges ==
  ASSUME FenceInv, NEW u, Turns(AsTurn, u)
  PROVE  \/ Verdicts(u.r) = Verdicts(runner)
         \/ \E n \in Nonces :
              \/ /\ n <= host.last /\ before[n] \subseteq settled /\ Verdicts(runner)[n] = "open"
                 /\ Verdicts(u.r) = [Verdicts(runner) EXCEPT ![n] = "granted"]
              \/ /\ Verdicts(runner)[n] \in {"open", "granted"}
                 /\ Verdicts(u.r) = [Verdicts(runner) EXCEPT ![n] = "denied"]
<1> DEFINE r == runner
           s == u.r
           n == r.completed + 1
<1>1. AsTurn.r = r /\ RunnerFine(AsTurn) /\ RunnerFine(u) /\ Moves(r, s)
  BY FenceGives, StateIs DEF Turns, FenceInv
<1>2. /\ r \in RunnerType /\ r.work \in RunnerWorkType /\ s \in RunnerType /\ s.work \in RunnerWorkType
      /\ CountInv(r) /\ CountInv(s) /\ ReceiptInv(s, GrantedBy(engine), Quiet)
  BY <1>1, FineGives
<1>3. r.completed \in Nat /\ s.completed = r.completed /\ n \in Nat /\ r.completed <= MaxFences
  BY <1>1, <1>2 DEF RunnerType, Moves, CountInv
<1>4. n \in Nonces
  BY <1>3, NoncesAre
<1>5. /\ HasWork(r) => r.work.nonce = n
      /\ HasWork(s) => s.work.nonce = n
      /\ ~HasWork(r) => r.work.nonce = 0 /\ ~r.work.canceled /\ ~r.work.refused /\ ~r.work.acknowledged
      /\ ~HasWork(s) => s.work.nonce = 0 /\ ~s.work.canceled /\ ~s.work.refused /\ ~s.work.acknowledged
  BY <1>2, <1>3 DEF CountInv, HasWork, NoRunnerWork
<1>6. \A k \in Nonces : k # 0 /\ k \in Nat
  BY NoncesAre
<1> HIDE DEF r, s
<1>7. \A k \in Nonces \ {n} : VerdictBy(s, k) = VerdictBy(r, k)
  BY <1>3, <1>5, <1>6 DEF VerdictBy
<1>8. Verdicts(s) = [Verdicts(r) EXCEPT ![n] = VerdictBy(s, n)]
  BY <1>4, <1>7, OneVerdict
<1>9. Verdicts(r)[n] = VerdictBy(r, n) /\ Verdicts(r) \in [Nonces -> {"open", "granted", "denied", "resumed"}]
  BY <1>4, VerdictsAre
<1>10. ~(n <= r.completed) /\ ~(n <= s.completed)
  BY <1>3
<1>11. VerdictBy(r, n) \in {"open", "granted", "denied"} /\ VerdictBy(s, n) \in {"open", "granted", "denied"}
  BY <1>10 DEF VerdictBy
<1>12. VerdictBy(r, n) = "denied" => VerdictBy(s, n) = "denied"
  <2>1. ASSUME VerdictBy(r, n) = "denied" PROVE VerdictBy(s, n) = "denied"
    <3>1. (r.work.canceled \/ r.work.refused) /\ n = r.work.nonce
      BY <1>10, <2>1 DEF VerdictBy
    <3>2. HasWork(r) /\ (s.work.canceled \/ s.work.refused)
      BY <1>1, <1>5, <3>1 DEF Moves
    <3>3. n = s.work.nonce
      BY <1>1, <1>5, <3>2 DEF Moves
    <3> QED  BY <1>10, <3>2, <3>3 DEF VerdictBy
  <2> QED  BY <2>1
<1>13. VerdictBy(r, n) = "granted" => VerdictBy(s, n) \in {"granted", "denied"}
  <2>1. ASSUME VerdictBy(r, n) = "granted" PROVE VerdictBy(s, n) \in {"granted", "denied"}
    <3>1. r.work.acknowledged /\ n = r.work.nonce
      BY <1>10, <2>1 DEF VerdictBy
    <3>2. HasWork(r) /\ s.work.acknowledged
      BY <1>1, <1>5, <3>1 DEF Moves
    <3>3. n = s.work.nonce
      BY <1>1, <1>5, <3>2 DEF Moves
    <3> QED  BY <1>10, <3>2, <3>3 DEF VerdictBy
  <2> QED  BY <2>1
<1>14. CASE VerdictBy(s, n) = VerdictBy(r, n)
  <2>1. Verdicts(s) = Verdicts(r)
    BY <1>8, <1>9, <1>14
  <2> QED  BY <2>1 DEF r, s
<1>15. CASE VerdictBy(r, n) = "open" /\ VerdictBy(s, n) = "granted"
  <2>1. s.work.acknowledged /\ n = s.work.nonce
    BY <1>10, <1>15 DEF VerdictBy
  <2>2. n \in Quiet
    BY <1>2, <2>1 DEF ReceiptInv
  <2>3. n <= host.last /\ before[n] \subseteq settled
    BY <2>2 DEF Quiet, QuietAt
  <2> QED  BY <1>4, <1>8, <1>9, <1>15, <2>3 DEF r, s
<1>16. CASE VerdictBy(r, n) \in {"open", "granted"} /\ VerdictBy(s, n) = "denied"
  BY <1>4, <1>8, <1>9, <1>16 DEF r, s
<1> QED  BY <1>11, <1>12, <1>13, <1>14, <1>15, <1>16

(* The end of a fence resumes it.                                          *)
LEMMA FinishResumes ==
  ASSUME FenceInv, NEW s, Finished(runner, s)
  PROVE  \E n \in Nonces :
           /\ Verdicts(runner)[n] = "granted"
           /\ Verdicts(s) = [Verdicts(runner) EXCEPT ![n] = "resumed"]
<1> DEFINE r == runner
           n == r.completed + 1
<1>1. AsTurn.r = r /\ RunnerFine(AsTurn)
  BY FenceGives, StateIs DEF FenceInv
<1>2. r \in RunnerType /\ CountInv(r)
  BY <1>1, FineGives
<1>3. /\ r.completed \in Nat /\ s.completed = n /\ n \in Nat /\ r.completed <= MaxFences
      /\ r.work.nonce = n /\ s.work.nonce = 0
      /\ r.work.acknowledged /\ ~r.work.canceled /\ ~r.work.refused
  BY <1>2 DEF RunnerType, CountInv, Finished, NoRunnerWork
<1>4. n \in Nonces
  BY <1>3, NoncesAre
<1>5. \A k \in Nonces : k # 0 /\ k \in Nat
  BY NoncesAre
<1>6. \A k \in Nonces \ {n} : VerdictBy(s, k) = VerdictBy(r, k)
  <2> SUFFICES ASSUME NEW k \in Nonces, k # n PROVE VerdictBy(s, k) = VerdictBy(r, k)
    OBVIOUS
  <2>1. k \in Nat /\ k # 0 /\ k # s.work.nonce /\ k # r.work.nonce
    BY <1>3, <1>5
  <2>2. k <= s.completed <=> k <= r.completed
    BY <1>3, <2>1
  <2> QED  BY <2>1, <2>2 DEF VerdictBy
<1>7. VerdictBy(s, n) = "resumed" /\ VerdictBy(r, n) = "granted"
  <2>1. n <= s.completed /\ ~(n <= r.completed)
    BY <1>3
  <2> QED  BY <1>3, <2>1 DEF VerdictBy
<1>8. Verdicts(s) = [Verdicts(r) EXCEPT ![n] = "resumed"]
  BY <1>4, <1>6, <1>7, OneVerdict
<1>9. Verdicts(r)[n] = "granted"
  BY <1>4, <1>7, VerdictsAre
<1> QED  BY <1>4, <1>8, <1>9

(* The next challenge is asked for when the last was resumed.              *)
LEMMA AsksNext ==
  ASSUME FenceInv, NEW n, HostAsks(n)
  PROVE  /\ n \in Nonces /\ n \notin AskedTo(host.last) /\ AskedTo(n) = AskedTo(host.last) \cup {n}
         /\ \A q \in Nonces : q < n => Verdicts(runner)[q] = "resumed"
         /\ before' = [before EXCEPT ![n] = submitted]
<1>1. /\ n \in Nonces /\ host.last < n /\ n <= runner.sequence /\ before' = Asked(n)
      /\ before \in [Nonces -> SUBSET Commands]
  BY DEF HostAsks, FenceInv, TypeInv
<1>2. AsTurn.r = runner /\ RunnerFine(AsTurn)
  BY FenceGives, StateIs DEF FenceInv
<1>3. runner \in RunnerType /\ CountInv(runner)
  BY <1>2, FineGives
<1>4. runner.sequence <= runner.completed + 1 /\ runner.completed \in Nat
  BY <1>3 DEF RunnerType, CountInv
<1>5. runner.sequence <= host.last + 1 /\ host.last \in Nat /\ runner.sequence \in Nat
  BY CountsAgree
<1>6. \A k \in Nonces : k \in Nat
  BY NoncesAre
<1>7. n \in Nat /\ n = host.last + 1 /\ n <= runner.completed + 1
  BY <1>1, <1>4, <1>5, <1>6
<1>8. AskedTo(n) = AskedTo(host.last) \cup {n} /\ n \notin AskedTo(host.last)
  <2>1. ~(n <= host.last) /\ \A k \in Nat : k <= n <=> k <= host.last \/ k = n
    BY <1>5, <1>7
  <2>2. \A k \in Nonces : k <= n <=> k <= host.last \/ k = n
    BY <1>6, <2>1
  <2> QED  BY <1>1, <2>1, <2>2 DEF AskedTo
<1>9. ASSUME NEW q \in Nonces, q < n PROVE Verdicts(runner)[q] = "resumed"
  <2>1. q <= runner.completed
    BY <1>4, <1>6, <1>7, <1>9
  <2>2. VerdictBy(runner, q) = "resumed"
    BY <2>1 DEF VerdictBy
  <2> QED  BY <2>2, VerdictsAre
<1>10. before' = [before EXCEPT ![n] = submitted]
  BY <1>1 DEF Asked
<1> QED  BY <1>1, <1>8, <1>9, <1>10

(* The fence starts as its promise does.                                   *)
LEMMA InitPromise ==
  ASSUME Init
  PROVE  Barrier!Init
<1>1. /\ submitted = {} /\ settled = {} /\ before = [r \in Nonces |-> {}] /\ host.last = 0
      /\ runner.completed = 0 /\ runner.work = NoRunnerWork
  BY DEF Init, InitHost, InitRunner
<1>2. \A n \in Nonces : n \in Nat \ {0} /\ ~(n <= 0)
  <2>1. \A n \in Nonces : n \in Nat \ {0}
    BY HostWorkAssumption
  <2> QED  BY <2>1
<1>3. {n \in Nonces : n <= host.last} = {}
  BY <1>1, <1>2
<1>4. \A n \in Nonces : Verdict(n) = "open"
  BY <1>1, <1>2 DEF Verdict, NoRunnerWork
<1> QED  BY <1>1, <1>3, <1>4 DEF Barrier!Init

(* The steps of the promise, in the model's terms.                         *)
LEMMA PromiseSteps ==
  /\ Barrier!vars = <<submitted, settled, AskedTo(host.last), before, Verdicts(runner)>>
  /\ \A c \in Commands : Barrier!Submit(c) <=>
       /\ c \notin submitted /\ submitted' = submitted \cup {c}
       /\ settled' = settled /\ AskedTo(host'.last) = AskedTo(host.last) /\ before' = before
       /\ Verdicts(runner') = Verdicts(runner)
  /\ \A c \in Commands : Barrier!Settle(c) <=>
       /\ c \in submitted \ settled /\ settled' = settled \cup {c}
       /\ submitted' = submitted /\ AskedTo(host'.last) = AskedTo(host.last) /\ before' = before
       /\ Verdicts(runner') = Verdicts(runner)
  /\ \A n \in Nonces : Barrier!Ask(n) <=>
       /\ n \notin AskedTo(host.last) /\ \A q \in Nonces : q < n => Verdicts(runner)[q] = "resumed"
       /\ AskedTo(host'.last) = AskedTo(host.last) \cup {n} /\ before' = [before EXCEPT ![n] = submitted]
       /\ submitted' = submitted /\ settled' = settled /\ Verdicts(runner') = Verdicts(runner)
  /\ \A n \in Nonces : \A from, to : Barrier!Judge(n, from, to) <=>
       /\ Verdicts(runner)[n] \in from /\ Verdicts(runner') = [Verdicts(runner) EXCEPT ![n] = to]
       /\ submitted' = submitted /\ settled' = settled /\ AskedTo(host'.last) = AskedTo(host.last)
       /\ before' = before
<1>1. [n \in Nonces |-> Verdict(n)] = Verdicts(runner) /\ [n \in Nonces |-> Verdict(n)]' = Verdicts(runner')
  BY DEF Verdict, Verdicts, VerdictBy
<1>2. {n \in Nonces : n <= host.last} = AskedTo(host.last) /\ {n \in Nonces : n <= host.last}' = AskedTo(host'.last)
  BY DEF AskedTo
<1>3. Barrier!vars = <<submitted, settled, AskedTo(host.last), before, Verdicts(runner)>>
  BY <1>1, <1>2 DEF Barrier!vars
<1> QED  BY <1>1, <1>2, <1>3 DEF Barrier!Submit, Barrier!Settle, Barrier!Ask, Barrier!Judge

(* A step that changes none of it is a stutter of the promise.             *)
LEMMA StaysPromised ==
  ASSUME submitted' = submitted, settled' = settled, host'.last = host.last, before' = before,
         Verdicts(runner') = Verdicts(runner)
  PROVE  [Barrier!Next]_(Barrier!vars)
<1>1. Barrier!vars = <<submitted, settled, AskedTo(host.last), before, Verdicts(runner)>>
  BY PromiseSteps
<1>2. Barrier!vars' = <<submitted', settled', AskedTo(host'.last), before', Verdicts(runner')>>
  <2>1. [n \in Nonces |-> Verdict(n)]' = Verdicts(runner')
    BY DEF Verdict, Verdicts, VerdictBy
  <2>2. {n \in Nonces : n <= host.last}' = AskedTo(host'.last)
    BY DEF AskedTo
  <2> QED  BY <2>1, <2>2 DEF Barrier!vars
<1>3. AskedTo(host'.last) = AskedTo(host.last)
  OBVIOUS
<1> QED  BY <1>1, <1>2, <1>3

(* Every step of the fence is one of its promise, or none.                 *)
LEMMA PromiseKept ==
  ASSUME FenceInv, [Next]_vars
  PROVE  [Barrier!Next]_(Barrier!vars)
<1>1. CASE RunnerTurns
  <2>1. PICK u : Turns(AsTurn, u) /\ runner' = u.r
    BY <1>1, RunnerTurnsKeep
  <2>2. submitted' = submitted /\ settled' = settled /\ host' = host /\ before' = before
    <3>1. CASE RunnerTick
      BY <3>1 DEF RunnerTick, RunnerActs, history
    <3>2. CASE RunnerPacket
      BY <3>2 DEF RunnerPacket, history
    <3>3. CASE \E purpose \in Purposes : RunnerBegin(purpose)
      BY <3>3 DEF RunnerBegin, RunnerActs, history
    <3> QED  BY <1>1, <3>1, <3>2, <3>3 DEF RunnerTurns
  <2>3. AskedTo(host'.last) = AskedTo(host.last)
    BY <2>2
  <2>4. CASE Verdicts(runner') = Verdicts(runner)
    BY <2>2, <2>4, StaysPromised
  <2>5. ASSUME NEW n \in Nonces, n <= host.last, before[n] \subseteq settled, Verdicts(runner)[n] = "open",
               Verdicts(runner') = [Verdicts(runner) EXCEPT ![n] = "granted"]
        PROVE  Barrier!Next
    <3>1. Barrier!Judge(n, {"open"}, "granted")
      BY <2>2, <2>3, <2>5, PromiseSteps
    <3>2. n \in {k \in Nonces : k <= host.last}
      BY <2>5
    <3>3. Barrier!Grant(n)
      BY <2>5, <3>1, <3>2 DEF Barrier!Grant
    <3> QED  BY <3>3 DEF Barrier!Next
  <2>6. ASSUME NEW n \in Nonces, Verdicts(runner)[n] \in {"open", "granted"},
               Verdicts(runner') = [Verdicts(runner) EXCEPT ![n] = "denied"]
        PROVE  Barrier!Next
    <3>1. Barrier!Judge(n, {"open", "granted"}, "denied")
      BY <2>2, <2>3, <2>6, PromiseSteps
    <3>2. Barrier!Deny(n)
      BY <3>1 DEF Barrier!Deny
    <3> QED  BY <3>2 DEF Barrier!Next
  <2> QED  BY <2>1, <2>4, <2>5, <2>6, TurnJudges
<1>2. CASE RunnerFinish
  <2>1. Finished(runner, runner')
    BY <1>2, RunnerFinishKeeps
  <2>2. submitted' = submitted /\ settled' = settled /\ host' = host /\ before' = before
    BY <1>2 DEF RunnerFinish, history
  <2>3. PICK n \in Nonces :
           /\ Verdicts(runner)[n] = "granted"
           /\ Verdicts(runner') = [Verdicts(runner) EXCEPT ![n] = "resumed"]
    BY <2>1, FinishResumes
  <2>4. AskedTo(host'.last) = AskedTo(host.last)
    BY <2>2
  <2>5. Barrier!Judge(n, {"granted"}, "resumed")
    BY <2>2, <2>3, <2>4, PromiseSteps
  <2>6. Barrier!Resume(n)
    BY <2>5 DEF Barrier!Resume
  <2> QED  BY <2>6 DEF Barrier!Next
<1>3. CASE HostPacket
  <2>1. runner' = runner /\ submitted' = submitted /\ settled' = settled
    BY <1>3 DEF HostPacket
  <2>2. CASE HostStays
    BY <2>1, <2>2, StaysPromised DEF HostStays
  <2>3. ASSUME NEW n, HostAsks(n) PROVE Barrier!Next
    <3>1. /\ n \in Nonces /\ n \notin AskedTo(host.last) /\ AskedTo(n) = AskedTo(host.last) \cup {n}
          /\ \A q \in Nonces : q < n => Verdicts(runner)[q] = "resumed"
          /\ before' = [before EXCEPT ![n] = submitted]
      BY <2>3, AsksNext
    <3>2. host'.last = n
      BY <2>3 DEF HostAsks
    <3>3. Barrier!Ask(n)
      BY <2>1, <3>1, <3>2, PromiseSteps
    <3> QED  BY <3>1, <3>3 DEF Barrier!Next
  <2> QED  BY <1>3, <2>2, <2>3, HostPacketKeeps
<1>4. CASE HostDecode
  <2>1. runner' = runner /\ submitted' = submitted /\ HostSettles
    BY <1>4, HostDecodeKeeps DEF HostDecode
  <2>2. host'.last = host.last /\ before' = before /\ AskedTo(host'.last) = AskedTo(host.last)
    BY <2>1 DEF HostSettles
  <2>3. CASE settled' = settled
    BY <2>1, <2>2, <2>3, StaysPromised
  <2>4. ASSUME NEW c \in submitted \ settled, settled' = settled \cup {c}
        PROVE  Barrier!Next
    <3>1. c \in Commands
      BY <2>4 DEF FenceInv, TypeInv
    <3>2. Barrier!Settle(c)
      BY <2>1, <2>2, <2>4, <3>1, PromiseSteps
    <3> QED  BY <3>1, <3>2 DEF Barrier!Next
  <2> QED  BY <2>1, <2>3, <2>4 DEF HostSettles
<1>5. CASE \E c \in Commands : HostSubmit(c)
  <2>1. PICK c \in Commands : HostSubmit(c)
    BY <1>5
  <2>2. c \notin submitted
    BY <2>1, HostSubmitKeeps
  <2>3. /\ submitted' = submitted \cup {c} /\ settled' = settled /\ host' = host /\ before' = before
        /\ runner' = runner
    BY <2>1 DEF HostSubmit
  <2>4. Barrier!Submit(c)
    BY <2>2, <2>3, PromiseSteps
  <2> QED  BY <2>4 DEF Barrier!Next
<1>6. CASE EngineSteps \/ FaultSteps
  <2>1. StillPromise
    BY <1>6, EngineStepsKeep
  <2> QED  BY <2>1, StaysPromised DEF StillPromise
<1>7. CASE UNCHANGED vars
  BY <1>7, StaysPromised DEF vars, history
<1> QED  BY <1>1, <1>2, <1>3, <1>4, <1>5, <1>6, <1>7, StepsAre

(* The work fence implements WorkBarrier: a challenge is acknowledged only *)
(* when every command written before its barrier is answered and decoded,  *)
(* at most once and never after a denial, and the next one is asked for    *)
(* only when the last was resumed.                                         *)
THEOREM FenceKeepsItsPromise == Spec => BarrierSpec
<1>1. Init => Barrier!Init
  BY InitPromise
<1>2. FenceInv /\ [Next]_vars => [Barrier!Next]_(Barrier!vars)
  BY PromiseKept
<1> QED  BY <1>1, <1>2, FenceInvHolds, PTL DEF Spec, BarrierSpec, Barrier!Spec
=============================================================================
