-------------------------- MODULE PacketWriterProofs --------------------------
(***************************************************************************)
(* What the Writer keeps for any number of pages, packets, rows and        *)
(* watermark slots, whatever the sizes and budgets are.  IInv is about     *)
(* packets and cuts; BudgetInv, about the counters, rests on it.           *)
(***************************************************************************)
EXTENDS PacketWriter, DataLemmas

-----------------------------------------------------------------------------
(* The inductive invariant.  Nothing in it mentions a size or a counter:   *)
(* whether a packet is dropped for space never matters to it.              *)

TypeInv ==
  /\ pub \in Ledger
  /\ control \in Seq(Packet) /\ audio \in Seq(Packet) /\ wire \in Seq(Packet)
  /\ frameOrder \in Seq(Pages)
  /\ DOMAIN frames \subseteq Pages /\ frames \in [DOMAIN frames -> Packet]
  /\ packet \in Packet /\ made \in Seq(PacketKinds)
  /\ DOMAIN marks \subseteq 1 .. MarkSlots /\ marks \in [DOMAIN marks -> Mark]

(* A packet that left the queues: on stdout, or dropped on purpose.        *)
Out(id, kinds, sent, lost) ==
  \/ \E i \in 1 .. Len(sent) : sent[i].id = id
  \/ id \in lost /\ kinds[id] \in {"frame", "audio"}

(* An id names one accepted packet.                                        *)
Known(pend, kinds) ==
  /\ \A p \in pend : p \in Packet /\ p.id \in 1 .. Len(kinds) /\ kinds[p.id] = p.kind
  /\ \A p, q \in pend : p.id = q.id => p = q

(* The ledger counts exactly the pending packets, and the others are out.  *)
Counted(pend, l, kinds, sent, lost) ==
  ~l.poisoned =>
    /\ l.next = Len(kinds)
    /\ \A p \in pend : p.ticket = p.id
    /\ \A t \in Tickets : l.rows[t].active <=> \E p \in pend : p.ticket = t
    /\ \A id \in 1 .. Len(kinds) : (\E p \in pend : p.id = id) \/ Out(id, kinds, sent, lost)

(* A watermark that waits may already be written.                          *)
Truthful(pend, kinds, sent, lost) ==
  \A p \in pend : p.kind = "watermark" =>
    p.through <= Len(kinds) /\ \A id \in 1 .. p.through : Out(id, kinds, sent, lost)

PacketInv(pend, l, kinds, sent, lost) ==
  Known(pend, kinds) /\ Counted(pend, l, kinds, sent, lost) /\ Truthful(pend, kinds, sent, lost)

Distinct(queue) == \A i, j \in 1 .. Len(queue) : queue[i].id = queue[j].id => i = j
Queued == ToSet(control) \cup ToSet(audio) \cup QueuedFrames
Writing == wpc \in {"write", "written"}

(* The three queues hold different kinds, none twice, and what the thread  *)
(* is writing is in none of them.                                          *)
QueueInv ==
  /\ Distinct(control) /\ \A p \in ToSet(control) : p.kind \notin {"frame", "audio"}
  /\ Distinct(audio) /\ \A p \in ToSet(audio) : p.kind = "audio"
  /\ \A p \in DOMAIN frames : frames[p].kind = "frame" /\ frames[p].page = p
  /\ Writing => \A p \in Queued : p.id # packet.id

(* Every page with a frame has one place in frame_order_.                  *)
Lists(order, pages) ==
  /\ \A i \in 1 .. Len(order) : order[i] \in pages
  /\ \A p \in pages : \E i \in 1 .. Len(order) : order[i] = p
  /\ \A i, j \in 1 .. Len(order) : order[i] = order[j] => i = j
FrameInv == Lists(frameOrder, DOMAIN frames)

(* A watermark's cut is the number of packets accepted before it.          *)
MarkInv ==
  \A s \in DOMAIN marks :
    marks[s].through <= Len(made) /\ (~pub.poisoned => marks[s].through = marks[s].cut.sequence)

(* Replies and events stay in order from control_ through the thread to    *)
(* stdout.                                                                 *)
InOrder(p) == p.kind \in {"reply", "event"}
Sorted(s) == \A i, j \in 1 .. Len(s) : i < j /\ InOrder(s[i]) /\ InOrder(s[j]) => s[i].id < s[j].id
Precedes(s, p) == InOrder(p) => \A i \in 1 .. Len(s) : InOrder(s[i]) => s[i].id < p.id
WireInv ==
  /\ \A i \in 1 .. Len(wire) :
       wire[i].id <= Len(made) /\ (wire[i].kind = "watermark" => wire[i].through <= Len(made))
  /\ Sorted(wire) /\ Sorted(control)
  /\ \A p \in ToSet(control) : Precedes(wire, p)
  /\ Writing => /\ Precedes(wire, packet)
                /\ \A p \in ToSet(control) : InOrder(p) /\ InOrder(packet) => packet.id < p.id

(* From its wait predicate to the packet it takes, the thread keeps mutex_ *)
(* and only a poisoned ledger takes its work away.                         *)
Poisoned == pub.poisoned \/ readerPoisoned
TakeInv ==
  /\ wpc = "enqueue" => locked = TRUE /\ (HasWork \/ Poisoned)
  /\ wpc = "crashed" => Poisoned

IInv == /\ TypeInv /\ PacketInv(Pending, pub, made, wire, gone) /\ QueueInv /\ FrameInv
        /\ MarkInv /\ WireInv /\ WatermarkSound /\ TakeInv

-----------------------------------------------------------------------------
(* The ledger.                                                             *)

(* What every member function but Admit does: the rows of some tickets are *)
(* freed, unless the ledger is poisoned.                                   *)
Frees(l, m, tickets) ==
  /\ m \in Ledger /\ m.next = l.next /\ (l.poisoned => m.poisoned)
  /\ ~m.poisoned => \A t \in Tickets : m.rows[t].active <=> l.rows[t].active /\ t \notin tickets

(* Poisoning changes no row.                                               *)
LEMMA UnsupportedFrees ==
  ASSUME NEW l \in Ledger
  PROVE  Frees(l, Unsupported(l), {}) /\ Unsupported(l).poisoned /\ Unsupported(l).cuts = l.cuts
BY DEF Frees, Unsupported, Ledger

(* A report frees its ticket's row, or leaves it active.                   *)
LEMMA ReportFrees ==
  ASSUME NEW l \in Ledger, NEW t, NEW ok \in BOOLEAN, NEW row \in Row
  PROVE  /\ row.active => Frees(l, Report(l, t, ok, row), {})
         /\ ~row.active => Frees(l, Report(l, t, ok, row), {t})
<1> DEFINE m == Report(l, t, ok, row)
<1>1. CASE t \in Active(l) /\ ok
  <2>1. t \in Tickets /\ l.rows[t].active
    BY <1>1 DEF Active
  <2>2. m = [l EXCEPT !.rows[t] = row]
    BY <1>1 DEF Report
  <2> HIDE DEF m
  <2>3. m \in Ledger /\ m.next = l.next /\ m.poisoned = l.poisoned /\ m.rows = [l.rows EXCEPT ![t] = row]
    BY <2>1, <2>2 DEF Ledger
  <2>4. \A u \in Tickets : m.rows[u] = IF u = t THEN row ELSE l.rows[u]
    BY <2>3 DEF Ledger
  <2>5. \A u \in Tickets : m.rows[u].active \in BOOLEAN /\ l.rows[u].active \in BOOLEAN
    BY <2>3 DEF Ledger, Row
  <2> QED  BY <2>1, <2>3, <2>4, <2>5 DEF Frees, m
<1>2. CASE ~(t \in Active(l) /\ ok)
  <2>1. m = Unsupported(l)
    BY <1>2 DEF Report
  <2> QED  BY <2>1, UnsupportedFrees DEF Frees
<1> QED  BY <1>1, <1>2

(* The row of a ticket, whether it has one or not.                         *)
LEMMA RowAtIsRow ==
  ASSUME NEW l \in Ledger, NEW t
  PROVE  RowAt(l, t) \in Row
BY DEF RowAt, FreeRow, Row, Kinds, Ledger

(* Taking a packet and writing part of it leave its row active; the report *)
(* of a full write frees it.                                               *)
LEMMA WriterReports ==
  ASSUME NEW l \in Ledger, NEW t
  PROVE  /\ Frees(l, Dequeue(l, t), {})
         /\ \A amount \in {"part", "all"} : Frees(l, Wrote(l, t, amount), {})
         /\ Frees(l, FullWrite(l, t), {t})
<1> DEFINE r == RowAt(l, t)
<1>1. r \in Row
  BY RowAtIsRow
<1>2. r.writing \in BOOLEAN /\ (r.written # "all") \in BOOLEAN /\ r.active \in BOOLEAN
  BY <1>1 DEF Row
<1>3. ASSUME NEW row \in Row, NEW ok \in BOOLEAN, row.active = r.active
      PROVE  Frees(l, Report(l, t, ok, row), {})
  <2>1. CASE t \in Active(l)
    <3>1. r.active
      BY <2>1 DEF Active, RowAt
    <3> QED  BY <1>3, <3>1, ReportFrees
  <2>2. CASE t \notin Active(l)
    <3>1. Report(l, t, ok, row) = Unsupported(l)
      BY <2>2 DEF Report
    <3> QED  BY <3>1, UnsupportedFrees
  <2> QED  BY <2>1, <2>2
<1>4. Frees(l, Dequeue(l, t), {})
  <2> DEFINE row == [r EXCEPT !.writing = TRUE]
             ok == ~r.writing
  <2>1. row \in Row /\ row.active = r.active /\ ok \in BOOLEAN
    BY <1>1, <1>2 DEF Row
  <2>2. Dequeue(l, t) = Report(l, t, ok, row)
    BY DEF Dequeue
  <2> HIDE DEF row, ok, r
  <2> QED  BY <1>3, <2>1, <2>2
<1>5. ASSUME NEW amount \in {"part", "all"} PROVE Frees(l, Wrote(l, t, amount), {})
  <2> DEFINE row == [r EXCEPT !.written = amount]
             ok == r.writing /\ r.written # "all"
  <2>1. row \in Row /\ row.active = r.active /\ ok \in BOOLEAN
    BY <1>1, <1>2 DEF Row
  <2>2. Wrote(l, t, amount) = Report(l, t, ok, row)
    BY DEF Wrote
  <2> HIDE DEF row, ok, r
  <2> QED  BY <1>3, <2>1, <2>2
<1>6. Frees(l, FullWrite(l, t), {t})
  <2> DEFINE row == [r EXCEPT !.active = FALSE]
             ok == FullWritten(l, t)
  <2>1. row \in Row /\ ~row.active /\ ok \in BOOLEAN
    BY <1>1 DEF Row, FullWritten
  <2>2. FullWrite(l, t) = Report(l, t, ok, row)
    BY DEF FullWrite
  <2> HIDE DEF row, ok, r
  <2> QED  BY ReportFrees, <2>1, <2>2
<1> QED  BY <1>4, <1>5, <1>6

(* Dropped frees the rows of the dropped packets, or poisons.              *)
LEMMA DroppedFrees ==
  ASSUME NEW l \in Ledger, NEW tickets, NEW reason
  PROVE  Frees(l, Dropped(l, tickets, reason), tickets)
<1> DEFINE m == Dropped(l, tickets, reason)
           bad == \E t \in tickets : ~Droppable(l, t, reason)
           rows == [t \in Tickets |->
                     IF t \in tickets /\ Droppable(l, t, reason)
                     THEN [l.rows[t] EXCEPT !.active = FALSE] ELSE l.rows[t]]
           p == l.poisoned \/ bad
<1>1. \A t \in Tickets : l.rows[t] \in Row /\ [l.rows[t] EXCEPT !.active = FALSE] \in Row
                         /\ ~[l.rows[t] EXCEPT !.active = FALSE].active
  BY DEF Ledger, Row
<1>2. rows \in [Tickets -> Row]
  BY <1>1
<1>3. p \in BOOLEAN
  BY DEF Ledger
<1>4. m = [l EXCEPT !.poisoned = p, !.rows = rows]
  BY DEF Dropped
<1>5. ASSUME ~bad PROVE \A t \in Tickets : rows[t].active <=> l.rows[t].active /\ t \notin tickets
  BY <1>1, <1>5
<1> HIDE DEF p, rows, m
<1>6. m \in Ledger /\ m.next = l.next /\ m.poisoned = p /\ m.rows = rows
  BY <1>2, <1>3, <1>4 DEF Ledger
<1>7. ~m.poisoned => ~l.poisoned /\ ~bad
  BY <1>6 DEF p
<1> QED  BY <1>5, <1>6, <1>7 DEF Frees, m

(* Admit gives the next ticket, whose row becomes active, or poisons.      *)
LEMMA AdmitGives ==
  ASSUME NEW l \in Ledger, NEW kind \in Kinds, NEW m, m = Admit(l, kind)
  PROVE  /\ m \in Ledger /\ AdmitTicket(l) \in 0 .. MaxTicket
         /\ l.poisoned => m.poisoned
         /\ ~m.poisoned => /\ AdmitTicket(l) = l.next + 1 /\ m.next = l.next + 1
                           /\ \A t \in Tickets : m.rows[t].active <=> l.rows[t].active \/ t = l.next + 1
<1>1. l.next \in 0 .. MaxTicket /\ MaxTicket \in Nat
  BY PublicationAssumption DEF Ledger
<1>2. CASE AdmitTicket(l) = 0
  BY <1>1, <1>2, UnsupportedFrees DEF Admit, Frees
<1>3. CASE AdmitTicket(l) # 0
  <2> DEFINE row == [FreeRow EXCEPT !.active = TRUE, !.kind = kind]
  <2>1. AdmitTicket(l) = l.next + 1 /\ l.next # MaxTicket
    BY <1>3 DEF AdmitTicket
  <2>2. l.next + 1 \in Tickets /\ l.next + 1 \in 0 .. MaxTicket
    BY <1>1, <2>1 DEF Tickets
  <2>3. row \in Row /\ row.active
    BY DEF FreeRow, Row, Kinds
  <2> DEFINE rows == [l.rows EXCEPT ![l.next + 1] = row]
  <2>4. m = [l EXCEPT !.next = l.next + 1, !.rows = rows]
    BY <1>3 DEF Admit
  <2>a. rows \in [Tickets -> Row]
    BY <2>3 DEF Ledger
  <2> HIDE DEF row, rows
  <2>b. m \in Ledger /\ m.next = l.next + 1 /\ m.poisoned = l.poisoned /\ m.rows = rows
    BY <2>2, <2>a, <2>4 DEF Ledger
  <2>5. /\ m \in Ledger /\ m.next = l.next + 1 /\ m.poisoned = l.poisoned
        /\ m.rows = [l.rows EXCEPT ![l.next + 1] = row]
    BY <2>b DEF rows
  <2>6. \A t \in Tickets : m.rows[t] = IF t = l.next + 1 THEN row ELSE l.rows[t]
    BY <2>5 DEF Ledger
  <2>7. \A t \in Tickets : m.rows[t].active \in BOOLEAN /\ l.rows[t].active \in BOOLEAN
    BY <2>5 DEF Ledger, Row
  <2> QED  BY <2>1, <2>2, <2>3, <2>5, <2>6, <2>7
<1> QED  BY <1>2, <1>3

(* Cuts touch no row.                                                      *)
LEMMA CutFrees ==
  ASSUME NEW l \in Ledger
  PROVE  /\ Frees(l, Cut(l), {}) /\ \A k : Frees(l, ReleaseCut(l, k), {})
         /\ ~CutRefused(l) => NextCut(l) \in CutOf /\ l.nonce + 1 \in 1 .. MaxNonce
<1>1. \A k : Frees(l, ReleaseCut(l, k), {})
  BY DEF Frees, ReleaseCut, Ledger
<1>2. ASSUME ~CutRefused(l) PROVE NextCut(l) \in CutOf /\ l.nonce + 1 \in 1 .. MaxNonce
  BY <1>2, PublicationAssumption DEF NextCut, CutOf, CutRefused, Ledger
<1>3. Frees(l, Cut(l), {})
  <2>1. CASE CutRefused(l)
    BY <2>1, UnsupportedFrees DEF Cut
  <2>2. CASE ~CutRefused(l)
    <3>1. Cut(l) = [l EXCEPT !.nonce = l.nonce + 1, !.cuts = l.cuts \cup {NextCut(l)}]
      BY <2>2 DEF Cut
    <3>2. l.nonce + 1 \in 0 .. MaxNonce /\ l.cuts \cup {NextCut(l)} \in SUBSET CutOf
      BY <1>2, <2>2, PublicationAssumption DEF Ledger
    <3> HIDE DEF NextCut
    <3> QED  BY <3>1, <3>2 DEF Frees, Ledger
  <2> QED  BY <2>1, <2>2
<1> QED  BY <1>1, <1>2, <1>3

-----------------------------------------------------------------------------
(* The pending packets, as a set.                                          *)

(* Frames and sounds that are dropped leave the ledger with the queues.    *)
LEMMA DropKeeps ==
  ASSUME NEW pend, NEW l, NEW m, NEW kinds \in Seq(PacketKinds), NEW sent \in Seq(Packet), NEW lost,
         PacketInv(pend, l, kinds, sent, lost),
         NEW D, \A p \in D : p \in pend /\ p.kind \in {"frame", "audio"},
         Frees(l, m, {p.ticket : p \in D})
  PROVE  PacketInv(pend \ D, m, kinds, sent, lost \cup {p.id : p \in D})
<1> DEFINE rest == pend \ D
           out == lost \cup {p.id : p \in D}
<1>1. Len(sent) \in Nat /\ Len(kinds) \in Nat
  BY LenProperties
<1>2. \A id : Out(id, kinds, sent, lost) => Out(id, kinds, sent, out)
  BY <1>1 DEF Out
<1>3. Known(rest, kinds)
  BY DEF PacketInv, Known
<1>4. Truthful(rest, kinds, sent, out)
  BY <1>2 DEF PacketInv, Truthful
<1>5. ASSUME ~m.poisoned
      PROVE  /\ m.next = Len(kinds)
             /\ \A p \in rest : p.ticket = p.id
             /\ \A t \in Tickets : m.rows[t].active <=> \E p \in rest : p.ticket = t
             /\ \A id \in 1 .. Len(kinds) : (\E p \in rest : p.id = id) \/ Out(id, kinds, sent, out)
  <2>1. ~l.poisoned /\ m.next = l.next
    BY <1>5 DEF Frees
  <2>2. /\ l.next = Len(kinds)
        /\ \A p \in pend : p.ticket = p.id
        /\ \A t \in Tickets : l.rows[t].active <=> \E p \in pend : p.ticket = t
        /\ \A id \in 1 .. Len(kinds) : (\E p \in pend : p.id = id) \/ Out(id, kinds, sent, lost)
    BY <2>1 DEF PacketInv, Counted
  <2>3. \A p, q \in pend : p.ticket = q.ticket => p = q
    BY <2>2 DEF PacketInv, Known
  <2>4. ASSUME NEW t \in Tickets
        PROVE  m.rows[t].active <=> \E p \in rest : p.ticket = t
    <3>1. m.rows[t].active <=> l.rows[t].active /\ t \notin {p.ticket : p \in D}
      BY <1>5 DEF Frees
    <3>2. m.rows[t].active <=> (\E p \in pend : p.ticket = t) /\ ~\E p \in D : p.ticket = t
      BY <2>2, <3>1
    <3> QED  BY <2>3, <3>2
  <2>5. ASSUME NEW id \in 1 .. Len(kinds)
        PROVE  (\E p \in rest : p.id = id) \/ Out(id, kinds, sent, out)
    <3>1. CASE \E p \in D : p.id = id
      BY <3>1 DEF PacketInv, Known, Out
    <3>2. CASE ~\E p \in D : p.id = id
      BY <1>2, <2>2, <3>2
    <3> QED  BY <3>1, <3>2
  <2> QED  BY <2>1, <2>2, <2>4, <2>5
<1>6. Counted(rest, m, kinds, sent, out)
  BY <1>5 DEF Counted
<1> QED  BY <1>3, <1>4, <1>6 DEF PacketInv

(* Steps that move no packet in or out.                                    *)
LEMMA QuietKeeps ==
  ASSUME NEW pend, NEW l, NEW m, NEW kinds \in Seq(PacketKinds), NEW sent \in Seq(Packet), NEW lost,
         PacketInv(pend, l, kinds, sent, lost), Frees(l, m, {})
  PROVE  PacketInv(pend, m, kinds, sent, lost)
<1>1. Counted(pend, m, kinds, sent, lost)
  BY DEF PacketInv, Counted, Frees
<1> QED  BY <1>1 DEF PacketInv

(* A poisoned ledger has nothing to tell about the packets that are left.  *)
LEMMA PoisonKeeps ==
  ASSUME NEW pend, NEW rest \in SUBSET pend, NEW l, NEW m, NEW kinds \in Seq(PacketKinds), NEW sent \in Seq(Packet), NEW lost,
         PacketInv(pend, l, kinds, sent, lost), m.poisoned
  PROVE  PacketInv(rest, m, kinds, sent, lost)
BY DEF PacketInv, Counted, Known, Truthful

(* The packet whose write ended is on stdout and no longer pending.        *)
LEMMA WriteKeeps ==
  ASSUME NEW pend, NEW l, NEW m, NEW kinds \in Seq(PacketKinds), NEW sent \in Seq(Packet), NEW lost,
         PacketInv(pend, l, kinds, sent, lost),
         NEW x \in pend, x \in Packet, Frees(l, m, {x.ticket}), NEW sent2, sent2 = Append(sent, x)
  PROVE  PacketInv(pend \ {x}, m, kinds, sent2, lost)
<1> DEFINE rest == pend \ {x}
<1>1. Len(sent) \in Nat /\ Len(kinds) \in Nat
  BY LenProperties
<1>a. sent2 \in Seq(Packet) /\ Len(sent2) = Len(sent) + 1
      /\ \A i \in 1 .. Len(sent2) : sent2[i] = IF i <= Len(sent) THEN sent[i] ELSE x
  BY PushBackElements
<1>2. \A id : Out(id, kinds, sent, lost) => Out(id, kinds, sent2, lost)
  <2>1. \A i \in 1 .. Len(sent) : i \in 1 .. Len(sent2) /\ sent2[i] = sent[i]
    BY <1>1, <1>a
  <2> QED  BY <2>1 DEF Out
<1>3. Out(x.id, kinds, sent2, lost)
  <2>1. Len(sent2) \in 1 .. Len(sent2) /\ sent2[Len(sent2)] = x
    BY <1>1, <1>a
  <2> QED  BY <2>1 DEF Out
<1>4. Known(rest, kinds)
  BY DEF PacketInv, Known
<1>5. Truthful(rest, kinds, sent2, lost)
  BY <1>2 DEF PacketInv, Truthful
<1>6. ASSUME ~m.poisoned
      PROVE  /\ m.next = Len(kinds)
             /\ \A p \in rest : p.ticket = p.id
             /\ \A t \in Tickets : m.rows[t].active <=> \E p \in rest : p.ticket = t
             /\ \A id \in 1 .. Len(kinds) : (\E p \in rest : p.id = id) \/ Out(id, kinds, sent2, lost)
  <2>1. ~l.poisoned /\ m.next = l.next
    BY <1>6 DEF Frees
  <2>2. /\ l.next = Len(kinds)
        /\ \A p \in pend : p.ticket = p.id
        /\ \A t \in Tickets : l.rows[t].active <=> \E p \in pend : p.ticket = t
        /\ \A id \in 1 .. Len(kinds) : (\E p \in pend : p.id = id) \/ Out(id, kinds, sent, lost)
    BY <2>1 DEF PacketInv, Counted
  <2>3. \A p, q \in pend : p.ticket = q.ticket => p = q
    BY <2>2 DEF PacketInv, Known
  <2>4. ASSUME NEW t \in Tickets
        PROVE  m.rows[t].active <=> \E p \in rest : p.ticket = t
    <3>1. m.rows[t].active <=> l.rows[t].active /\ t # x.ticket
      BY <1>6 DEF Frees
    <3>2. m.rows[t].active <=> (\E p \in pend : p.ticket = t) /\ t # x.ticket
      BY <2>2, <3>1
    <3> QED  BY <2>3, <3>2
  <2>5. ASSUME NEW id \in 1 .. Len(kinds)
        PROVE  (\E p \in rest : p.id = id) \/ Out(id, kinds, sent2, lost)
    BY <1>2, <1>3, <2>2
  <2> QED  BY <2>1, <2>2, <2>4, <2>5
<1>7. Counted(rest, m, kinds, sent2, lost)
  BY <1>6 DEF Counted
<1> QED  BY <1>4, <1>5, <1>7 DEF PacketInv

(* A packet that the ledger admits becomes pending; a watermark must       *)
(* already be true.                                                        *)
LEMMA AddKeeps ==
  ASSUME NEW pend, NEW l \in Ledger, NEW m, NEW kinds \in Seq(PacketKinds), NEW sent \in Seq(Packet), NEW lost,
         PacketInv(pend, l, kinds, sent, lost),
         NEW x \in Packet, x.id = Len(kinds) + 1, x.ticket = AdmitTicket(l),
         NEW k \in Kinds, m = Admit(l, k), NEW kinds2, kinds2 = Append(kinds, x.kind),
         x.kind = "watermark" =>
           x.through <= Len(kinds) /\ \A id \in 1 .. x.through : Out(id, kinds, sent, lost)
  PROVE  PacketInv(pend \cup {x}, m, kinds2, sent, lost)
<1> DEFINE more == pend \cup {x}
<1>1. Len(sent) \in Nat /\ Len(kinds) \in Nat /\ x.kind \in PacketKinds /\ x.through \in Nat
  BY LenProperties DEF Packet
<1>2. kinds2 \in Seq(PacketKinds) /\ Len(kinds2) = Len(kinds) + 1
      /\ \A i \in 1 .. Len(kinds2) : kinds2[i] = IF i <= Len(kinds) THEN kinds[i] ELSE x.kind
  BY <1>1, PushBackElements
<1>3. ASSUME NEW id \in 1 .. Len(kinds), Out(id, kinds, sent, lost)
      PROVE  Out(id, kinds2, sent, lost)
  <2>1. kinds2[id] = kinds[id]
    BY <1>1, <1>2
  <2> QED  BY <1>3, <2>1 DEF Out
<1>4. \A p \in pend : p \in Packet /\ p.id \in 1 .. Len(kinds) /\ p.id \in 1 .. Len(kinds2)
                      /\ p.id # x.id /\ kinds2[p.id] = p.kind
  BY <1>1, <1>2 DEF PacketInv, Known
<1>5. x.id \in 1 .. Len(kinds2) /\ kinds2[x.id] = x.kind
  BY <1>1, <1>2
<1>6. Known(more, kinds2)
  BY <1>4, <1>5 DEF PacketInv, Known
<1>7. Truthful(more, kinds2, sent, lost)
  <2> SUFFICES ASSUME NEW p \in more, p.kind = "watermark"
               PROVE  p.through <= Len(kinds2) /\ \A id \in 1 .. p.through : Out(id, kinds2, sent, lost)
    BY DEF Truthful
  <2>1. p.through \in Nat /\ p.through <= Len(kinds) /\ \A id \in 1 .. p.through : Out(id, kinds, sent, lost)
    <3>1. CASE p = x
      BY <1>1, <3>1
    <3>2. CASE p \in pend
      <4>1. p.through \in Nat
        BY <1>4, <3>2 DEF Packet
      <4> QED  BY <3>2, <4>1 DEF PacketInv, Truthful
    <3> QED  BY <3>1, <3>2
  <2>2. \A id \in 1 .. p.through : id \in 1 .. Len(kinds)
    BY <1>1, <2>1
  <2>3. p.through <= Len(kinds2)
    BY <1>1, <1>2, <2>1
  <2> QED  BY <1>3, <2>1, <2>2, <2>3
<1>8. ASSUME ~m.poisoned
      PROVE  /\ m.next = Len(kinds2)
             /\ \A p \in more : p.ticket = p.id
             /\ \A t \in Tickets : m.rows[t].active <=> \E p \in more : p.ticket = t
             /\ \A id \in 1 .. Len(kinds2) : (\E p \in more : p.id = id) \/ Out(id, kinds2, sent, lost)
  <2>1. /\ ~l.poisoned /\ AdmitTicket(l) = l.next + 1 /\ m.next = l.next + 1
        /\ \A t \in Tickets : m.rows[t].active <=> l.rows[t].active \/ t = l.next + 1
    BY <1>8, AdmitGives
  <2>2. /\ l.next = Len(kinds)
        /\ \A p \in pend : p.ticket = p.id
        /\ \A t \in Tickets : l.rows[t].active <=> \E p \in pend : p.ticket = t
        /\ \A id \in 1 .. Len(kinds) : (\E p \in pend : p.id = id) \/ Out(id, kinds, sent, lost)
    BY <2>1 DEF PacketInv, Counted
  <2>3. x.ticket = x.id /\ x.ticket = l.next + 1
    BY <2>1, <2>2
  <2>4. ASSUME NEW t \in Tickets
        PROVE  m.rows[t].active <=> \E p \in more : p.ticket = t
    BY <2>1, <2>2, <2>3
  <2>5. ASSUME NEW id \in 1 .. Len(kinds2)
        PROVE  (\E p \in more : p.id = id) \/ Out(id, kinds2, sent, lost)
    <3>1. CASE id = x.id
      BY <3>1
    <3>2. CASE id # x.id
      <4>1. id \in 1 .. Len(kinds)
        BY <1>1, <1>2, <3>2
      <4> QED  BY <1>3, <2>2, <4>1
    <3> QED  BY <3>1, <3>2
  <2>6. m.next = Len(kinds2)
    BY <1>2, <2>1, <2>2
  <2> QED  BY <2>2, <2>3, <2>4, <2>5, <2>6
<1>9. Counted(more, m, kinds2, sent, lost)
  BY <1>8 DEF Counted
<1> QED  BY <1>6, <1>7, <1>9 DEF PacketInv

-----------------------------------------------------------------------------
(* The queues, one operation at a time.                                    *)

(* What a queue holds.                                                     *)
LEMMA ToSetElements ==
  ASSUME NEW S, NEW s \in Seq(S)
  PROVE  \A x : x \in ToSet(s) <=> \E i \in 1 .. Len(s) : x = s[i]
BY DEF ToSet

(* A new packet at either end of a queue, and at the back in order.        *)
LEMMA QueuePushed ==
  ASSUME NEW q \in Seq(Packet), NEW x \in Packet, NEW n \in Nat, x.id = n + 1,
         \A p \in ToSet(q) : p.id \in 1 .. n, NEW r, r = Append(q, x) \/ r = <<x>> \o q
  PROVE  /\ r \in Seq(Packet) /\ ToSet(r) = ToSet(q) \cup {x} /\ r # <<>>
         /\ Distinct(q) => Distinct(r)
         /\ Sorted(q) /\ (r = Append(q, x) \/ ~InOrder(x)) => Sorted(r)
<1>1. Len(q) \in Nat /\ \A i \in 1 .. Len(q) : q[i] \in Packet /\ q[i].id \in 1 .. n /\ q[i].id # x.id
  <2>1. \A i \in 1 .. Len(q) : q[i] \in Packet /\ q[i].id \in 1 .. n
    BY ToSetElements, ElementOfSeq
  <2> QED  BY <2>1, LenProperties
<1>2. CASE r = Append(q, x)
  <2>1. /\ r \in Seq(Packet) /\ Len(r) = Len(q) + 1
        /\ \A i \in 1 .. Len(r) : r[i] = IF i <= Len(q) THEN q[i] ELSE x
    BY <1>2, PushBackElements
  <2>2. \A i \in 1 .. Len(q) : i \in 1 .. Len(r) /\ r[i] = q[i]
    BY <1>1, <2>1
  <2>3. Len(r) \in 1 .. Len(r) /\ r[Len(r)] = x
    BY <1>1, <2>1
  <2>4. \A i \in 1 .. Len(r) : i \in 1 .. Len(q) \/ i = Len(r)
    BY <1>1, <2>1
  <2>5. ToSet(r) = ToSet(q) \cup {x}
    BY <2>1, <2>2, <2>3, <2>4, ToSetElements, SMTT(40)
  <2>6. Distinct(q) => Distinct(r)
    BY <1>1, <2>2, <2>3, <2>4 DEF Distinct
  <2>7. Sorted(q) => Sorted(r)
    <3> SUFFICES ASSUME Sorted(q), NEW i \in 1 .. Len(r), NEW j \in 1 .. Len(r), i < j,
                        InOrder(r[i]), InOrder(r[j])
                 PROVE  r[i].id < r[j].id
      BY DEF Sorted
    <3>1. i \in 1 .. Len(q) /\ r[i] = q[i]
      BY <1>1, <2>1, <2>2
    <3>2. CASE j = Len(r)
      BY <1>1, <2>3, <3>1, <3>2
    <3>3. CASE j \in 1 .. Len(q)
      BY <2>2, <3>1, <3>3 DEF Sorted
    <3> QED  BY <2>4, <3>2, <3>3
  <2>8. r # <<>>
    BY <1>1, <2>1, EmptySeq
  <2> QED  BY <2>1, <2>5, <2>6, <2>7, <2>8
<1>3. CASE r = <<x>> \o q
  <2>1. /\ r \in Seq(Packet) /\ Len(r) = Len(q) + 1
        /\ \A i \in 1 .. Len(r) : r[i] = IF i = 1 THEN x ELSE q[i - 1]
    BY <1>3, PushFrontElements
  <2>2. \A i \in 1 .. Len(q) : i + 1 \in 1 .. Len(r) /\ r[i + 1] = q[i]
    BY <1>1, <2>1
  <2>3. 1 \in 1 .. Len(r) /\ r[1] = x
    BY <1>1, <2>1
  <2>4. \A i \in 1 .. Len(r) : i = 1 \/ (i - 1 \in 1 .. Len(q) /\ r[i] = q[i - 1])
    BY <1>1, <2>1
  <2>5. ToSet(r) = ToSet(q) \cup {x}
    <3>1. \A y : y \in ToSet(r) <=> \E i \in 1 .. Len(r) : y = r[i]
      BY <2>1, ToSetElements
    <3>2. \A y : y \in ToSet(q) <=> \E i \in 1 .. Len(q) : y = q[i]
      BY ToSetElements
    <3>3. \A y : y \in ToSet(r) => y \in ToSet(q) \cup {x}
      <4>1. \A i \in 1 .. Len(q) : q[i] \in ToSet(q)
        BY <3>2
      <4>2. \A i \in 1 .. Len(r) : r[i] \in ToSet(q) \cup {x}
        BY <2>3, <2>4, <4>1
      <4> QED  BY <3>1, <4>2
    <3>4. \A i \in 1 .. Len(q) : q[i] \in ToSet(r)
      BY <2>2, <3>1
    <3>5. x \in ToSet(r)
      BY <2>3, <3>1
    <3> QED  BY <3>2, <3>3, <3>4, <3>5
  <2>6. Distinct(q) => Distinct(r)
    <3> SUFFICES ASSUME Distinct(q), NEW i \in 1 .. Len(r), NEW j \in 1 .. Len(r), r[i].id = r[j].id
                 PROVE  i = j
      BY DEF Distinct
    <3>1. CASE i = 1 /\ j = 1
      BY <3>1
    <3>2. CASE i = 1 /\ j # 1
      BY <1>1, <2>3, <2>4, <3>2
    <3>3. CASE i # 1 /\ j = 1
      BY <1>1, <2>3, <2>4, <3>3
    <3>4. CASE i # 1 /\ j # 1
      <4>1. i - 1 \in 1 .. Len(q) /\ j - 1 \in 1 .. Len(q) /\ q[i - 1].id = q[j - 1].id
        BY <2>4, <3>4
      <4>2. i - 1 = j - 1
        BY <4>1 DEF Distinct
      <4>3. i \in Int /\ j \in Int
        BY <1>1, <2>1
      <4> QED  BY <4>2, <4>3
    <3> QED  BY <3>1, <3>2, <3>3, <3>4
  <2>7. Sorted(q) /\ ~InOrder(x) => Sorted(r)
    <3> SUFFICES ASSUME Sorted(q), ~InOrder(x), NEW i \in 1 .. Len(r), NEW j \in 1 .. Len(r), i < j,
                        InOrder(r[i]), InOrder(r[j])
                 PROVE  r[i].id < r[j].id
      BY DEF Sorted
    <3>1. i # 1 /\ j # 1 /\ i - 1 < j - 1
      BY <2>3
    <3> QED  BY <2>4, <3>1 DEF Sorted
  <2>8. r # <<>>
    BY <1>1, <2>1, EmptySeq
  <2>9. r = Append(q, x) => (Sorted(q) => Sorted(r))
    BY <1>2
  <2> QED  BY <2>1, <2>5, <2>6, <2>7, <2>8, <2>9
<1> QED  BY <1>2, <1>3

(* The head of a queue leaves it.                                          *)
LEMMA QueuePopped ==
  ASSUME NEW q \in Seq(Packet), q # <<>>, Distinct(q), NEW r, r = Tail(q)
  PROVE  /\ r \in Seq(Packet) /\ Head(q) \in Packet /\ Head(q) \in ToSet(q)
         /\ ToSet(r) = ToSet(q) \ {Head(q)} /\ \A p \in ToSet(r) : p.id # Head(q).id
         /\ Distinct(r)
         /\ Sorted(q) => /\ Sorted(r)
                         /\ \A p \in ToSet(r) : InOrder(p) /\ InOrder(Head(q)) => Head(q).id < p.id
<1>1. /\ r \in Seq(Packet) /\ Len(q) \in Nat \ {0} /\ Len(r) = Len(q) - 1
      /\ Head(q) \in Packet /\ Head(q) = q[1]
      /\ \A i \in 1 .. Len(r) : r[i] = q[i + 1]
  BY PopFrontElements
<1>2. 1 \in 1 .. Len(q) /\ \A i \in 1 .. Len(r) : i + 1 \in 1 .. Len(q) /\ i + 1 # 1 /\ i \in Nat
  BY <1>1
<1>3. \A i \in 1 .. Len(q) : i = 1 \/ (i - 1 \in 1 .. Len(r) /\ q[i] = r[i - 1])
  BY <1>1
<1>4. \A i \in 1 .. Len(r) : r[i].id # Head(q).id
  BY <1>1, <1>2 DEF Distinct
<1>d. r \in Seq(Packet)
  BY <1>1
<1>a. \A x : x \in ToSet(r) <=> \E i \in 1 .. Len(r) : x = r[i]
  BY <1>d, ToSetElements
<1>b. \A x : x \in ToSet(q) <=> \E i \in 1 .. Len(q) : x = q[i]
  BY ToSetElements
<1>c. \A i \in 1 .. Len(r) : r[i] \in ToSet(q)
  BY <1>1, <1>2, <1>b
<1>5. \A p \in ToSet(r) : p.id # Head(q).id /\ p \in ToSet(q)
  BY <1>4, <1>a, <1>c
<1>6. ToSet(r) = ToSet(q) \ {Head(q)} /\ Head(q) \in ToSet(q)
  <2>1. \A x : x \in ToSet(q) /\ x # Head(q) => x \in ToSet(r)
    <3>1. \A i \in 1 .. Len(r) : r[i] \in ToSet(r)
      BY <1>a
    <3>2. \A i \in 1 .. Len(q) : i # 1 => q[i] \in ToSet(r)
      BY <1>3, <3>1
    <3> QED  BY <1>1, <1>b, <3>2
  <2>2. Head(q) \in ToSet(q)
    BY <1>1, <1>2, <1>b
  <2> QED  BY <1>5, <2>1, <2>2
<1>7. Distinct(r)
  <2> SUFFICES ASSUME NEW i \in 1 .. Len(r), NEW j \in 1 .. Len(r), r[i].id = r[j].id PROVE i = j
    BY DEF Distinct
  <2>1. i + 1 = j + 1
    BY <1>1, <1>2 DEF Distinct
  <2> QED  BY <1>2, <2>1
<1>8. ASSUME Sorted(q)
      PROVE  Sorted(r) /\ \A p \in ToSet(r) : InOrder(p) /\ InOrder(Head(q)) => Head(q).id < p.id
  <2>1. ASSUME NEW i \in 1 .. Len(r), NEW j \in 1 .. Len(r), i < j, InOrder(r[i]), InOrder(r[j])
        PROVE  r[i].id < r[j].id
    <3>1. i + 1 < j + 1
      BY <1>2, <2>1
    <3> QED  BY <1>1, <1>2, <1>8, <2>1, <3>1 DEF Sorted
  <2>2. ASSUME NEW i \in 1 .. Len(r), InOrder(r[i]), InOrder(Head(q)) PROVE Head(q).id < r[i].id
    <3>1. 1 < i + 1
      BY <1>2
    <3> QED  BY <1>1, <1>2, <1>8, <2>2, <3>1 DEF Sorted
  <2>3. Sorted(r)
    BY <2>1 DEF Sorted
  <2> QED  BY <1>a, <2>2, <2>3
<1> QED  BY <1>1, <1>5, <1>6, <1>7, <1>8

(* The packets at the other places leave a queue.                          *)
LEMMA QueueKept ==
  ASSUME NEW q \in Seq(Packet), Distinct(q), NEW places \in SUBSET (1 .. Len(q)), NEW r, r = Kept(q, places)
  PROVE  /\ r \in Seq(Packet) /\ Distinct(r)
         /\ ToSet(r) = ToSet(q) \ {q[i] : i \in (1 .. Len(q)) \ places}
<1>1. Len(q) \in Nat
  BY LenProperties
<1>2. r \in Seq(Packet) /\ \E at : KeptFrom(q, places, r, at)
  BY KeptPlaces
<1>a. PICK at : KeptFrom(q, places, r, at)
  BY <1>2
<1>3. /\ at \in [1 .. Len(r) -> places]
      /\ \A k \in 1 .. Len(r) : r[k] = q[at[k]]
      /\ \A k, l \in 1 .. Len(r) : k < l => at[k] < at[l]
      /\ \A i \in places : \E k \in 1 .. Len(r) : at[k] = i
  BY <1>a DEF KeptFrom
<1>4. \A k \in 1 .. Len(r) : at[k] \in places /\ at[k] \in 1 .. Len(q) /\ k \in Int /\ at[k] \in Int
  <2>1. \A k \in 1 .. Len(r) : at[k] \in places
    BY <1>3
  <2>2. \A k \in 1 .. Len(r) : k \in Int
    BY <1>2, LenProperties
  <2>3. \A i \in places : i \in 1 .. Len(q) /\ i \in Int
    BY <1>1
  <2> QED  BY <2>1, <2>2, <2>3
<1>5. Distinct(r)
  <2> SUFFICES ASSUME NEW k \in 1 .. Len(r), NEW l \in 1 .. Len(r), r[k].id = r[l].id PROVE k = l
    BY DEF Distinct
  <2>a. q[at[k]].id = q[at[l]].id
    BY <1>3
  <2>1. at[k] = at[l]
    BY <1>4, <2>a DEF Distinct
  <2>2. ~(k < l) /\ ~(l < k)
    BY <1>3, <1>4, <2>1
  <2> QED  BY <1>4, <2>2
<1>6. \A i, j \in 1 .. Len(q) : q[i] = q[j] => i = j
  BY DEF Distinct
<1>7. \A x : x \in ToSet(r) <=> \E i \in places : x = q[i]
  <2>1. \A x : x \in ToSet(r) <=> \E k \in 1 .. Len(r) : x = r[k]
    BY <1>2, ToSetElements
  <2>2. \A i \in places : q[i] \in ToSet(r)
    BY <1>3, <2>1
  <2> QED  BY <1>3, <1>4, <2>1, <2>2
<1>8. \A x : x \in ToSet(q) <=> \E i \in 1 .. Len(q) : x = q[i]
  BY ToSetElements
<1>9. ToSet(r) = ToSet(q) \ {q[i] : i \in (1 .. Len(q)) \ places}
  BY <1>6, <1>7, <1>8
<1> QED  BY <1>2, <1>5, <1>9

-----------------------------------------------------------------------------
(* Steps of the Writer.                                                    *)

(* What is pending, and why an id below the next one is not new.           *)
LEMMA PendingParts ==
  ASSUME IInv
  PROVE  /\ Pending = Queued \cup (IF Writing THEN {packet} ELSE {})
         /\ Len(made) \in Nat /\ Len(wire) \in Nat
         /\ \A p \in Queued : p \in Packet /\ p.id \in 1 .. Len(made)
         /\ Writing => packet.id \in 1 .. Len(made)
<1>1. Pending = Queued \cup (IF Writing THEN {packet} ELSE {})
  BY DEF Pending, Queued, Writing
<1>2. \A p \in Pending : p \in Packet /\ p.id \in 1 .. Len(made)
  BY DEF IInv, PacketInv, Known
<1>3. Len(made) \in Nat /\ Len(wire) \in Nat
  BY LenProperties DEF IInv, TypeInv
<1> QED  BY <1>1, <1>2, <1>3

(* What is on stdout stays true while packets are accepted and dropped.    *)
LEMMA WireStep ==
  ASSUME IInv, wire' = wire, gone \subseteq gone', NEW k \in PacketKinds,
         made' = made \/ made' = Append(made, k)
  PROVE  /\ made' \in Seq(PacketKinds) /\ WatermarkSound'
         /\ Len(made') \in Nat /\ Len(made) <= Len(made')
         /\ \A i \in 1 .. Len(wire') :
              wire'[i].id <= Len(made') /\ (wire'[i].kind = "watermark" => wire'[i].through <= Len(made'))
<1>1. made \in Seq(PacketKinds) /\ wire \in Seq(Packet) /\ Len(made) \in Nat /\ Len(wire) \in Nat
  BY PendingParts DEF IInv, TypeInv
<1>2. made' \in Seq(PacketKinds) /\ Len(made') \in Nat /\ Len(made) <= Len(made')
      /\ \A i \in 1 .. Len(made) : made'[i] = made[i]
  <2>1. CASE made' = made
    BY <1>1, <2>1
  <2>2. CASE made' = Append(made, k)
    <3>1. made' \in Seq(PacketKinds) /\ Len(made') = Len(made) + 1
          /\ \A i \in 1 .. Len(made') : made'[i] = IF i <= Len(made) THEN made[i] ELSE k
      BY <1>1, <2>2, PushBackElements
    <3> QED  BY <1>1, <3>1
  <2> QED  BY <2>1, <2>2
<1>3. \A i \in 1 .. Len(wire) : wire[i] \in Packet /\ wire[i].id \in Nat /\ wire[i].through \in Nat
  <2>1. \A i \in 1 .. Len(wire) : wire[i] \in Packet
    BY <1>1, ElementOfSeq
  <2> QED  BY <2>1 DEF Packet
<1>4. \A i \in 1 .. Len(wire) :
        wire[i].id <= Len(made) /\ (wire[i].kind = "watermark" => wire[i].through <= Len(made))
  BY DEF IInv, WireInv
<1>5. \A i \in 1 .. Len(wire) :
        wire[i].id <= Len(made') /\ (wire[i].kind = "watermark" => wire[i].through <= Len(made'))
  BY <1>1, <1>2, <1>3, <1>4
<1>6. WatermarkSound'
  <2> SUFFICES ASSUME NEW i \in DOMAIN wire, wire[i].kind = "watermark", NEW id \in 1 .. wire[i].through
               PROVE  \/ \E j \in 1 .. i - 1 : wire[j].id = id
                      \/ id \in gone' /\ made'[id] \in {"frame", "audio"}
    BY DEF WatermarkSound
  <2>1. i \in 1 .. Len(wire)
    BY <1>1, LenProperties
  <2>2. id \in 1 .. Len(made)
    BY <1>1, <1>3, <1>4, <2>1
  <2>3. \/ \E j \in 1 .. i - 1 : wire[j].id = id
        \/ id \in gone /\ made[id] \in {"frame", "audio"}
    BY DEF IInv, WatermarkSound
  <2> QED  BY <1>2, <2>2, <2>3
<1> QED  BY <1>2, <1>5, <1>6

(* The slots keep their cuts.                                              *)
LEMMA MarkStep ==
  ASSUME IInv, pub.poisoned => pub'.poisoned, Len(made') \in Nat, Len(made) <= Len(made'),
         \A s \in DOMAIN marks' : s \in DOMAIN marks /\ marks'[s].through = marks[s].through
                                  /\ marks'[s].cut = marks[s].cut
  PROVE  MarkInv'
<1>1. \A s \in DOMAIN marks : marks[s].through \in Nat
  BY DEF IInv, TypeInv, Mark
<1>2. Len(made) \in Nat
  BY PendingParts
<1> QED  BY <1>1, <1>2 DEF IInv, MarkInv

(* Steps that move no packet.                                              *)
LEMMA QuietStep ==
  ASSUME IInv, Frees(pub, pub', {}), UNCHANGED <<queueVars, made, wire, gone>>, packet' \in Packet,
         Writing' <=> Writing, Writing => packet' = packet,
         DOMAIN marks' \subseteq 1 .. MarkSlots, marks' \in [DOMAIN marks' -> Mark]
  PROVE  /\ TypeInv' /\ PacketInv(Pending, pub, made, wire, gone)' /\ QueueInv' /\ FrameInv'
         /\ WireInv' /\ WatermarkSound'
<1> USE DEF queueVars
<1>1. TypeInv'
  BY DEF IInv, TypeInv, Frees
<1>2. Queued' = Queued
  BY DEF Queued, QueuedFrames
<1>3. Pending' = Pending
  <2>1. Pending' = Queued' \cup (IF Writing' THEN {packet'} ELSE {})
    BY DEF Pending, Queued, Writing
  <2> QED  BY <1>2, <2>1, PendingParts
<1>4. PacketInv(Pending', pub', made', wire', gone')
  <2>1. made \in Seq(PacketKinds) /\ wire \in Seq(Packet) /\ PacketInv(Pending, pub, made, wire, gone)
    BY DEF IInv, TypeInv
  <2>2. PacketInv(Pending, pub', made, wire, gone)
    BY <2>1, QuietKeeps
  <2> QED  BY <1>3, <2>2
<1>5. QueueInv'
  BY <1>2 DEF IInv, QueueInv
<1>6. FrameInv' /\ WireInv' /\ WatermarkSound'
  BY DEF IInv, FrameInv, WireInv, WatermarkSound
<1> QED  BY <1>1, <1>4, <1>5, <1>6

(* A new packet enters control_, at the back or, when it is no reply and   *)
(* no event, at the front.                                                 *)
LEMMA ControlStep ==
  ASSUME IInv, NEW x \in Packet, x.id = Len(made) + 1, x.ticket = AdmitTicket(pub),
         x.kind \notin {"frame", "audio"},
         x.kind = "watermark" =>
           x.through <= Len(made) /\ \A id \in 1 .. x.through : Out(id, made, wire, gone),
         control' = Append(control, x) \/ (~InOrder(x) /\ control' = <<x>> \o control),
         pub' = Admit(pub, LedgerKind(x.kind)), made' = Append(made, x.kind),
         UNCHANGED <<audio, frames, frameOrder, packet, wire, gone>>, Writing' <=> Writing,
         DOMAIN marks' \subseteq 1 .. MarkSlots, marks' \in [DOMAIN marks' -> Mark]
  PROVE  /\ TypeInv' /\ PacketInv(Pending, pub, made, wire, gone)' /\ QueueInv' /\ FrameInv'
         /\ WireInv' /\ WatermarkSound' /\ control' # <<>>
         /\ (pub.poisoned => pub'.poisoned) /\ Len(made') \in Nat /\ Len(made) <= Len(made')
<1>1. /\ pub \in Ledger /\ control \in Seq(Packet) /\ made \in Seq(PacketKinds) /\ wire \in Seq(Packet)
      /\ PacketInv(Pending, pub, made, wire, gone) /\ x.kind \in PacketKinds
  BY DEF IInv, TypeInv, Packet
<1>2. LedgerKind(x.kind) \in Kinds
  BY <1>1 DEF LedgerKind, Kinds, PacketKinds
<1>3. pub' \in Ledger /\ (pub.poisoned => pub'.poisoned)
  BY <1>1, <1>2, AdmitGives
<1>4. \A p \in ToSet(control) : p \in Queued /\ p.id \in 1 .. Len(made)
  BY PendingParts DEF Queued
<1>5. /\ control' \in Seq(Packet) /\ ToSet(control') = ToSet(control) \cup {x} /\ control' # <<>>
      /\ Distinct(control') /\ Sorted(control')
  <2>1. Distinct(control) /\ Sorted(control) /\ Len(made) \in Nat
    BY PendingParts DEF IInv, QueueInv, WireInv
  <2> QED  BY <1>1, <1>4, <2>1, QueuePushed
<1>6. /\ made' \in Seq(PacketKinds) /\ WatermarkSound' /\ Len(made') \in Nat /\ Len(made) <= Len(made')
      /\ \A i \in 1 .. Len(wire') :
           wire'[i].id <= Len(made') /\ (wire'[i].kind = "watermark" => wire'[i].through <= Len(made'))
  <2>1. wire' = wire /\ gone \subseteq gone'
    OBVIOUS
  <2> QED  BY <1>1, <2>1, WireStep
<1>7. TypeInv'
  BY <1>3, <1>5, <1>6 DEF IInv, TypeInv
<1>8. Queued' = Queued \cup {x}
  BY <1>5 DEF Queued, QueuedFrames
<1>9. Pending' = Pending \cup {x}
  <2>1. Pending' = Queued' \cup (IF Writing' THEN {packet'} ELSE {})
    BY DEF Pending, Queued, Writing
  <2> QED  BY <1>8, <2>1, PendingParts
<1>10. PacketInv(Pending', pub', made', wire', gone')
  <2>1. PacketInv(Pending \cup {x}, pub', made', wire, gone)
    BY <1>1, <1>2, AddKeeps
  <2> QED  BY <1>9, <2>1
<1>11. QueueInv'
  <2>1. Writing => \A p \in Queued' : p.id # packet.id
    <3>1. Writing => packet.id \in 1 .. Len(made) /\ Len(made) \in Nat
      BY PendingParts
    <3>2. Writing => x.id # packet.id
      BY <3>1
    <3> QED  BY <1>8, <3>2 DEF IInv, QueueInv
  <2>2. \A p \in ToSet(control') : p.kind \notin {"frame", "audio"}
    BY <1>5 DEF IInv, QueueInv
  <2> QED  BY <1>5, <2>1, <2>2 DEF IInv, QueueInv
<1>12. WireInv'
  <2>1. \A i \in 1 .. Len(wire) : wire[i].id < x.id
    <3>1. \A i \in 1 .. Len(wire) : wire[i].id \in Nat /\ wire[i].id <= Len(made)
      <4>1. \A i \in 1 .. Len(wire) : wire[i] \in Packet
        BY <1>1, ElementOfSeq
      <4> QED  BY <4>1 DEF IInv, WireInv, Packet
    <3> QED  BY <3>1, PendingParts
  <2>2. \A p \in ToSet(control') : Precedes(wire, p)
    BY <1>5, <2>1 DEF IInv, WireInv, Precedes
  <2>3. Writing => \A p \in ToSet(control') : InOrder(p) /\ InOrder(packet) => packet.id < p.id
    <3>1. Writing => packet.id < x.id
      BY PendingParts
    <3> QED  BY <1>5, <3>1 DEF IInv, WireInv
  <2>4. Sorted(wire') /\ (Writing => Precedes(wire', packet'))
    BY DEF IInv, WireInv
  <2> QED  BY <1>5, <1>6, <2>2, <2>3, <2>4 DEF WireInv
<1>13. FrameInv'
  BY DEF IInv, FrameInv
<1> QED  BY <1>3, <1>5, <1>6, <1>7, <1>10, <1>11, <1>12, <1>13

(* The thread's claim on its work survives what other threads do.          *)
LEMMA TakeStep ==
  ASSUME IInv, Poisoned => Poisoned', wpc' \notin {"enqueue", "crashed"} \/ (wpc' = wpc /\ wpc # "enqueue")
  PROVE  TakeInv'
BY DEF IInv, TakeInv

(* Producers hold mutex_, so the thread is not between predicate and take. *)
LEMMA ProducerStep ==
  ASSUME IInv, ~locked, Notify \/ wpc' = wpc, pub.poisoned => pub'.poisoned, readerPoisoned' = readerPoisoned
  PROVE  TakeInv' /\ (Writing' <=> Writing)
<1>1. wpc # "enqueue"
  BY DEF IInv, TakeInv
<1>2. wpc' = wpc \/ (wpc = "asleep" /\ wpc' = "check")
  BY DEF Notify
<1>3. Poisoned => Poisoned'
  BY DEF Poisoned
<1> QED  BY <1>1, <1>2, <1>3, TakeStep DEF Writing

(* The packet that a producer builds.                                      *)
Built(x, l, kind, page, size) ==
  /\ x \in Packet /\ x.id = Len(made) + 1 /\ x.ticket = AdmitTicket(l)
  /\ x.kind = kind /\ x.page = page /\ x.size = size /\ x.barrier = 0
LEMMA TrackedIs ==
  ASSUME NEW l \in Ledger, NEW kind \in PacketKinds, NEW page \in Pages \cup {NoPage}, NEW size \in Nat,
         Len(made) \in Nat
  PROVE  Built(Tracked(l, kind, page, size), l, kind, page, size)
<1> DEFINE x == Tracked(l, kind, page, size)
<1>0. x = Tracked(l, kind, page, size)
  OBVIOUS
<1> HIDE DEF x
<1>1. AdmitTicket(l) \in 0 .. MaxTicket
  <2>1. "control" \in Kinds
    BY DEF Kinds
  <2> QED  BY <2>1, AdmitGives
<1>2. 0 \in 0 .. MaxNonce /\ 0 \in 0 .. MaxTicket
  BY PublicationAssumption
<1>3. x = [id |-> Len(made) + 1, ticket |-> AdmitTicket(l), kind |-> kind, page |-> page, size |-> size,
           barrier |-> 0, through |-> 0]
  BY <1>0 DEF Tracked, NoPacket
<1>4. Len(made) + 1 \in Nat
  OBVIOUS
<1>5. /\ x \in Packet /\ x.id = Len(made) + 1 /\ x.ticket = AdmitTicket(l)
      /\ x.kind = kind /\ x.page = page /\ x.size = size /\ x.barrier = 0
  BY <1>1, <1>2, <1>3, <1>4 DEF Packet
<1> QED  BY <1>0, <1>5 DEF Built

(* Replies, events and the overflow error.                                 *)
LEMMA ControlPreserves ==
  ASSUME IInv, \/ \E size \in ReplySizes : SendReply(size)
               \/ \E size \in EventSizes : OverflowEvents(size) \/ PublishEvent(size)
  PROVE  IInv'
<1>1. pub \in Ledger /\ Len(made) \in Nat /\ NoPage \in Pages \cup {NoPage}
  BY PendingParts DEF IInv, TypeInv
<1>2. /\ DOMAIN marks \subseteq 1 .. MarkSlots /\ marks \in [DOMAIN marks -> Mark]
  BY DEF IInv, TypeInv
<1>3. ASSUME NEW x \in Packet, x.id = Len(made) + 1, x.ticket = AdmitTicket(pub),
             x.kind \in {"reply", "event", "error"},
             control' = Append(control, x) \/ (~InOrder(x) /\ control' = <<x>> \o control),
             Accept(pub, x.kind), ~locked, Notify,
             UNCHANGED <<audio, frames, frameOrder, packet, wire, gone, markVars>>
      PROVE  IInv'
  <2>1. pub' = Admit(pub, LedgerKind(x.kind)) /\ made' = Append(made, x.kind)
    BY <1>3 DEF Accept
  <2>2. Writing' <=> Writing
    BY <1>3 DEF Notify, Writing
  <2>3. /\ TypeInv' /\ PacketInv(Pending, pub, made, wire, gone)' /\ QueueInv' /\ FrameInv'
        /\ WireInv' /\ WatermarkSound'
        /\ (pub.poisoned => pub'.poisoned) /\ Len(made') \in Nat /\ Len(made) <= Len(made')
    BY <1>2, <1>3, <2>1, <2>2, ControlStep DEF markVars
  <2>4. MarkInv'
    BY <1>3, <2>3, MarkStep DEF markVars
  <2>5. TakeInv'
    BY <1>3, <2>3, ProducerStep DEF markVars
  <2> QED  BY <2>3, <2>4, <2>5 DEF IInv
<1>b. ASSUME NEW kind \in PacketKinds, NEW size \in Nat, NEW x, x = Tracked(pub, kind, NoPage, size)
      PROVE  x \in Packet /\ x.id = Len(made) + 1 /\ x.ticket = AdmitTicket(pub) /\ x.kind = kind
  <2>1. pub \in Ledger /\ Len(made) \in Nat
    BY <1>1
  <2>2. NoPage \in Pages \cup {NoPage}
    OBVIOUS
  <2>3. x = Tracked(pub, kind, NoPage, size)
    BY <1>b
  <2>4. Built(x, pub, kind, NoPage, size)
    BY ONLY <2>1, <2>2, <2>3, TrackedIs
  <2> QED  BY <2>4 DEF Built
<1>4. ASSUME NEW size \in ReplySizes, SendReply(size) PROVE IInv'
  <2> DEFINE sent == IF size > MaxResponse \/ size > ReplyBudget - replyBytes THEN 0 ELSE size
             x == Tracked(pub, "reply", NoPage, sent)
  <2>1. sent \in Nat /\ "reply" \in PacketKinds
    BY WriterAssumption DEF PacketKinds
  <2>2. control' = Append(control, x) /\ Accept(pub, "reply") /\ ~locked /\ Notify
        /\ UNCHANGED <<audio, frames, frameOrder, packet, wire, gone, markVars>>
    BY <1>4 DEF SendReply, PushBack, Entered
  <2> HIDE DEF sent
  <2>a. x = Tracked(pub, "reply", NoPage, sent)
    OBVIOUS
  <2> HIDE DEF x
  <2>3. x \in Packet /\ x.id = Len(made) + 1 /\ x.ticket = AdmitTicket(pub) /\ x.kind = "reply"
    BY <1>b, <2>1, <2>a
  <2> QED  BY <1>3, <2>2, <2>3
<1>5. ASSUME NEW size \in EventSizes, PublishEvent(size) PROVE IInv'
  <2> DEFINE x == Tracked(pub, "event", NoPage, size)
  <2>1. size \in Nat /\ "event" \in PacketKinds
    BY WriterAssumption DEF PacketKinds
  <2>2. control' = Append(control, x) /\ Accept(pub, "event") /\ ~locked /\ Notify
        /\ UNCHANGED <<audio, frames, frameOrder, packet, wire, gone, markVars>>
    BY <1>5 DEF PublishEvent, PushBack, Entered
  <2>a. x = Tracked(pub, "event", NoPage, size)
    OBVIOUS
  <2> HIDE DEF x
  <2>3. x \in Packet /\ x.id = Len(made) + 1 /\ x.ticket = AdmitTicket(pub) /\ x.kind = "event"
    BY <1>b, <2>1, <2>a
  <2> QED  BY <1>3, <2>2, <2>3
<1>6. ASSUME NEW size \in EventSizes, OverflowEvents(size) PROVE IInv'
  <2> DEFINE x == Tracked(pub, "error", NoPage, 0)
  <2>1. 0 \in Nat /\ "error" \in PacketKinds
    BY DEF PacketKinds
  <2>2. control' = <<x>> \o control /\ Accept(pub, "error") /\ ~locked /\ Notify
        /\ UNCHANGED <<audio, frames, frameOrder, packet, wire, gone, markVars>>
    BY <1>6 DEF OverflowEvents, Entered
  <2>a. x = Tracked(pub, "error", NoPage, 0)
    OBVIOUS
  <2> HIDE DEF x
  <2>3. x \in Packet /\ x.id = Len(made) + 1 /\ x.ticket = AdmitTicket(pub) /\ x.kind = "error"
    BY <1>b, <2>1, <2>a
  <2>4. ~InOrder(x)
    BY <2>3 DEF InOrder
  <2> QED  BY <1>3, <2>2, <2>3, <2>4
<1> QED  BY <1>4, <1>5, <1>6

(* Two drops in one critical section are one.                              *)
LEMMA FreesTwice ==
  ASSUME NEW k, NEW l, NEW m, NEW S, NEW T, Frees(k, l, S), Frees(l, m, T)
  PROVE  Frees(k, m, S \cup T)
BY DEF Frees

(* Frames and sounds are replaced by a new packet.                         *)
LEMMA ReplaceStep ==
  ASSUME IInv, NEW D, \A p \in D : p \in Queued /\ p.kind \in {"frame", "audio"},
         NEW l \in Ledger, Frees(pub, l, {p.ticket : p \in D}),
         NEW x \in Packet, x.id = Len(made) + 1, x.ticket = AdmitTicket(l), x.kind \in {"frame", "audio"},
         Accept(l, x.kind), Queued' = (Queued \ D) \cup {x}, gone' = gone \cup {p.id : p \in D},
         UNCHANGED <<control, packet, wire>>, Writing' <=> Writing
  PROVE  /\ pub' \in Ledger /\ made' \in Seq(PacketKinds)
         /\ PacketInv(Pending, pub, made, wire, gone)' /\ WireInv' /\ WatermarkSound'
         /\ Writing' => \A p \in Queued' : p.id # packet'.id
         /\ (pub.poisoned => pub'.poisoned) /\ Len(made') \in Nat /\ Len(made) <= Len(made')
<1>1. /\ pub \in Ledger /\ made \in Seq(PacketKinds) /\ wire \in Seq(Packet)
      /\ PacketInv(Pending, pub, made, wire, gone) /\ x.kind \in PacketKinds
  BY DEF IInv, TypeInv, Packet
<1>2. LedgerKind(x.kind) \in Kinds /\ pub' = Admit(l, LedgerKind(x.kind)) /\ made' = Append(made, x.kind)
  BY <1>1 DEF LedgerKind, Kinds, PacketKinds, Accept
<1>3. pub' \in Ledger /\ (pub.poisoned => pub'.poisoned)
  <2>1. pub' \in Ledger /\ (l.poisoned => pub'.poisoned)
    BY <1>2, AdmitGives
  <2> QED  BY <2>1 DEF Frees
<1>4. /\ made' \in Seq(PacketKinds) /\ WatermarkSound' /\ Len(made') \in Nat /\ Len(made) <= Len(made')
      /\ \A i \in 1 .. Len(wire') :
           wire'[i].id <= Len(made') /\ (wire'[i].kind = "watermark" => wire'[i].through <= Len(made'))
  <2>1. wire' = wire /\ gone \subseteq gone'
    OBVIOUS
  <2> QED  BY <1>1, <1>2, <2>1, WireStep
<1>5. Writing => packet \notin D /\ packet.id # x.id
  <2>1. Writing => packet \notin D
    BY DEF IInv, QueueInv
  <2>2. Writing => packet.id # x.id
    BY PendingParts
  <2> QED  BY <2>1, <2>2
<1>6. Pending' = (Pending \ D) \cup {x}
  <2>1. Pending' = Queued' \cup (IF Writing' THEN {packet'} ELSE {})
    BY DEF Pending, Queued, Writing
  <2> QED  BY <1>5, <2>1, PendingParts
<1>7. PacketInv(Pending', pub', made', wire', gone')
  <2>1. \A p \in D : p \in Pending /\ p.kind \in {"frame", "audio"}
    BY PendingParts
  <2>2. PacketInv(Pending \ D, l, made, wire, gone')
    BY <1>1, <2>1, DropKeeps
  <2>3. x.kind # "watermark"
    OBVIOUS
  <2>4. PacketInv((Pending \ D) \cup {x}, pub', made', wire, gone')
    BY <1>1, <1>2, <2>2, <2>3, AddKeeps
  <2> QED  BY <1>6, <2>4
<1>8. Writing' => \A p \in Queued' : p.id # packet'.id
  BY <1>5 DEF IInv, QueueInv
<1>9. WireInv'
  BY <1>4 DEF IInv, WireInv
<1> QED  BY <1>3, <1>4, <1>7, <1>8, <1>9

(* Which queue a packet is in shows from its kind.                         *)
LEMMA QueuesApart ==
  ASSUME IInv
  PROVE  /\ \A p \in ToSet(control) : p \notin ToSet(audio) /\ p \notin QueuedFrames
         /\ \A p \in ToSet(audio) : p \notin QueuedFrames /\ p \notin ToSet(control)
         /\ \A p \in QueuedFrames : p.kind = "frame" /\ p.page \in DOMAIN frames /\ frames[p.page] = p
         /\ \A p, q \in Queued : p.id = q.id => p = q
<1>1. \A p \in QueuedFrames : p.kind = "frame" /\ p.page \in DOMAIN frames /\ frames[p.page] = p
  BY DEF IInv, QueueInv, QueuedFrames
<1>2. \A p, q \in Queued : p.id = q.id => p = q
  BY PendingParts DEF IInv, PacketInv, Known
<1>3. (\A p \in ToSet(control) : p.kind \notin {"frame", "audio"}) /\ \A p \in ToSet(audio) : p.kind = "audio"
  BY DEF IInv, QueueInv
<1> QED  BY <1>1, <1>2, <1>3

(* Sound: when audio_ is full its oldest packet goes.                      *)
LEMMA SendAudioPreserves ==
  ASSUME IInv, NEW page \in AudioPages, SendAudio(page)
  PROVE  IInv'
<1> DEFINE full == Len(audio) >= AudioCap
           oldest == IF full THEN {Head(audio)} ELSE {}
           l == Dropped(pub, {p.ticket : p \in oldest}, "AudioBudget")
           x == Tracked(l, "audio", page, 0)
           rest == IF full THEN Tail(audio) ELSE audio
<1>1. /\ ~locked /\ audio' = Append(rest, x) /\ Accept(l, "audio")
      /\ gone' = gone \cup {p.id : p \in oldest} /\ Notify
      /\ UNCHANGED <<control, frames, frameOrder, markVars, packet, wire>>
  BY DEF SendAudio, Entered
<1>2. /\ pub \in Ledger /\ audio \in Seq(Packet) /\ Distinct(audio) /\ Len(made) \in Nat
      /\ \A p \in ToSet(audio) : p.kind = "audio"
  BY PendingParts DEF IInv, TypeInv, QueueInv
<1>3. l \in Ledger /\ Frees(pub, l, {p.ticket : p \in oldest})
  <2> HIDE DEF oldest
  <2>1. Frees(pub, l, {p.ticket : p \in oldest})
    BY <1>2, DroppedFrees
  <2> HIDE DEF l
  <2> QED  BY <2>1 DEF Frees
<1>4. x \in Packet /\ x.id = Len(made) + 1 /\ x.ticket = AdmitTicket(l) /\ x.kind = "audio" /\ x.page = page
  <2>1. "audio" \in PacketKinds /\ page \in Pages \cup {NoPage}
    BY WriterAssumption DEF PacketKinds
  <2>2. x = Tracked(l, "audio", page, 0) /\ 0 \in Nat
    OBVIOUS
  <2> HIDE DEF l, x
  <2>3. Built(x, l, "audio", page, 0)
    BY <1>2, <1>3, <2>1, <2>2, TrackedIs
  <2> QED  BY <2>3 DEF Built
<1> HIDE DEF l, x
<1>5. /\ rest \in Seq(Packet) /\ Distinct(rest) /\ ToSet(rest) = ToSet(audio) \ oldest
      /\ \A p \in oldest : p \in ToSet(audio)
  <2>1. CASE full
    <3>1. audio # <<>>
      BY <2>1, WriterAssumption
    <3> QED  BY <1>2, <2>1, <3>1, QueuePopped
  <2>2. CASE ~full
    BY <1>2, <2>2
  <2> QED  BY <2>1, <2>2
<1> HIDE DEF rest, oldest
<1>6. \A p \in ToSet(rest) : p.id \in 1 .. Len(made)
  BY <1>5, PendingParts DEF Queued
<1>7. audio' \in Seq(Packet) /\ ToSet(audio') = (ToSet(audio) \ oldest) \cup {x} /\ Distinct(audio')
  BY <1>1, <1>2, <1>4, <1>5, <1>6, QueuePushed
<1>8. Queued' = (Queued \ oldest) \cup {x}
  BY <1>1, <1>5, <1>7, QueuesApart DEF Queued, QueuedFrames
<1>9. \A p \in oldest : p \in Queued /\ p.kind \in {"frame", "audio"}
  BY <1>2, <1>5 DEF Queued
<1>10. Writing' <=> Writing
  BY <1>1 DEF Notify, Writing
<1>11. /\ pub' \in Ledger /\ made' \in Seq(PacketKinds)
       /\ PacketInv(Pending, pub, made, wire, gone)' /\ WireInv' /\ WatermarkSound'
       /\ Writing' => \A p \in Queued' : p.id # packet'.id
       /\ (pub.poisoned => pub'.poisoned) /\ Len(made') \in Nat /\ Len(made) <= Len(made')
  BY <1>1, <1>3, <1>4, <1>8, <1>9, <1>10, ReplaceStep
<1>12. TypeInv'
  BY <1>1, <1>7, <1>11 DEF IInv, TypeInv, markVars
<1>13. QueueInv'
  BY <1>1, <1>2, <1>4, <1>7, <1>11 DEF IInv, QueueInv
<1>14. FrameInv'
  BY <1>1 DEF IInv, FrameInv
<1>15. MarkInv'
  BY <1>1, <1>11, MarkStep DEF markVars
<1>16. TakeInv'
  BY <1>1, <1>11, ProducerStep DEF markVars
<1> QED  BY <1>11, <1>12, <1>13, <1>14, <1>15, <1>16 DEF IInv

(* A frame always finds room: popping every page leaves no other frame.    *)
HasRoom(page, size, order, n) ==
  LET kept == KeptFrames(page, order, n) IN kept = {} \/ size <= FrameBudget - SumSizes(kept)

LEMMA PopsEnough ==
  ASSUME NEW page, NEW size, NEW order \in Seq(Pages), Lists(order, DOMAIN frames \cup {page}),
         NEW m, m = PopsNeeded(page, size, order)
  PROVE  m \in 0 .. Len(order) /\ HasRoom(page, size, order, m)
<1> DEFINE enough(n) == \/ KeptFrames(page, order, n) = {}
                        \/ size <= FrameBudget - SumSizes(KeptFrames(page, order, n))
           S == {n \in 0 .. Len(order) : enough(n)}
<1>1. Len(order) \in Nat
  BY LenProperties
<1>2. enough(Len(order))
  <2>1. \A p \in DOMAIN frames : p \in Popped(order, Len(order))
    BY DEF Lists, Popped
  <2> QED  BY <2>1 DEF KeptFrames
<1> HIDE DEF enough
<1>3. Len(order) \in S /\ \A n \in S : n \in Nat
  BY <1>1, <1>2
<1> DEFINE k == Min(S)
<1>4. k \in S /\ \A n \in S : k <= n
  <2> HIDE DEF S
  <2> QED  BY <1>3, MinIsMember
<1>5. k \in 0 .. Len(order) /\ enough(k) /\ \A n \in 0 .. k - 1 : ~enough(n)
  <2> HIDE DEF k
  <2>1. k \in 0 .. Len(order) /\ enough(k)
    BY <1>4
  <2>2. ASSUME NEW n \in 0 .. k - 1, enough(n) PROVE FALSE
    <3>1. n \in S /\ n < k /\ k \in Nat /\ n \in Nat
      BY <1>1, <2>1, <2>2
    <3> QED  BY <1>4, <3>1
  <2> QED  BY <2>1, <2>2
<1>6. PopsNeeded(page, size, order) =
        CHOOSE i \in 0 .. Len(order) : enough(i) /\ \A n \in 0 .. i - 1 : ~enough(n)
  BY DEF PopsNeeded, enough
<1> HIDE DEF k, S
<1>7. m \in 0 .. Len(order) /\ enough(m)
  BY <1>5, <1>6
<1> QED  BY <1>7 DEF HasRoom, enough

(* A page joins the order at the back.                                     *)
LEMMA OrderAppended ==
  ASSUME NEW order \in Seq(Pages), NEW dom, NEW page \in Pages, Lists(order, dom), page \notin dom,
         NEW r, r = Append(order, page)
  PROVE  r \in Seq(Pages) /\ Lists(r, dom \cup {page})
<1>1. /\ r \in Seq(Pages) /\ Len(r) = Len(order) + 1 /\ Len(order) \in Nat
      /\ \A i \in 1 .. Len(r) : r[i] = IF i <= Len(order) THEN order[i] ELSE page
  BY PushBackElements, LenProperties
<1>2. \A i \in 1 .. Len(order) : i \in 1 .. Len(r) /\ r[i] = order[i]
  BY <1>1
<1>3. Len(r) \in 1 .. Len(r) /\ r[Len(r)] = page
  BY <1>1
<1>4. \A i \in 1 .. Len(r) : i \in 1 .. Len(order) \/ i = Len(r)
  BY <1>1
<1>5. \A i \in 1 .. Len(order) : order[i] # page
  BY DEF Lists
<1>6. \A i \in 1 .. Len(r) : r[i] \in dom \cup {page}
  BY <1>2, <1>3, <1>4 DEF Lists
<1>7. \A p \in dom \cup {page} : \E i \in 1 .. Len(r) : r[i] = p
  <2> SUFFICES ASSUME NEW p \in dom \cup {page} PROVE \E i \in 1 .. Len(r) : r[i] = p
    OBVIOUS
  <2>1. CASE p = page
    BY <1>3, <2>1
  <2>2. CASE p \in dom
    BY <1>2, <2>2 DEF Lists
  <2> QED  BY <2>1, <2>2
<1>8. \A i, j \in 1 .. Len(r) : r[i] = r[j] => i = j
  BY <1>2, <1>3, <1>4, <1>5 DEF Lists
<1> QED  BY <1>1, <1>6, <1>7, <1>8 DEF Lists

(* The order of the frames that stay when pages are popped from its front. *)
LEMMA OrderPopped ==
  ASSUME NEW dom, NEW page \in Pages, NEW order \in Seq(Pages), Lists(order, dom \cup {page}),
         NEW m \in 0 .. Len(order), NEW evicted, evicted = (dom \cap Popped(order, m)) \ {page},
         NEW r, r = SubSeq(order, m + 1, Len(order))
                    \o (IF page \in Popped(order, m) THEN <<page>> ELSE <<>>)
  PROVE  r \in Seq(Pages) /\ Lists(r, (dom \ evicted) \cup {page})
<1> DEFINE tail == SubSeq(order, m + 1, Len(order))
           kept == (dom \ evicted) \cup {page}
<1>1. Len(order) \in Nat /\ m \in Nat /\ m <= Len(order)
  BY LenProperties
<1>2. /\ tail \in Seq(Pages) /\ Len(tail) = Len(order) - m
      /\ \A i \in 1 .. Len(tail) : tail[i] = order[m + i]
  <2>1. \A i \in (m + 1) .. Len(order) : i \in 1 .. Len(order)
    BY <1>1
  <2>2. \A i \in (m + 1) .. Len(order) : order[i] \in Pages
    BY <2>1, ElementOfSeq
  <2>3. Len(tail) = Len(order) - m
    BY <1>1, SubSeqProperties
  <2>4. tail \in Seq(Pages) /\ \A i \in 1 .. Len(tail) : tail[i] = order[m + i]
    BY <1>1, <2>1, <2>3, SubSeqProperties
  <2> QED  BY <2>3, <2>4
<1> HIDE DEF tail
<1>3. \A i \in 1 .. Len(tail) : m + i \in 1 .. Len(order) /\ i \in Nat
  BY <1>1, <1>2
<1>4. \A i \in 1 .. Len(tail) : tail[i] \notin Popped(order, m) /\ tail[i] \in kept
  <2> SUFFICES ASSUME NEW i \in 1 .. Len(tail)
               PROVE  tail[i] \notin Popped(order, m) /\ tail[i] \in kept
    OBVIOUS
  <2>1. order[m + i] \in dom \cup {page} /\ \A j \in 1 .. Len(order) : order[m + i] = order[j] => m + i = j
    BY <1>3 DEF Lists
  <2>2. \A j \in 1 .. m : j \in 1 .. Len(order) /\ m + i # j
    BY <1>1, <1>3
  <2>3. tail[i] \notin Popped(order, m)
    BY <1>2, <2>1, <2>2 DEF Popped
  <2> QED  BY <1>2, <2>1, <2>3
<1>5. ASSUME NEW p \in kept PROVE (p \in Popped(order, m) /\ p = page) \/ \E i \in 1 .. Len(tail) : tail[i] = p
  <2>1. PICK j \in 1 .. Len(order) : order[j] = p
    BY DEF Lists
  <2>2. CASE j <= m
    <3>1. j \in 1 .. m
      BY <1>1, <2>2
    <3>2. p \in Popped(order, m)
      BY <2>1, <3>1 DEF Popped
    <3> QED  BY <3>2
  <2>3. CASE ~(j <= m)
    <3>1. j - m \in 1 .. Len(tail) /\ m + (j - m) = j
      BY <1>1, <1>2, <2>3
    <3> QED  BY <1>2, <2>1, <3>1
  <2> QED  BY <2>2, <2>3
<1>6. \A i, j \in 1 .. Len(tail) : tail[i] = tail[j] => i = j
  <2> SUFFICES ASSUME NEW i \in 1 .. Len(tail), NEW j \in 1 .. Len(tail), tail[i] = tail[j] PROVE i = j
    OBVIOUS
  <2>a. order[m + i] = order[m + j] /\ m + i \in 1 .. Len(order) /\ m + j \in 1 .. Len(order)
    BY <1>2, <1>3
  <2>1. m + i = m + j
    BY <2>a DEF Lists
  <2>2. i \in Int /\ j \in Int /\ m \in Int
    BY <1>1, <1>3
  <2> HIDE DEF tail
  <2> QED  BY ONLY <2>1, <2>2
<1>7. CASE page \notin Popped(order, m)
  <2>1. r = tail
    BY <1>2, <1>7, ConcatEmptySeq DEF tail
  <2> DEFINE stay == (dom \ evicted) \cup {page}
  <2>2. (\A i \in 1 .. Len(tail) : tail[i] \in stay) /\ \A p \in stay : \E i \in 1 .. Len(tail) : tail[i] = p
    BY <1>4, <1>5, <1>7
  <2> HIDE DEF stay, tail
  <2>3. Lists(tail, stay)
    BY ONLY <1>6, <2>2 DEF Lists
  <2> QED  BY <1>2, <2>1, <2>3 DEF stay
<1>8. CASE page \in Popped(order, m)
  <2>1. r = Append(tail, page)
    <3>1. r = tail \o <<page>>
      BY <1>8 DEF tail
    <3> QED  BY <1>2, <3>1, AppendIsConcat
  <2>2. Lists(tail, kept \ {page})
    <3>1. \A i \in 1 .. Len(tail) : tail[i] \in kept \ {page}
      BY <1>4, <1>8
    <3>2. \A p \in kept \ {page} : \E i \in 1 .. Len(tail) : tail[i] = p
      BY <1>5
    <3> QED  BY <1>6, <3>1, <3>2 DEF Lists
  <2>3. (kept \ {page}) \cup {page} = kept
    OBVIOUS
  <2> HIDE DEF kept
  <2>4. r \in Seq(Pages) /\ Lists(r, (kept \ {page}) \cup {page})
    BY <1>2, <2>1, <2>2, OrderAppended
  <2> QED  BY <2>3, <2>4 DEF kept
<1> QED  BY <1>7, <1>8

(* The order without one page.                                             *)
LEMMA OrderKept ==
  ASSUME NEW dom, NEW page, NEW order \in Seq(Pages), Lists(order, dom),
         NEW places \in SUBSET (1 .. Len(order)),
         \A i \in 1 .. Len(order) : i \in places <=> order[i] # page,
         NEW r, r = Kept(order, places)
  PROVE  r \in Seq(Pages) /\ Lists(r, dom \ {page})
<1>1. Len(order) \in Nat
  BY LenProperties
<1>3. \A i : i \in places <=> i \in 1 .. Len(order) /\ order[i] # page
  OBVIOUS
<1>4. r \in Seq(Pages) /\ \E at : KeptFrom(order, places, r, at)
  BY KeptPlaces
<1>a. PICK at : KeptFrom(order, places, r, at)
  BY <1>4
<1>5. /\ at \in [1 .. Len(r) -> places]
      /\ \A k \in 1 .. Len(r) : r[k] = order[at[k]]
      /\ \A k, l \in 1 .. Len(r) : k < l => at[k] < at[l]
      /\ \A i \in places : \E k \in 1 .. Len(r) : at[k] = i
  BY <1>a DEF KeptFrom
<1>6. \A k \in 1 .. Len(r) : at[k] \in places
  BY <1>5
<1>b. \A k \in 1 .. Len(r) : k \in Int
  <2>1. Len(r) \in Nat
    BY <1>4, LenProperties
  <2> QED  BY ONLY <2>1
<1>7. \A i \in places : i \in 1 .. Len(order) /\ i \in Int
  BY <1>1, <1>3
<1>8. \A k \in 1 .. Len(r) : r[k] \in dom \ {page}
  <2> SUFFICES ASSUME NEW k \in 1 .. Len(r) PROVE r[k] \in dom \ {page}
    OBVIOUS
  <2>1. at[k] \in places /\ r[k] = order[at[k]]
    BY <1>5, <1>6
  <2>2. at[k] \in 1 .. Len(order) /\ order[at[k]] # page
    BY <1>3, <2>1
  <2>3. order[at[k]] \in dom
    BY <2>2 DEF Lists
  <2> QED  BY ONLY <2>1, <2>2, <2>3
<1>9. \A p \in dom \ {page} : \E k \in 1 .. Len(r) : r[k] = p
  <2> SUFFICES ASSUME NEW p \in dom \ {page} PROVE \E k \in 1 .. Len(r) : r[k] = p
    OBVIOUS
  <2>1. PICK i \in 1 .. Len(order) : order[i] = p
    BY DEF Lists
  <2>2. i \in places
    BY <1>3, <2>1
  <2> QED  BY <1>5, <2>1, <2>2
<1>10. \A k, l \in 1 .. Len(r) : r[k] = r[l] => k = l
  <2> SUFFICES ASSUME NEW k \in 1 .. Len(r), NEW l \in 1 .. Len(r), r[k] = r[l] PROVE k = l
    OBVIOUS
  <2>1. order[at[k]] = order[at[l]]
    BY <1>5
  <2>2. at[k] = at[l] /\ at[k] \in Int
    BY <1>6, <1>7, <2>1 DEF Lists
  <2>3. ~(k < l) /\ ~(l < k)
    BY <1>5, <2>2
  <2> QED  BY <1>b, <2>3
<1> QED  BY <1>4, <1>8, <1>9, <1>10 DEF Lists

(* The order in which Send looks for room: the new frame's page is in it.  *)
LEMMA OrderJoined ==
  ASSUME IInv, NEW page \in Pages, NEW order,
         order = IF page \in DOMAIN frames THEN frameOrder ELSE Append(frameOrder, page)
  PROVE  order \in Seq(Pages) /\ Lists(order, DOMAIN frames \cup {page})
<1>1. frameOrder \in Seq(Pages) /\ Lists(frameOrder, DOMAIN frames)
  BY DEF IInv, TypeInv, FrameInv
<1>2. CASE page \in DOMAIN frames
  <2>1. DOMAIN frames \cup {page} = DOMAIN frames
    BY <1>2
  <2> QED  BY <1>1, <1>2, <2>1
<1>3. CASE page \notin DOMAIN frames
  <2>1. order = Append(frameOrder, page)
    BY <1>3
  <2> QED  BY <1>1, <1>3, <2>1, OrderAppended
<1> QED  BY <1>2, <1>3

(* A frame replaces its page's frame and evicts others for space.          *)
LEMMA SendFramePreserves ==
  ASSUME IInv, NEW page \in Pages, NEW size \in FrameSizes, SendFrame(page, size)
  PROVE  IInv'
<1> DEFINE dom == DOMAIN frames
           order == IF page \in dom THEN frameOrder ELSE Append(frameOrder, page)
           m == PopsNeeded(page, size, order)
           evicted == (dom \cap Popped(order, m)) \ {page}
           R == {frames[p] : p \in dom \cap {page}}
           E == {frames[p] : p \in evicted}
           k == Dropped(pub, {p.ticket : p \in R}, "FrameReplaced")
           l == Dropped(k, {p.ticket : p \in E}, "FrameBudget")
           x == Tracked(l, "frame", page, size)
           D == R \cup E
<1>1. /\ ~locked /\ Accept(l, "frame") /\ gone' = gone \cup {p.id : p \in D} /\ Notify
      /\ UNCHANGED <<control, audio, markVars, packet, wire>>
  BY DEF SendFrame, Entered
<1>2. frames' = [p \in (dom \ evicted) \cup {page} |-> IF p = page THEN x ELSE frames[p]]
  BY DEF SendFrame
<1>3. frameOrder' = SubSeq(order, m + 1, Len(order))
                    \o (IF page \in Popped(order, m) THEN <<page>> ELSE <<>>)
  BY DEF SendFrame
<1>4. /\ pub \in Ledger /\ frameOrder \in Seq(Pages) /\ Lists(frameOrder, dom) /\ Len(made) \in Nat
      /\ dom \subseteq Pages /\ \A p \in dom : frames[p] \in Packet /\ frames[p].kind = "frame" /\ frames[p].page = p
  BY PendingParts DEF IInv, TypeInv, FrameInv, QueueInv
<1>5. order \in Seq(Pages) /\ Lists(order, dom \cup {page})
  <2>1. order = IF page \in DOMAIN frames THEN frameOrder ELSE Append(frameOrder, page)
    OBVIOUS
  <2> HIDE DEF order
  <2> QED  BY <2>1, OrderJoined
<1>6. m \in 0 .. Len(order)
  <2> HIDE DEF order
  <2>1. m = PopsNeeded(page, size, order)
    OBVIOUS
  <2> HIDE DEF m
  <2> QED  BY <1>5, <2>1, PopsEnough
<1>7. frameOrder' \in Seq(Pages) /\ Lists(frameOrder', (dom \ evicted) \cup {page})
  <2> HIDE DEF order, m, dom
  <2>1. evicted = (dom \cap Popped(order, m)) \ {page}
    OBVIOUS
  <2> HIDE DEF evicted
  <2> QED  BY <1>3, <1>5, <1>6, <2>1, OrderPopped
<1>8. k \in Ledger /\ Frees(pub, k, {p.ticket : p \in R})
  <2> HIDE DEF R
  <2>1. Frees(pub, k, {p.ticket : p \in R})
    BY <1>4, DroppedFrees
  <2> HIDE DEF k
  <2> QED  BY <2>1 DEF Frees
<1>9. l \in Ledger /\ Frees(pub, l, {p.ticket : p \in D})
  <2> HIDE DEF R, E, k
  <2>1. Frees(k, l, {p.ticket : p \in E})
    BY <1>8, DroppedFrees
  <2> HIDE DEF l
  <2>2. Frees(pub, l, {p.ticket : p \in R} \cup {p.ticket : p \in E})
    BY <1>8, <2>1, FreesTwice
  <2>3. {p.ticket : p \in R} \cup {p.ticket : p \in E} = {p.ticket : p \in D}
    OBVIOUS
  <2> QED  BY <2>1, <2>2, <2>3 DEF Frees
<1>10. x \in Packet /\ x.id = Len(made) + 1 /\ x.ticket = AdmitTicket(l) /\ x.kind = "frame" /\ x.page = page
  <2>1. "frame" \in PacketKinds /\ page \in Pages \cup {NoPage} /\ size \in Nat
    BY WriterAssumption DEF PacketKinds
  <2>2. x = Tracked(l, "frame", page, size)
    OBVIOUS
  <2> HIDE DEF l, x
  <2>3. Built(x, l, "frame", page, size)
    BY <1>4, <1>9, <2>1, <2>2, TrackedIs
  <2> QED  BY <2>3 DEF Built
<1>a. evicted \subseteq dom /\ page \notin evicted
  OBVIOUS
<1> HIDE DEF m, order, k, l, x, evicted
<1>11. \A p \in D : p \in QueuedFrames /\ p.kind = "frame" /\ (p.page = page \/ p.page \in evicted)
  BY <1>4, <1>a DEF QueuedFrames
<1>12. DOMAIN frames' = (dom \ evicted) \cup {page}
       /\ \A p \in DOMAIN frames' : frames'[p] = IF p = page THEN x ELSE frames[p]
  BY <1>2
<1>13. QueuedFrames' = (QueuedFrames \ D) \cup {x}
  <2>1. \A y : y \in QueuedFrames' <=> \E p \in DOMAIN frames' : y = frames'[p]
    BY DEF QueuedFrames
  <2>2. \A y : y \in QueuedFrames <=> \E p \in dom : y = frames[p]
    BY DEF QueuedFrames
  <2>3. \A y : y \in D <=> \E p \in dom : (p = page \/ p \in evicted) /\ y = frames[p]
    BY <1>a
  <2>4. x \in QueuedFrames'
    BY <1>12, <2>1
  <2>5. \A p \in dom : p # page /\ p \notin evicted => frames[p] \in QueuedFrames' /\ frames[p] \notin D
    <3> SUFFICES ASSUME NEW p \in dom, p # page, p \notin evicted
                 PROVE  frames[p] \in QueuedFrames' /\ frames[p] \notin D
      OBVIOUS
    <3>1. p \in DOMAIN frames' /\ frames'[p] = frames[p]
      BY <1>12
    <3>2. frames[p] \notin D
      BY <1>4, <1>11
    <3> QED  BY <2>1, <3>1, <3>2
  <2>6. \A y : y \in QueuedFrames' => y = x \/ (y \in QueuedFrames /\ y \notin D)
    <3> SUFFICES ASSUME NEW p \in DOMAIN frames', p # page PROVE frames'[p] \in QueuedFrames /\ frames'[p] \notin D
      BY <1>12, <2>1
    <3>1. p \in dom /\ p \notin evicted /\ frames'[p] = frames[p]
      BY <1>12
    <3> QED  BY <2>2, <2>5, <3>1
  <2> HIDE DEF D
  <2> QED  BY <2>2, <2>3, <2>4, <2>5, <2>6
<1>14. \A p \in D : p \in Queued /\ p.kind \in {"frame", "audio"}
  BY <1>11 DEF Queued
<1>15. Queued' = (Queued \ D) \cup {x}
  <2>1. \A p \in D : p \notin ToSet(control) /\ p \notin ToSet(audio)
    BY <1>11 DEF IInv, QueueInv
  <2> HIDE DEF D
  <2> QED  BY <1>1, <1>13, <2>1 DEF Queued
<1> HIDE DEF D
<1>16. Writing' <=> Writing
  BY <1>1 DEF Notify, Writing
<1>17. /\ pub' \in Ledger /\ made' \in Seq(PacketKinds)
       /\ PacketInv(Pending, pub, made, wire, gone)' /\ WireInv' /\ WatermarkSound'
       /\ Writing' => \A p \in Queued' : p.id # packet'.id
       /\ (pub.poisoned => pub'.poisoned) /\ Len(made') \in Nat /\ Len(made) <= Len(made')
  BY <1>1, <1>9, <1>10, <1>14, <1>15, <1>16, ReplaceStep
<1>18. TypeInv'
  <2>1. DOMAIN frames' \subseteq Pages /\ frames' \in [DOMAIN frames' -> Packet]
    BY <1>2, <1>4, <1>10, <1>12
  <2> QED  BY <1>1, <1>7, <1>17, <2>1 DEF IInv, TypeInv, markVars
<1>19. QueueInv'
  <2>1. \A p \in DOMAIN frames' : frames'[p].kind = "frame" /\ frames'[p].page = p
    BY <1>4, <1>10, <1>12
  <2> QED  BY <1>1, <1>17, <2>1 DEF IInv, QueueInv
<1>20. FrameInv'
  BY <1>7, <1>12 DEF FrameInv
<1>21. MarkInv'
  BY <1>1, <1>17, MarkStep DEF markVars
<1>22. TakeInv'
  BY <1>1, <1>17, ProducerStep DEF markVars
<1> QED  BY <1>17, <1>18, <1>19, <1>20, <1>21, <1>22 DEF IInv

(* DropPage takes a page's frame and sounds out of the queues.             *)
LEMMA DropPagePreserves ==
  ASSUME IInv, NEW page \in Pages, DropPage(page)
  PROVE  IInv'
<1> DEFINE silent == {i \in DOMAIN audio : audio[i].page # page}
           sounds == {audio[i] : i \in DOMAIN audio \ silent}
           D == sounds \cup FrameOf(page)
           stay == {i \in DOMAIN frameOrder : frameOrder[i] # page}
<1>1. /\ ~locked /\ frames' = Others(page) /\ frameOrder' = Kept(frameOrder, stay)
      /\ audio' = Kept(audio, silent)
      /\ pub' = Dropped(pub, {p.ticket : p \in D}, "PageDropped")
      /\ gone' = gone \cup {p.id : p \in D}
      /\ UNCHANGED <<control, markVars, packet, wpc, made, wire>>
  BY DEF DropPage, threadVars, OrderWithout
<1>2. /\ pub \in Ledger /\ audio \in Seq(Packet) /\ Distinct(audio) /\ frameOrder \in Seq(Pages)
      /\ Lists(frameOrder, DOMAIN frames) /\ made \in Seq(PacketKinds) /\ wire \in Seq(Packet)
      /\ (\A p \in ToSet(audio) : p.kind = "audio")
      /\ \A p \in DOMAIN frames : frames[p] \in Packet /\ frames[p].kind = "frame" /\ frames[p].page = p
  BY DEF IInv, TypeInv, FrameInv, QueueInv
<1>3. DOMAIN audio = 1 .. Len(audio) /\ DOMAIN frameOrder = 1 .. Len(frameOrder)
  BY <1>2, LenProperties
<1>4. audio' \in Seq(Packet) /\ Distinct(audio') /\ ToSet(audio') = ToSet(audio) \ sounds
  <2>1. silent \in SUBSET (1 .. Len(audio)) /\ sounds = {audio[i] : i \in (1 .. Len(audio)) \ silent}
    BY <1>3
  <2> HIDE DEF silent, sounds
  <2> QED  BY <1>1, <1>2, <2>1, QueueKept, SMTT(40), ZenonT(60)
<1>5. frameOrder' \in Seq(Pages) /\ Lists(frameOrder', DOMAIN frames \ {page})
  <2>1. /\ stay \in SUBSET (1 .. Len(frameOrder))
        /\ \A i \in 1 .. Len(frameOrder) : i \in stay <=> frameOrder[i] # page
    BY <1>3
  <2> HIDE DEF stay
  <2> QED  BY <1>1, <1>2, <2>1, OrderKept
<1>6. \A p \in sounds : p \in ToSet(audio) /\ p.kind = "audio"
  <2>1. \A p \in sounds : p \in ToSet(audio)
    BY DEF ToSet
  <2> QED  BY <1>2, <2>1
<1> HIDE DEF silent, sounds, stay
<1>7. \A p \in FrameOf(page) : p \in QueuedFrames /\ p.kind = "frame" /\ p.page = page
  BY <1>2 DEF FrameOf, QueuedFrames
<1>8. DOMAIN frames' = DOMAIN frames \ {page} /\ \A p \in DOMAIN frames' : frames'[p] = frames[p]
  BY <1>1 DEF Others
<1>9. QueuedFrames' = QueuedFrames \ FrameOf(page)
  <2>1. \A p \in DOMAIN frames : p # page => frames[p] \in QueuedFrames' /\ frames[p] \notin FrameOf(page)
    BY <1>2, <1>7, <1>8, SMTT(40), ZenonT(60) DEF QueuedFrames
  <2>2. \A y : y \in QueuedFrames' => y \in QueuedFrames /\ y \notin FrameOf(page)
    BY <1>8, <2>1 DEF QueuedFrames
  <2>3. \A y \in QueuedFrames : y \notin FrameOf(page) => y \in QueuedFrames'
    <3> SUFFICES ASSUME NEW p \in DOMAIN frames, frames[p] \notin FrameOf(page) PROVE p # page
      BY <2>1 DEF QueuedFrames
    <3> QED  BY DEF FrameOf
  <2> QED  BY <2>2, <2>3
<1>10. Queued' = Queued \ D
  <2>1. \A p \in D : p \notin ToSet(control)
    BY <1>6, <1>7 DEF IInv, QueueInv
  <2>2. \A p \in sounds : p \notin QueuedFrames
    BY <1>6, QueuesApart
  <2>3. \A p \in FrameOf(page) : p \notin ToSet(audio)
    BY <1>7, QueuesApart
  <2> QED  BY <1>1, <1>4, <1>9, <2>1, <2>2, <2>3 DEF Queued
<1>11. \A p \in D : p \in Queued /\ p.kind \in {"frame", "audio"}
  BY <1>6, <1>7 DEF Queued
<1> HIDE DEF D
<1>12. Frees(pub, pub', {p.ticket : p \in D})
  BY <1>1, <1>2, DroppedFrees
<1>13. Pending' = Pending \ D
  <2>1. Pending' = Queued' \cup (IF Writing THEN {packet} ELSE {})
    BY <1>1 DEF Pending, Queued, Writing
  <2>2. Writing => packet \notin D
    BY <1>11 DEF IInv, QueueInv
  <2> QED  BY <1>10, <2>1, <2>2, PendingParts
<1>14. PacketInv(Pending', pub', made', wire', gone')
  <2>1. \A p \in D : p \in Pending /\ p.kind \in {"frame", "audio"}
    BY <1>11, PendingParts
  <2>2. PacketInv(Pending, pub, made, wire, gone)
    BY DEF IInv
  <2>3. PacketInv(Pending \ D, pub', made, wire, gone')
    BY <1>1, <1>2, <1>12, <2>1, <2>2, DropKeeps
  <2> QED  BY <1>1, <1>13, <2>3
<1>15. /\ pub' \in Ledger /\ (pub.poisoned => pub'.poisoned)
  BY <1>12 DEF Frees
<1>16. TypeInv'
  <2>1. DOMAIN frames' \subseteq Pages /\ frames' \in [DOMAIN frames' -> Packet]
    <3>1. frames' = [p \in DOMAIN frames \ {page} |-> frames[p]] /\ DOMAIN frames \subseteq Pages
      BY <1>1 DEF Others, IInv, TypeInv
    <3> QED  BY <1>2, <3>1
  <2> QED  BY <1>1, <1>4, <1>5, <1>15, <2>1 DEF IInv, TypeInv, markVars
<1>17. QueueInv'
  <2>1. Writing' => \A p \in Queued' : p.id # packet'.id
    BY <1>1, <1>10 DEF IInv, QueueInv, Writing
  <2>2. \A p \in DOMAIN frames' : frames'[p].kind = "frame" /\ frames'[p].page = p
    BY <1>2, <1>8
  <2>3. \A p \in ToSet(audio') : p.kind = "audio"
    BY <1>2, <1>4
  <2> QED  BY <1>1, <1>4, <2>1, <2>2, <2>3 DEF IInv, QueueInv
<1>18. FrameInv'
  BY <1>5, <1>8 DEF FrameInv
<1>19. WatermarkSound' /\ WireInv'
  <2>1. wire' = wire /\ gone \subseteq gone' /\ "frame" \in PacketKinds /\ made' = made
    BY <1>1 DEF PacketKinds
  <2>2. WatermarkSound'
    BY <2>1, WireStep
  <2>3. WireInv'
    BY <1>1 DEF IInv, WireInv, Writing
  <2> QED  BY <2>2, <2>3
<1>20. MarkInv'
  BY <1>1, <1>15, MarkStep, PendingParts DEF markVars
<1>21. TakeInv'
  BY <1>1, <1>15, ProducerStep DEF markVars
<1> QED  BY <1>14, <1>16, <1>17, <1>18, <1>19, <1>20, <1>21 DEF IInv

(* The packet that the thread takes: the head of control_, else of audio_, *)
(* else the frame of the page that comes first.                            *)
FrontPacket == IF control # <<>> THEN Head(control)
               ELSE IF audio # <<>> THEN Head(audio) ELSE frames[Head(frameOrder)]

Takes(from) ==
  /\ control' \in Seq(Packet) /\ audio' \in Seq(Packet) /\ Distinct(control') /\ Distinct(audio')
  /\ ToSet(control') \subseteq ToSet(control) /\ ToSet(audio') \subseteq ToSet(audio)
  /\ frameOrder' \in Seq(Pages) /\ Lists(frameOrder', DOMAIN frames') /\ Sorted(control')
  /\ DOMAIN frames' \subseteq DOMAIN frames /\ frames' = [p \in DOMAIN frames' |-> frames[p]]
  /\ from \in Queued /\ Queued' = Queued \ {from}
  /\ InOrder(from) => /\ from \in ToSet(control)
                      /\ \A p \in ToSet(control') : InOrder(p) => from.id < p.id

(* It leaves its queue, and only it does.                                  *)
LEMMA TakeParts ==
  ASSUME IInv, TakePacket
  PROVE  Takes(FrontPacket)
<1> DEFINE from == FrontPacket
<1>1. /\ wpc = "enqueue" /\ wpc' = "write" /\ packet' = from /\ pub' = Dequeue(pub, from.ticket)
      /\ control' = IF control # <<>> THEN Tail(control) ELSE control
      /\ audio' = IF from.kind = "audio" THEN Tail(audio) ELSE audio
      /\ frames' = IF from.kind = "frame" THEN Others(from.page) ELSE frames
      /\ frameOrder' = IF from.kind = "frame" THEN Tail(frameOrder) ELSE frameOrder
      /\ UNCHANGED <<markVars, made, wire, gone>> /\ HasPackets
  BY DEF TakePacket, FrontPacket
<1>2. /\ pub \in Ledger /\ control \in Seq(Packet) /\ audio \in Seq(Packet) /\ Distinct(control) /\ Distinct(audio)
      /\ frameOrder \in Seq(Pages) /\ Lists(frameOrder, DOMAIN frames) /\ made \in Seq(PacketKinds)
      /\ wire \in Seq(Packet) /\ Sorted(control)
      /\ (\A p \in ToSet(control) : p.kind \notin {"frame", "audio"})
      /\ (\A p \in ToSet(audio) : p.kind = "audio") /\ DOMAIN frames \subseteq Pages
      /\ (\A p \in DOMAIN frames : frames[p] \in Packet /\ frames[p].kind = "frame" /\ frames[p].page = p)
      /\ frames \in [DOMAIN frames -> Packet]
  BY DEF IInv, TypeInv, FrameInv, QueueInv, WireInv
<1>3. Takes(from)
  <2>1. CASE control # <<>>
    <3>1. from = Head(control) /\ control' = Tail(control)
      BY <1>1, <2>1 DEF FrontPacket
    <3> HIDE DEF from
    <3>2. /\ control' \in Seq(Packet) /\ from \in ToSet(control) /\ ToSet(control') = ToSet(control) \ {from}
          /\ Distinct(control') /\ Sorted(control')
          /\ \A p \in ToSet(control') : InOrder(p) /\ InOrder(from) => from.id < p.id
      BY <1>2, <2>1, <3>1, QueuePopped
    <3>3. from.kind \notin {"frame", "audio"}
      BY <1>2, <3>2
    <3>4. audio' = audio /\ frames' = frames /\ frameOrder' = frameOrder
      BY <1>1, <3>3
    <3>5. from \in Queued /\ Queued' = Queued \ {from}
      BY <3>2, <3>4, QueuesApart DEF Queued, QueuedFrames
    <3> QED  BY <1>2, <3>2, <3>4, <3>5 DEF Takes
  <2>2. CASE control = <<>> /\ audio # <<>>
    <3>1. from = Head(audio) /\ control' = control
      BY <1>1, <2>2 DEF FrontPacket
    <3> HIDE DEF from
    <3>2. from \in ToSet(audio)
      BY <1>2, <2>2, <3>1, QueuePopped
    <3>3. from.kind = "audio" /\ audio' = Tail(audio) /\ frames' = frames /\ frameOrder' = frameOrder
      BY <1>1, <1>2, <3>2
    <3>4. audio' \in Seq(Packet) /\ ToSet(audio') = ToSet(audio) \ {from} /\ Distinct(audio')
      BY <1>2, <2>2, <3>1, <3>3, QueuePopped
    <3>5. from \in Queued /\ Queued' = Queued \ {from}
      BY <3>1, <3>2, <3>3, <3>4, QueuesApart DEF Queued, QueuedFrames
    <3>6. ~InOrder(from)
      BY <3>3 DEF InOrder
    <3> QED  BY <1>2, <3>1, <3>3, <3>4, <3>5, <3>6 DEF Takes
  <2>3. CASE control = <<>> /\ audio = <<>>
    <3>1. DOMAIN frames # {}
      BY <1>1, <2>3 DEF HasPackets
    <3>2. frameOrder # <<>>
      BY <1>2, <3>1, EmptySeq DEF Lists
    <3> DEFINE page == Head(frameOrder)
    <3>3. /\ frameOrder \in Seq(Pages) /\ Tail(frameOrder) \in Seq(Pages) /\ Len(frameOrder) \in Nat \ {0}
          /\ Len(Tail(frameOrder)) = Len(frameOrder) - 1 /\ page = frameOrder[1]
          /\ \A i \in 1 .. Len(Tail(frameOrder)) : Tail(frameOrder)[i] = frameOrder[i + 1]
      BY <1>2, <3>2, PopFrontElements
    <3>4. page \in DOMAIN frames /\ from = frames[page]
      <4>1. 1 \in 1 .. Len(frameOrder)
        BY <3>3
      <4> QED  BY <1>2, <2>3, <3>3, <4>1 DEF Lists, FrontPacket
    <3>5. from.kind = "frame" /\ from.page = page /\ from \in QueuedFrames
      BY <1>2, <3>4 DEF QueuedFrames
    <3> HIDE DEF from
    <3>6. control' = control /\ audio' = audio /\ frames' = Others(page) /\ frameOrder' = Tail(frameOrder)
      BY <1>1, <2>3, <3>5
    <3>7. /\ DOMAIN frames' = DOMAIN frames \ {page} /\ frames' = [p \in DOMAIN frames' |-> frames[p]]
          /\ \A p \in DOMAIN frames' : frames'[p] = frames[p]
      BY <3>6 DEF Others
    <3>8. QueuedFrames' = QueuedFrames \ {from}
      <4>1. \A p \in DOMAIN frames : p # page => frames[p] \in QueuedFrames' /\ frames[p] # from
        BY <1>2, <3>5, <3>7 DEF QueuedFrames
      <4>2. \A y : y \in QueuedFrames' => y \in QueuedFrames /\ y # from
        BY <3>7, <4>1 DEF QueuedFrames
      <4>3. \A y \in QueuedFrames : y # from => y \in QueuedFrames'
        BY <3>4, <4>1 DEF QueuedFrames
      <4> QED  BY <4>2, <4>3
    <3>9. from \in Queued /\ Queued' = Queued \ {from}
      <4>1. from \notin ToSet(control) /\ from \notin ToSet(audio)
        BY <1>2, <3>5
      <4> QED  BY <3>5, <3>6, <3>8, <4>1 DEF Queued
    <3>10. Lists(Tail(frameOrder), DOMAIN frames \ {page})
      <4> DEFINE tail == Tail(frameOrder)
      <4>1. \A i \in 1 .. Len(tail) : i + 1 \in 1 .. Len(frameOrder) /\ i + 1 # 1 /\ i \in Nat
        BY <3>3
      <4>2. 1 \in 1 .. Len(frameOrder) /\ \A i \in 1 .. Len(frameOrder) : i # 1 => i - 1 \in 1 .. Len(tail) /\ (i - 1) + 1 = i
        BY <3>3
      <4> HIDE DEF tail, page
      <4>3. \A i \in 1 .. Len(tail) : tail[i] = frameOrder[i + 1]
        BY <3>3 DEF tail
      <4>4. \A i \in 1 .. Len(tail) : tail[i] \in DOMAIN frames \ {page}
        <5> SUFFICES ASSUME NEW i \in 1 .. Len(tail) PROVE tail[i] \in DOMAIN frames /\ tail[i] # page
          OBVIOUS
        <5>1. frameOrder[i + 1] \in DOMAIN frames /\ frameOrder[i + 1] # frameOrder[1]
          BY <1>2, <4>1, <4>2 DEF Lists
        <5>2. page = frameOrder[1]
          BY <3>3
        <5> QED  BY <4>3, <5>1, <5>2
      <4>5. \A p \in DOMAIN frames \ {page} : \E i \in 1 .. Len(tail) : tail[i] = p
        <5> SUFFICES ASSUME NEW p \in DOMAIN frames, p # page PROVE \E i \in 1 .. Len(tail) : tail[i] = p
          OBVIOUS
        <5>1. PICK j \in 1 .. Len(frameOrder) : frameOrder[j] = p
          BY <1>2 DEF Lists
        <5>2. j # 1
          BY <3>3, <5>1
        <5>3. j - 1 \in 1 .. Len(tail) /\ tail[j - 1] = p
          BY <4>2, <4>3, <5>1, <5>2
        <5> QED  BY <5>3
      <4>6. \A i, j \in 1 .. Len(tail) : tail[i] = tail[j] => i = j
        <5> SUFFICES ASSUME NEW i \in 1 .. Len(tail), NEW j \in 1 .. Len(tail), tail[i] = tail[j] PROVE i = j
          OBVIOUS
        <5>1. frameOrder[i + 1] = frameOrder[j + 1]
          BY <4>3
        <5>2. \A u, v \in 1 .. Len(frameOrder) : frameOrder[u] = frameOrder[v] => u = v
          BY <1>2 DEF Lists
        <5>3. i + 1 = j + 1
          BY <4>1, <5>1, <5>2
        <5> QED  BY <4>1, <5>3
      <4> QED  BY <4>4, <4>5, <4>6 DEF Lists, tail
    <3>11. ~InOrder(from)
      BY <3>5 DEF InOrder
    <3> HIDE DEF page
    <3> QED  BY <1>2, <3>3, <3>6, <3>7, <3>9, <3>10, <3>11 DEF Takes
  <2> QED  BY <2>1, <2>2, <2>3
<1> QED  BY <1>3

(* The thread takes a packet.                                              *)
LEMMA TakePacketPreserves ==
  ASSUME IInv, TakePacket
  PROVE  IInv'
<1> DEFINE from == FrontPacket
<1>1. /\ wpc = "enqueue" /\ wpc' = "write" /\ packet' = from /\ pub' = Dequeue(pub, from.ticket)
      /\ UNCHANGED <<markVars, made, wire, gone>>
  BY DEF TakePacket, FrontPacket
<1>2. /\ pub \in Ledger /\ made \in Seq(PacketKinds) /\ wire \in Seq(Packet)
      /\ (\A p \in ToSet(control) : p.kind \notin {"frame", "audio"})
      /\ (\A p \in ToSet(audio) : p.kind = "audio") /\ DOMAIN frames \subseteq Pages
      /\ (\A p \in DOMAIN frames : frames[p] \in Packet /\ frames[p].kind = "frame" /\ frames[p].page = p)
      /\ frames \in [DOMAIN frames -> Packet]
  BY DEF IInv, TypeInv, QueueInv
<1>a. Takes(from)
  <2>1. from = FrontPacket
    OBVIOUS
  <2> HIDE DEF from
  <2> QED  BY <2>1, TakeParts
<1> HIDE DEF from
<1>3. /\ control' \in Seq(Packet) /\ audio' \in Seq(Packet) /\ Distinct(control') /\ Distinct(audio')
      /\ ToSet(control') \subseteq ToSet(control) /\ ToSet(audio') \subseteq ToSet(audio)
      /\ frameOrder' \in Seq(Pages) /\ Lists(frameOrder', DOMAIN frames') /\ Sorted(control')
      /\ DOMAIN frames' \subseteq DOMAIN frames /\ frames' = [p \in DOMAIN frames' |-> frames[p]]
      /\ from \in Queued /\ Queued' = Queued \ {from}
      /\ InOrder(from) => /\ from \in ToSet(control)
                          /\ \A p \in ToSet(control') : InOrder(p) => from.id < p.id
  BY <1>a DEF Takes
<1>4. from \in Packet /\ from.id \in 1 .. Len(made)
  BY <1>3, PendingParts
<1>5. ~Writing /\ Writing'
  BY <1>1 DEF Writing
<1>6. Frees(pub, pub', {})
  BY <1>1, <1>2, WriterReports
<1>7. pub' \in Ledger /\ (pub.poisoned => pub'.poisoned)
  BY <1>6 DEF Frees
<1>8. TypeInv'
  BY <1>1, <1>2, <1>3, <1>4, <1>7 DEF IInv, TypeInv, markVars
<1>9. Pending' = Pending
  <2>1. Pending' = Queued' \cup (IF Writing' THEN {packet'} ELSE {})
    BY DEF Pending, Queued, Writing
  <2> QED  BY <1>1, <1>3, <1>5, <2>1, PendingParts
<1>10. PacketInv(Pending', pub', made', wire', gone')
  <2>1. PacketInv(Pending, pub, made, wire, gone)
    BY DEF IInv
  <2>2. PacketInv(Pending, pub', made, wire, gone)
    BY <1>2, <1>6, <2>1, QuietKeeps
  <2> QED  BY <1>1, <1>9, <2>2
<1>11. QueueInv'
  <2>1. \A p \in Queued' : p.id # packet'.id
    BY <1>1, <1>3, QueuesApart
  <2>2. \A p \in DOMAIN frames' : frames'[p].kind = "frame" /\ frames'[p].page = p
    BY <1>2, <1>3
  <2>3. (\A p \in ToSet(control') : p.kind \notin {"frame", "audio"}) /\ \A p \in ToSet(audio') : p.kind = "audio"
    BY <1>2, <1>3
  <2> QED  BY <1>3, <2>1, <2>2, <2>3 DEF QueueInv
<1>12. FrameInv'
  BY <1>3 DEF FrameInv
<1>13. WireInv'
  <2>1. Precedes(wire', packet')
    BY <1>1, <1>3 DEF IInv, WireInv, Precedes
  <2>2. \A p \in ToSet(control') : InOrder(p) /\ InOrder(packet') => packet'.id < p.id
    BY <1>1, <1>3
  <2>3. \A p \in ToSet(control') : Precedes(wire', p)
    BY <1>1, <1>3 DEF IInv, WireInv
  <2> QED  BY <1>1, <1>3, <2>1, <2>2, <2>3 DEF IInv, WireInv
<1>14. WatermarkSound'
  BY <1>1 DEF IInv, WatermarkSound
<1>15. MarkInv'
  BY <1>1, <1>7, MarkStep, PendingParts DEF markVars
<1>16. TakeInv'
  BY <1>1 DEF TakeInv
<1> QED  BY <1>8, <1>10, <1>11, <1>12, <1>13, <1>14, <1>15, <1>16 DEF IInv

(* The end of a write puts the packet on stdout.                           *)
LEMMA WriteEndsPreserves ==
  ASSUME IInv, WriteEnds
  PROVE  IInv'
<1>1. /\ wpc = "written" /\ wpc' = "settle" /\ pub' = FullWrite(pub, packet.ticket) /\ wire' = Append(wire, packet)
      /\ UNCHANGED <<control, audio, frames, frameOrder, markVars, packet, made, gone>>
  BY DEF WriteEnds, queueVars
<1>2. /\ pub \in Ledger /\ made \in Seq(PacketKinds) /\ wire \in Seq(Packet) /\ packet \in Packet
      /\ PacketInv(Pending, pub, made, wire, gone) /\ Len(made) \in Nat /\ Len(wire) \in Nat
  BY PendingParts DEF IInv, TypeInv
<1>3. Writing /\ ~Writing'
  BY <1>1 DEF Writing
<1>4. Frees(pub, pub', {packet.ticket})
  BY <1>1, <1>2, WriterReports
<1>5. pub' \in Ledger /\ (pub.poisoned => pub'.poisoned)
  BY <1>4 DEF Frees
<1>6. Queued' = Queued
  BY <1>1 DEF Queued, QueuedFrames
<1>7. packet \in Pending /\ Pending' = Pending \ {packet}
  <2>1. Pending' = Queued'
    BY <1>3 DEF Pending, Queued, Writing
  <2>2. packet \notin Queued
    BY <1>3 DEF IInv, QueueInv
  <2> QED  BY <1>3, <1>6, <2>1, <2>2, PendingParts
<1>8. PacketInv(Pending', pub', made', wire', gone')
  <2>1. PacketInv(Pending \ {packet}, pub', made, wire', gone)
    BY <1>1, <1>2, <1>4, <1>7, WriteKeeps
  <2> QED  BY <1>1, <1>7, <2>1
<1>9. /\ wire' \in Seq(Packet) /\ Len(wire') = Len(wire) + 1
      /\ \A i \in 1 .. Len(wire') : wire'[i] = IF i <= Len(wire) THEN wire[i] ELSE packet
  BY <1>1, <1>2, PushBackElements
<1>10. \A i \in 1 .. Len(wire) : i \in 1 .. Len(wire') /\ wire'[i] = wire[i]
  BY <1>2, <1>9
<1>11. Len(wire') \in 1 .. Len(wire') /\ wire'[Len(wire')] = packet
  BY <1>2, <1>9
<1>12. \A i \in 1 .. Len(wire') : i \in 1 .. Len(wire) \/ i = Len(wire')
  BY <1>2, <1>9
<1>13. TypeInv'
  BY <1>1, <1>5, <1>9 DEF IInv, TypeInv, markVars
<1>14. QueueInv' /\ FrameInv'
  BY <1>1, <1>3 DEF IInv, QueueInv, FrameInv
<1>15. packet.id <= Len(made) /\ packet.id \in Nat /\ (packet.kind = "watermark" =>
         packet.through <= Len(made) /\ \A id \in 1 .. packet.through : Out(id, made, wire, gone))
  BY <1>2, <1>3, <1>7, PendingParts DEF PacketInv, Truthful
<1>16. WireInv'
  <2>1. \A i \in 1 .. Len(wire') :
          wire'[i].id <= Len(made) /\ (wire'[i].kind = "watermark" => wire'[i].through <= Len(made))
    BY <1>10, <1>11, <1>12, <1>15 DEF IInv, WireInv
  <2>2. Sorted(wire')
    <3> SUFFICES ASSUME NEW i \in 1 .. Len(wire'), NEW j \in 1 .. Len(wire'), i < j,
                        InOrder(wire'[i]), InOrder(wire'[j])
                 PROVE  wire'[i].id < wire'[j].id
      BY DEF Sorted
    <3>1. i \in 1 .. Len(wire) /\ wire'[i] = wire[i]
      BY <1>2, <1>9, <1>10
    <3>2. CASE j = Len(wire')
      BY <1>3, <1>11, <3>1, <3>2 DEF IInv, WireInv, Precedes
    <3>3. CASE j \in 1 .. Len(wire)
      BY <1>10, <3>1, <3>3 DEF IInv, WireInv, Sorted
    <3> QED  BY <1>12, <3>2, <3>3
  <2>3. \A p \in ToSet(control) : Precedes(wire', p)
    BY <1>3, <1>10, <1>11, <1>12 DEF IInv, WireInv, Precedes
  <2> QED  BY <1>1, <1>3, <2>1, <2>2, <2>3 DEF IInv, WireInv
<1>17. WatermarkSound'
  <2> SUFFICES ASSUME NEW i \in 1 .. Len(wire'), wire'[i].kind = "watermark", NEW id \in 1 .. wire'[i].through
               PROVE  \/ \E j \in 1 .. i - 1 : wire'[j].id = id
                      \/ id \in gone /\ made[id] \in {"frame", "audio"}
    BY <1>1, <1>9, LenProperties DEF WatermarkSound
  <2>1. CASE i \in 1 .. Len(wire)
    <3>1. i \in DOMAIN wire /\ wire'[i] = wire[i] /\ \A j \in 1 .. i - 1 : j \in 1 .. Len(wire)
      BY <1>2, <1>10, <2>1, LenProperties
    <3>2. \/ \E j \in 1 .. i - 1 : wire[j].id = id
          \/ id \in gone /\ made[id] \in {"frame", "audio"}
      BY <3>1 DEF IInv, WatermarkSound
    <3> QED  BY <1>10, <3>1, <3>2
  <2>2. CASE i = Len(wire')
    <3>1. Out(id, made, wire, gone)
      BY <1>11, <1>15, <2>2
    <3>2. i - 1 = Len(wire)
      BY <1>2, <1>9, <2>2
    <3> QED  BY <1>10, <3>1, <3>2 DEF Out
  <2> QED  BY <1>12, <2>1, <2>2
<1>18. MarkInv'
  BY <1>1, <1>2, <1>5, MarkStep DEF markVars
<1>19. TakeInv'
  BY <1>1 DEF TakeInv
<1> QED  BY <1>8, <1>13, <1>14, <1>16, <1>17, <1>18, <1>19 DEF IInv

(* A write that fails ends the thread and poisons the ledger.              *)
LEMMA WriteFailsPreserves ==
  ASSUME IInv, WriteFails
  PROVE  IInv'
<1>1. /\ wpc = "write" /\ wpc' = "done" /\ pub' = Unsupported(pub)
      /\ UNCHANGED <<control, audio, frames, frameOrder, markVars, packet, made, wire, gone>>
  BY DEF WriteFails, queueVars, WriteFailed
<1>2. /\ pub \in Ledger /\ made \in Seq(PacketKinds) /\ wire \in Seq(Packet)
      /\ PacketInv(Pending, pub, made, wire, gone)
  BY DEF IInv, TypeInv
<1>3. pub' \in Ledger /\ pub'.poisoned
  BY <1>1, <1>2, UnsupportedFrees DEF Frees
<1>4. Writing /\ ~Writing'
  BY <1>1 DEF Writing
<1>5. Queued' = Queued /\ Pending' = Queued'
  BY <1>1, <1>4 DEF Queued, QueuedFrames, Pending, Writing
<1>6. PacketInv(Pending', pub', made', wire', gone')
  <2>1. Queued \subseteq Pending
    BY PendingParts
  <2>2. PacketInv(Queued, pub', made, wire, gone)
    BY <1>2, <1>3, <2>1, PoisonKeeps
  <2> QED  BY <1>1, <1>5, <2>2
<1>7. TypeInv'
  BY <1>1, <1>3 DEF IInv, TypeInv, markVars
<1>8. QueueInv' /\ FrameInv' /\ WireInv' /\ WatermarkSound'
  BY <1>1, <1>4 DEF IInv, QueueInv, FrameInv, WireInv, WatermarkSound
<1>9. MarkInv'
  BY <1>1, <1>3, MarkStep, PendingParts DEF markVars
<1>10. TakeInv'
  BY <1>1 DEF TakeInv
<1> QED  BY <1>6, <1>7, <1>8, <1>9, <1>10 DEF IInv

(* A ready watermark is already true: the active tickets are those of the  *)
(* pending packets, and all of them are after its cut.                     *)
LEMMA ReadyIsTrue ==
  ASSUME IInv, NEW s \in DOMAIN marks, WorkWatermarkReady(s)
  PROVE  /\ marks[s].through \in Nat /\ marks[s].through <= Len(made)
         /\ \A id \in 1 .. marks[s].through : Out(id, made, wire, gone)
<1>1. ~pub.poisoned /\ \A t \in Active(pub) : t > marks[s].cut.sequence
  BY DEF WorkWatermarkReady, Through
<1>2. marks[s].through \in Nat /\ marks[s].through <= Len(made) /\ marks[s].through = marks[s].cut.sequence
  BY <1>1 DEF IInv, TypeInv, Mark, MarkInv
<1>3. /\ pub.next = Len(made)
      /\ \A p \in Pending : p.ticket = p.id
      /\ \A t \in Tickets : pub.rows[t].active <=> \E p \in Pending : p.ticket = t
      /\ \A id \in 1 .. Len(made) : (\E p \in Pending : p.id = id) \/ Out(id, made, wire, gone)
  BY <1>1 DEF IInv, PacketInv, Counted
<1>4. Len(made) \in Nat /\ Len(made) <= MaxTicket /\ MaxTicket \in Nat
  BY <1>3, PublicationAssumption, PendingParts DEF IInv, TypeInv, Ledger
<1>5. ASSUME NEW id \in 1 .. marks[s].through PROVE Out(id, made, wire, gone)
  <2>1. id \in 1 .. Len(made) /\ id \in Tickets /\ ~(id > marks[s].cut.sequence)
    BY <1>2, <1>4 DEF Tickets
  <2>2. ~pub.rows[id].active
    BY <1>1, <2>1 DEF Active
  <2>3. ~\E p \in Pending : p.id = id
    BY <1>3, <2>1, <2>2
  <2> QED  BY <1>3, <2>1, <2>3
<1> QED  BY <1>2, <1>5

(* The watermark goes to the front of control_.                            *)
LEMMA EnqueuePreserves ==
  ASSUME IInv, EnqueueReadyWorkWatermark
  PROVE  IInv'
<1> DEFINE ready == {s \in DOMAIN marks : WorkWatermarkReady(s)}
           s == Min(ready)
           base == Tracked(pub, "watermark", NoPage, 0)
           x == [base EXCEPT !.barrier = marks[s].barrier, !.through = marks[s].through]
<1>1. /\ wpc = "enqueue" /\ ready # {} /\ control' = <<x>> \o control
      /\ marks' = [marks EXCEPT ![s].queued = TRUE] /\ Accept(pub, "watermark")
      /\ UNCHANGED <<audio, frames, frameOrder, readerPoisoned, wpc, locked, packet, wire, gone>>
  BY DEF EnqueueReadyWorkWatermark, threadVars
<1>2. s \in DOMAIN marks /\ WorkWatermarkReady(s)
  <2>1. \A t \in ready : t \in Nat
    BY DEF IInv, TypeInv
  <2> HIDE DEF ready
  <2>2. s \in ready
    BY <1>1, <2>1, MinIsMember
  <2> HIDE DEF s
  <2> QED  BY <2>2 DEF ready
<1> HIDE DEF s, ready
<1>3. /\ marks[s] \in Mark /\ marks[s].through \in Nat /\ marks[s].through <= Len(made)
      /\ \A id \in 1 .. marks[s].through : Out(id, made, wire, gone)
  BY <1>2, ReadyIsTrue DEF IInv, TypeInv
<1>4. pub \in Ledger /\ Len(made) \in Nat /\ "watermark" \in PacketKinds /\ NoPage \in Pages \cup {NoPage} /\ 0 \in Nat
  BY PendingParts DEF IInv, TypeInv, PacketKinds
<1>5. base \in Packet /\ base.id = Len(made) + 1 /\ base.ticket = AdmitTicket(pub) /\ base.kind = "watermark"
  <2>1. base = Tracked(pub, "watermark", NoPage, 0)
    OBVIOUS
  <2> HIDE DEF base
  <2>2. Built(base, pub, "watermark", NoPage, 0)
    BY ONLY <1>4, <2>1, TrackedIs
  <2> QED  BY <2>2 DEF Built
<1> HIDE DEF base
<1>6. /\ x \in Packet /\ x.id = Len(made) + 1 /\ x.ticket = AdmitTicket(pub) /\ x.kind = "watermark"
      /\ x.through = marks[s].through
  <2>1. marks[s].barrier \in 0 .. MaxNonce
    BY <1>3, PublicationAssumption DEF Mark
  <2> QED  BY <1>3, <1>5, <2>1 DEF Packet
<1> HIDE DEF x
<1>7. ~InOrder(x)
  BY <1>6 DEF InOrder
<1>8. /\ DOMAIN marks' = DOMAIN marks /\ marks' \in [DOMAIN marks' -> Mark] /\ DOMAIN marks' \subseteq 1 .. MarkSlots
      /\ \A t \in DOMAIN marks' : t \in DOMAIN marks /\ marks'[t].through = marks[t].through
                                  /\ marks'[t].cut = marks[t].cut
  BY <1>1, <1>2, <1>3 DEF IInv, TypeInv, Mark
<1>9. pub' = Admit(pub, LedgerKind(x.kind)) /\ made' = Append(made, x.kind) /\ (Writing' <=> Writing)
  BY <1>1, <1>6 DEF Accept, Writing
<1>10. /\ TypeInv' /\ PacketInv(Pending, pub, made, wire, gone)' /\ QueueInv' /\ FrameInv'
       /\ WireInv' /\ WatermarkSound' /\ control' # <<>>
       /\ (pub.poisoned => pub'.poisoned) /\ Len(made') \in Nat /\ Len(made) <= Len(made')
  <2>1. x.kind \notin {"frame", "audio"} /\ (x.kind = "watermark" =>
           x.through <= Len(made) /\ \A id \in 1 .. x.through : Out(id, made, wire, gone))
    BY <1>3, <1>6
  <2> QED  BY <1>1, <1>6, <1>7, <1>8, <1>9, <2>1, ControlStep
<1>11. MarkInv'
  BY <1>8, <1>10, MarkStep
<1>12. TakeInv'
  BY <1>1, <1>10 DEF IInv, TakeInv, HasWork, HasPackets
<1> QED  BY <1>10, <1>11, <1>12 DEF IInv

(* A new watermark remembers how many packets were accepted before it.     *)
LEMMA QueueWorkWatermarkPreserves ==
  ASSUME IInv, QueueWorkWatermark
  PROVE  IInv'
<1>1. /\ ~locked /\ ~CutRefused(pub)
      /\ UNCHANGED <<queueVars, readerPoisoned, packet, made, wire, gone>>
  BY DEF QueueWorkWatermark
<1>2. pub \in Ledger /\ DOMAIN marks \subseteq 1 .. MarkSlots /\ marks \in [DOMAIN marks -> Mark] /\ packet \in Packet
  BY DEF IInv, TypeInv
<1>3. CASE FreeSlots = {}
  <2>1. pub' = Unsupported(pub) /\ marks' = marks /\ wpc' = wpc
    BY <1>3 DEF QueueWorkWatermark
  <2>2. Frees(pub, pub', {}) /\ pub'.poisoned
    BY <1>2, <2>1, UnsupportedFrees
  <2>3. Writing' <=> Writing
    BY <2>1 DEF Writing
  <2>4. /\ TypeInv' /\ PacketInv(Pending, pub, made, wire, gone)' /\ QueueInv' /\ FrameInv'
        /\ WireInv' /\ WatermarkSound'
    BY <1>1, <1>2, <2>1, <2>2, <2>3, QuietStep
  <2>5. MarkInv'
    BY <1>1, <2>1, <2>2, MarkStep, PendingParts
  <2>6. TakeInv'
    BY <1>1, <2>1, <2>2, ProducerStep
  <2> QED  BY <2>4, <2>5, <2>6 DEF IInv
<1>4. CASE FreeSlots # {}
  <2> DEFINE s == Min(FreeSlots)
             new == [barrier |-> pub.nonce + 1, cut |-> NextCut(pub), through |-> Len(made),
                     queued |-> FALSE, written |-> FALSE]
  <2>1. /\ pub' = Cut(pub) /\ Notify
        /\ marks' = [t \in DOMAIN marks \cup {s} |-> IF t \in DOMAIN marks THEN marks[t] ELSE new]
    BY <1>4 DEF QueueWorkWatermark
  <2>2. s \in 1 .. MarkSlots
    <3>1. \A t \in FreeSlots : t \in Nat /\ t \in 1 .. MarkSlots
      BY DEF FreeSlots
    <3> QED  BY <1>4, <3>1, MinIsMember
  <2>3. Frees(pub, pub', {}) /\ new \in Mark /\ new.through = Len(made) /\ new.cut.sequence = pub.next
    <3>1. Frees(pub, pub', {}) /\ NextCut(pub) \in CutOf /\ pub.nonce + 1 \in 1 .. MaxNonce
      BY <1>1, <1>2, <2>1, CutFrees
    <3>2. Len(made) \in Nat
      BY PendingParts
    <3>3. NextCut(pub).sequence = pub.next
      BY DEF NextCut
    <3> QED  BY <3>1, <3>2, <3>3 DEF Mark
  <2> HIDE DEF s, new
  <2>4. /\ DOMAIN marks' = DOMAIN marks \cup {s}
        /\ \A t \in DOMAIN marks' : marks'[t] = IF t \in DOMAIN marks THEN marks[t] ELSE new
    BY <2>1
  <2>5. DOMAIN marks' \subseteq 1 .. MarkSlots /\ marks' \in [DOMAIN marks' -> Mark]
    <3>1. \A t \in DOMAIN marks' : marks'[t] \in Mark
      BY <1>2, <2>3, <2>4
    <3>2. marks' = [t \in DOMAIN marks' |-> marks'[t]]
      BY <2>1
    <3>3. marks' \in [DOMAIN marks' -> Mark]
      BY <3>1, <3>2
    <3> QED  BY <1>2, <2>2, <2>4, <3>3
  <2>6. Writing' <=> Writing
    BY <2>1 DEF Notify, Writing
  <2>7. /\ TypeInv' /\ PacketInv(Pending, pub, made, wire, gone)' /\ QueueInv' /\ FrameInv'
        /\ WireInv' /\ WatermarkSound'
    BY <1>1, <1>2, <2>3, <2>5, <2>6, QuietStep
  <2>8. MarkInv'
    <3>1. Len(made) \in Nat /\ made' = made /\ (pub.poisoned => pub'.poisoned)
      BY <1>1, <2>3, PendingParts DEF Frees
    <3>2. ~pub'.poisoned => pub.next = Len(made)
      BY <3>1 DEF IInv, PacketInv, Counted
    <3>3. \A t \in DOMAIN marks : marks[t].through <= Len(made)
                                  /\ (~pub'.poisoned => marks[t].through = marks[t].cut.sequence)
      BY <3>1 DEF IInv, MarkInv
    <3> QED  BY <2>3, <2>4, <3>1, <3>2, <3>3 DEF MarkInv
  <2>9. TakeInv'
    BY <1>1, <2>1, <2>3, ProducerStep DEF Frees
  <2> QED  BY <2>7, <2>8, <2>9 DEF IInv
<1> QED  BY <1>3, <1>4

(* Steps that move no packet and open no cut.                              *)
QuietAction == \/ ReaderPoisoned \/ (\E s \in DOMAIN marks : RetireWorkWatermark(s))
               \/ CheckQueues \/ Sleep \/ WorkChanged \/ TakeFromEmpty \/ WriteSome \/ SettlePacket \/ Stop
               \/ UNCHANGED vars

(* They leave the queues and the cuts alone.                               *)
LEMMA QuietPreserves ==
  ASSUME IInv, QuietAction
  PROVE  IInv'
<1>1. /\ pub \in Ledger /\ DOMAIN marks \subseteq 1 .. MarkSlots /\ marks \in [DOMAIN marks -> Mark]
      /\ packet \in Packet
  BY DEF IInv, TypeInv
<1>2. UNCHANGED <<queueVars, made, wire, gone>>
  BY DEF QuietAction, ReaderPoisoned, RetireWorkWatermark, CheckQueues, Sleep, WorkChanged, TakeFromEmpty,
         WriteSome, SettlePacket, Stop, StopPoison, StopFlag, StopNotify, StopJoin, vars
<1>3. Frees(pub, pub, {})
  BY <1>1 DEF Frees
<1>4. Frees(pub, pub', {})
  <2>1. CASE \E s \in DOMAIN marks : RetireWorkWatermark(s)
    BY <1>1, <2>1, CutFrees DEF RetireWorkWatermark
  <2>2. CASE WriteSome
    BY <1>1, <2>2, WriterReports DEF WriteSome
  <2>3. CASE StopPoison
    BY <1>1, <2>3, UnsupportedFrees DEF StopPoison
  <2>4. CASE ReaderPoisoned \/ CheckQueues \/ Sleep \/ WorkChanged \/ TakeFromEmpty \/ SettlePacket
             \/ StopFlag \/ StopNotify \/ StopJoin \/ UNCHANGED vars
    <3>1. pub' = pub
      BY <2>4 DEF ReaderPoisoned, CheckQueues, Sleep, WorkChanged, TakeFromEmpty, SettlePacket, StopFlag,
                  StopNotify, StopJoin, vars
    <3> QED  BY <1>3, <3>1
  <2> QED  BY <2>1, <2>2, <2>3, <2>4 DEF QuietAction, Stop
<1>5. (pub.poisoned => pub'.poisoned) /\ (readerPoisoned => readerPoisoned')
  <2>1. readerPoisoned => readerPoisoned'
    BY DEF QuietAction, ReaderPoisoned, RetireWorkWatermark, CheckQueues, Sleep, WorkChanged, TakeFromEmpty,
           WriteSome, SettlePacket, Stop, StopPoison, StopFlag, StopNotify, StopJoin, vars, markVars
  <2> QED  BY <1>4, <2>1 DEF Frees
<1>6. /\ DOMAIN marks' \subseteq 1 .. MarkSlots /\ marks' \in [DOMAIN marks' -> Mark]
      /\ \A s \in DOMAIN marks' : s \in DOMAIN marks /\ marks'[s].through = marks[s].through
                                  /\ marks'[s].cut = marks[s].cut
  <2>1. CASE \E s \in DOMAIN marks : RetireWorkWatermark(s)
    BY <1>1, <2>1 DEF RetireWorkWatermark
  <2>2. CASE SettlePacket
    <3> DEFINE w == packet.ticket # 0
    <3>1. w \in BOOLEAN
      OBVIOUS
    <3>2. marks' = [s \in DOMAIN marks |-> IF marks[s].barrier = packet.barrier
                                            THEN [marks[s] EXCEPT !.written = w] ELSE marks[s]]
      BY <2>2 DEF SettlePacket
    <3> HIDE DEF w
    <3>3. \A s \in DOMAIN marks : [marks[s] EXCEPT !.written = w] \in Mark
                                  /\ [marks[s] EXCEPT !.written = w].through = marks[s].through
                                  /\ [marks[s] EXCEPT !.written = w].cut = marks[s].cut
      BY <1>1, <3>1 DEF Mark
    <3> QED  BY <1>1, <3>2, <3>3
  <2>3. CASE ReaderPoisoned \/ CheckQueues \/ Sleep \/ WorkChanged \/ TakeFromEmpty \/ WriteSome
             \/ Stop \/ UNCHANGED vars
    <3>1. marks' = marks
      BY <2>3 DEF ReaderPoisoned, CheckQueues, Sleep, WorkChanged, TakeFromEmpty, WriteSome, Stop, StopPoison,
                  StopFlag, StopNotify, StopJoin, vars, markVars
    <3> QED  BY <1>1, <3>1
  <2> QED  BY <2>1, <2>2, <2>3 DEF QuietAction
<1>7. packet' \in Packet /\ (Writing' <=> Writing) /\ (Writing => packet' = packet)
  <2>1. CASE SettlePacket
    <3>1. NoPacket \in Packet
      BY PublicationAssumption DEF NoPacket, Packet, PacketKinds
    <3> QED  BY <2>1, <3>1 DEF SettlePacket, Writing
  <2>2. CASE ReaderPoisoned \/ (\E s \in DOMAIN marks : RetireWorkWatermark(s))
             \/ CheckQueues \/ Sleep \/ WorkChanged \/ TakeFromEmpty \/ WriteSome \/ Stop
             \/ UNCHANGED vars
    <3>1. packet' = packet
      BY <2>2 DEF ReaderPoisoned, RetireWorkWatermark, CheckQueues, Sleep, WorkChanged, TakeFromEmpty,
                  WriteSome, Stop, StopPoison, StopFlag, StopNotify, StopJoin, vars, threadVars
    <3>2. Writing' <=> Writing
      BY <2>2 DEF ReaderPoisoned, RetireWorkWatermark, CheckQueues, Sleep, WorkChanged, TakeFromEmpty,
                  WriteSome, Stop, StopPoison, StopFlag, StopNotify, StopJoin, vars, threadVars, Writing, Notify
    <3> QED  BY <1>1, <3>1, <3>2
  <2> QED  BY <2>1, <2>2 DEF QuietAction
<1>8. /\ TypeInv' /\ PacketInv(Pending, pub, made, wire, gone)' /\ QueueInv' /\ FrameInv'
      /\ WireInv' /\ WatermarkSound'
  BY <1>2, <1>4, <1>6, <1>7, QuietStep
<1>9. MarkInv'
  <2>1. Len(made') \in Nat /\ Len(made) <= Len(made')
    BY <1>2, PendingParts
  <2> QED  BY <1>5, <1>6, <2>1, MarkStep
<1>10. TakeInv'
  <2>1. Poisoned => Poisoned'
    BY <1>5 DEF Poisoned
  <2>2. CASE \E s \in DOMAIN marks : RetireWorkWatermark(s)
    <3>1. ~locked /\ wpc' = wpc
      BY <2>2 DEF RetireWorkWatermark, threadVars
    <3>2. wpc # "enqueue"
      BY <3>1 DEF IInv, TakeInv
    <3> QED  BY <2>1, <3>1, <3>2, TakeStep
  <2>3. CASE StopPoison \/ ReaderPoisoned
    <3>1. Poisoned' /\ wpc' = wpc /\ locked' = locked
      <4>1. CASE StopPoison
        BY <1>1, <4>1, UnsupportedFrees DEF StopPoison, Poisoned, threadVars
      <4>2. CASE ReaderPoisoned
        BY <4>2 DEF ReaderPoisoned, Poisoned, threadVars
      <4> QED  BY <2>3, <4>1, <4>2
    <3> QED  BY <3>1 DEF IInv, TakeInv
  <2>4. CASE CheckQueues
    <3>1. HasWork' <=> HasWork
      BY <2>4 DEF CheckQueues, queueVars, markVars, HasWork, HasPackets, WorkWatermarkReady
    <3> QED  BY <2>4, <3>1 DEF CheckQueues, TakeInv
  <2>5. CASE TakeFromEmpty
    <3>1. ~HasWork /\ wpc = "enqueue" /\ wpc' = "crashed"
      BY <2>5 DEF TakeFromEmpty, HasWork
    <3>2. Poisoned
      BY <3>1 DEF IInv, TakeInv
    <3> QED  BY <2>1, <3>1, <3>2 DEF TakeInv
  <2>6. CASE Sleep \/ WorkChanged \/ WriteSome \/ SettlePacket
    <3>1. wpc' \notin {"enqueue", "crashed"}
      BY <2>6 DEF Sleep, WorkChanged, WriteSome, SettlePacket
    <3> QED  BY <2>1, <3>1, TakeStep
  <2>7. CASE StopFlag \/ StopNotify \/ StopJoin \/ UNCHANGED vars
    <3>1. /\ UNCHANGED <<pub, queueVars, markVars, locked>> /\ (wpc' = wpc \/ wpc' = "check")
      BY <2>7 DEF StopFlag, StopNotify, StopJoin, vars, threadVars, Notify, markVars, queueVars
    <3>2. HasWork' <=> HasWork
      BY <3>1 DEF queueVars, markVars, HasWork, HasPackets, WorkWatermarkReady
    <3> QED  BY <2>1, <3>1, <3>2 DEF IInv, TakeInv
  <2> QED  BY <2>2, <2>3, <2>4, <2>5, <2>6, <2>7 DEF QuietAction, Stop
<1> QED  BY <1>8, <1>9, <1>10 DEF IInv

(* The invariant holds at start.                                           *)
LEMMA InitIInv ==
  Init => IInv
<1> SUFFICES ASSUME Init PROVE IInv
  OBVIOUS
<1>1. NewLedger \in Ledger /\ NewLedger.next = 0 /\ \A t \in Tickets : NewLedger.rows[t].active = FALSE
  BY PublicationAssumption DEF NewLedger, Ledger, FreeRow, Row, Kinds
<1>2. NoPacket \in Packet
  BY PublicationAssumption DEF NoPacket, Packet, PacketKinds
<1>3. DOMAIN frames = {} /\ DOMAIN marks = {} /\ Len(control) = 0 /\ Len(audio) = 0 /\ Len(wire) = 0
      /\ Len(made) = 0 /\ Len(frameOrder) = 0 /\ ~Writing /\ wpc = "check"
  BY DEF Init, Writing
<1>4. TypeInv
  <2>1. /\ control \in Seq(Packet) /\ audio \in Seq(Packet) /\ wire \in Seq(Packet)
        /\ frameOrder \in Seq(Pages) /\ made \in Seq(PacketKinds)
    BY DEF Init
  <2>2. frames \in [DOMAIN frames -> Packet] /\ marks \in [DOMAIN marks -> Mark]
    BY <1>3 DEF Init
  <2> QED  BY <1>1, <1>2, <1>3, <2>1, <2>2 DEF TypeInv, Init
<1>5. Pending = {} /\ Queued = {} /\ ToSet(control) = {} /\ ToSet(audio) = {}
  <2>1. ToSet(control) = {} /\ ToSet(audio) = {}
    BY <1>3 DEF ToSet, Init
  <2>2. QueuedFrames = {}
    BY <1>3 DEF QueuedFrames
  <2> QED  BY <1>3, <2>1, <2>2 DEF Pending, Queued, Writing
<1>6. PacketInv(Pending, pub, made, wire, gone)
  <2>1. pub = NewLedger
    BY DEF Init
  <2>2. \A id \in 1 .. Len(made) : FALSE
    BY <1>3
  <2> QED  BY <1>1, <1>3, <1>5, <2>1, <2>2 DEF PacketInv, Known, Counted, Truthful
<1>7. QueueInv /\ FrameInv
  BY <1>3, <1>5 DEF QueueInv, FrameInv, Distinct, Lists
<1>8. MarkInv /\ TakeInv
  BY <1>3 DEF MarkInv, TakeInv
<1>9. WireInv
  BY <1>3, <1>5 DEF WireInv, Sorted
<1>10. WatermarkSound
  BY DEF WatermarkSound, Init
<1> QED  BY <1>4, <1>6, <1>7, <1>8, <1>9, <1>10 DEF IInv

-----------------------------------------------------------------------------
(* Sums of sizes: what SumSizes is over every finite set.                   *)

(* The recursion by which a sum is defined: one element of a set is taken  *)
(* and the rest is summed.                                                 *)
Pick(s) == CHOOSE x \in s : TRUE
Summed(f, s) == IF s = {} THEN 0 ELSE Pick(s).size + f[s \ {Pick(s)}]
Sums(f, U) == \A s \in SUBSET U : f[s] = Summed(f, s)
Sized(U) == IsFiniteSet(U) /\ \A x \in U : x.size \in Nat

LEMMA SumIs ==
  ASSUME NEW U
  PROVE  SumSizes(U) = (CHOOSE f : f = [s \in SUBSET U |-> Summed(f, s)])[U]
BY DEF SumSizes, MapThenSumSet, MapThenFoldSet, Summed, Pick

(* The subsets of a sized set.                                             *)
LEMMA SubsetsSized ==
  ASSUME NEW U, Sized(U), NEW s \in SUBSET U
  PROVE  Sized(s) /\ Cardinality(s) \in Nat /\ Cardinality(s) <= Cardinality(U)
         /\ (Cardinality(s) <= 0 => s = {})
<1>1. IsFiniteSet(s) /\ Cardinality(s) \in Nat /\ Cardinality(s) <= Cardinality(U)
  BY FS_Subset, FS_CardinalityType DEF Sized
<1>2. Cardinality(s) <= 0 => Cardinality(s) = 0
  BY <1>1
<1>3. Cardinality(s) = 0 => s = {}
  BY <1>1, FS_EmptySet
<1> QED  BY <1>1, <1>2, <1>3 DEF Sized

(* What is taken leaves less.                                              *)
LEMMA PickIs ==
  ASSUME NEW U, Sized(U), NEW s \in SUBSET U
  PROVE  /\ IsFiniteSet(s) /\ Cardinality(s) \in Nat
         /\ s # {} => /\ Pick(s) \in s /\ Pick(s).size \in Nat /\ s \ {Pick(s)} \in SUBSET U
                      /\ Cardinality(s \ {Pick(s)}) = Cardinality(s) - 1
<1>1. IsFiniteSet(s) /\ Cardinality(s) \in Nat
  BY FS_Subset, FS_CardinalityType DEF Sized
<1>2. CASE s # {}
  <2>1. Pick(s) \in s
    BY <1>2 DEF Pick
  <2>2. Cardinality(s \ {Pick(s)}) = Cardinality(s) - 1
    BY <1>1, <2>1, FS_RemoveElement
  <2>3. Pick(s).size \in Nat
    BY <2>1 DEF Sized
  <2> QED  BY <1>1, <2>1, <2>2, <2>3
<1> QED  BY <1>1, <1>2

(* There is a function that sums the subsets.                              *)
LEMMA SumExists ==
  ASSUME NEW U, Sized(U)
  PROVE  \E f \in [SUBSET U -> Nat] : Sums(f, U)
<1> DEFINE N == Cardinality(U)
           upto(f, n) == \A s \in SUBSET U : Cardinality(s) <= n => f[s] = Summed(f, s)
           T == {n \in 0 .. N : \E f \in [SUBSET U -> Nat] : upto(f, n)}
<1>1. N \in Nat /\ \A s \in SUBSET U : Cardinality(s) <= N
  BY FS_CardinalityType, FS_Subset DEF Sized
<1>2. 0 \in T
  <2> DEFINE f == [s \in SUBSET U |-> 0]
  <2>1. f \in [SUBSET U -> Nat]
    OBVIOUS
  <2>2. ASSUME NEW s \in SUBSET U, Cardinality(s) <= 0 PROVE f[s] = Summed(f, s)
    <3>1. s = {}
      BY <2>2, SubsetsSized
    <3> QED  BY <3>1 DEF Summed
  <2> HIDE DEF f
  <2>3. upto(f, 0)
    BY <2>2
  <2>4. \E h \in [SUBSET U -> Nat] : upto(h, 0)
    BY <2>1, <2>3
  <2> QED  BY <1>1, <2>4
<1>3. ASSUME NEW n \in 1 .. N, n - 1 \in T PROVE n \in T
  <2>1. PICK f \in [SUBSET U -> Nat] : upto(f, n - 1)
    BY <1>3
  <2> DEFINE g == [s \in SUBSET U |-> Summed(f, s)]
  <2>2. \A s \in SUBSET U : Summed(f, s) \in Nat
    <3> TAKE s \in SUBSET U
    <3>1. CASE s = {}
      BY <3>1 DEF Summed
    <3>2. CASE s # {}
      <4>1. Pick(s).size \in Nat /\ s \ {Pick(s)} \in SUBSET U
        BY <3>2, PickIs
      <4>2. f[s \ {Pick(s)}] \in Nat
        BY <4>1
      <4> QED  BY <3>2, <4>1, <4>2 DEF Summed
    <3> QED  BY <3>1, <3>2
  <2>3. g \in [SUBSET U -> Nat] /\ \A s \in SUBSET U : g[s] = Summed(f, s)
    BY <2>2
  <2> HIDE DEF g
  <2>4. ASSUME NEW s \in SUBSET U, Cardinality(s) <= n PROVE g[s] = Summed(g, s)
    <3>1. CASE s = {}
      BY <2>3, <3>1 DEF Summed
    <3>2. CASE s # {}
      <4> DEFINE r == s \ {Pick(s)}
      <4>1. r \in SUBSET U /\ Cardinality(r) = Cardinality(s) - 1 /\ Cardinality(s) \in Nat
        BY <3>2, PickIs
      <4>2. Cardinality(r) <= n - 1
        BY <1>1, <2>4, <4>1
      <4>3. f[r] = Summed(f, r)
        BY <2>1, <4>1, <4>2
      <4>4. g[r] = f[r]
        BY <2>3, <4>1, <4>3
      <4> QED  BY <2>3, <3>2, <4>4 DEF Summed
    <3> QED  BY <3>1, <3>2
  <2>5. upto(g, n)
    BY <2>4
  <2> QED  BY <2>3, <2>5
<1>4. N \in T
  <2> HIDE DEF T, N
  <2>1. 0 .. N \subseteq T
    BY <1>1, <1>2, <1>3, Upwards
  <2> QED  BY <1>1, <2>1
<1>5. PICK f \in [SUBSET U -> Nat] : upto(f, N)
  BY <1>4
<1>6. Sums(f, U)
  BY <1>1, <1>5 DEF Sums
<1> QED  BY <1>6

(* Any two such functions agree where both are defined.                    *)
Agree(f, g, V) == \A s \in SUBSET V : g[s] = f[s]
LEMMA SumUnique ==
  ASSUME NEW U, Sized(U), NEW V \in SUBSET U, NEW f, NEW g, Sums(f, U), Sums(g, V)
  PROVE  Agree(f, g, V)
<1> DEFINE N == Cardinality(V)
           T == {n \in 0 .. N : \A s \in SUBSET V : Cardinality(s) <= n => g[s] = f[s]}
<1>1. N \in Nat /\ IsFiniteSet(V) /\ \A s \in SUBSET V : Cardinality(s) <= N
  BY FS_CardinalityType, FS_Subset DEF Sized
<1>2. \A s \in SUBSET V : s \in SUBSET U /\ f[s] = Summed(f, s) /\ g[s] = Summed(g, s)
  BY DEF Sums
<1>3. 0 \in T
  <2>1. ASSUME NEW s \in SUBSET V, Cardinality(s) <= 0 PROVE g[s] = f[s]
    <3>1. s = {}
      <4>1. s \in SUBSET U
        BY <1>2
      <4> QED  BY <2>1, <4>1, SubsetsSized
    <3> QED  BY <1>2, <3>1 DEF Summed
  <2> QED  BY <1>1, <2>1
<1>4. ASSUME NEW n \in 1 .. N, n - 1 \in T PROVE n \in T
  <2>1. ASSUME NEW s \in SUBSET V, Cardinality(s) <= n PROVE g[s] = f[s]
    <3>1. CASE s = {}
      BY <1>2, <3>1 DEF Summed
    <3>2. CASE s # {}
      <4> DEFINE r == s \ {Pick(s)}
      <4>1. r \in SUBSET V /\ Cardinality(r) = Cardinality(s) - 1 /\ Cardinality(s) \in Nat
        BY <1>2, <3>2, PickIs
      <4>2. Cardinality(r) <= n - 1
        BY <1>1, <2>1, <4>1
      <4>3. g[r] = f[r]
        BY <1>4, <4>1, <4>2
      <4> QED  BY <1>2, <3>2, <4>3 DEF Summed
    <3> QED  BY <3>1, <3>2
  <2> QED  BY <2>1
<1>5. N \in T
  <2> HIDE DEF T, N
  <2>1. 0 .. N \subseteq T
    BY <1>1, <1>3, <1>4, Upwards
  <2> QED  BY <1>1, <2>1
<1> QED  BY <1>1, <1>5 DEF Agree

(* One function gives the sums of all subsets.                             *)
LEMMA SumsOf ==
  ASSUME NEW U, Sized(U)
  PROVE  \E f \in [SUBSET U -> Nat] : Sums(f, U) /\ \A s \in SUBSET U : SumSizes(s) = f[s]
<1>1. PICK f \in [SUBSET U -> Nat] : Sums(f, U)
  BY SumExists
<1>2. ASSUME NEW V \in SUBSET U PROVE SumSizes(V) = f[V]
  <2>1. Sized(V)
    BY FS_Subset DEF Sized
  <2> DEFINE next(h) == [s \in SUBSET V |-> Summed(h, s)]
             g == CHOOSE h : h = next(h)
  <2>2. PICK h \in [SUBSET V -> Nat] : Sums(h, V)
    BY <2>1, SumExists
  <2>3. h = next(h)
    BY <2>2 DEF Sums
  <2>4. g = next(g)
    <3> HIDE DEF next
    <3> QED  BY <2>3
  <2>5. Sums(g, V)
    <3> HIDE DEF g
    <3> QED  BY <2>4 DEF Sums
  <2>6. SumSizes(V) = g[V]
    BY SumIs
  <2> HIDE DEF g, next
  <2>7. Agree(f, g, V)
    <3>1. Sums(f, U)
      BY <1>1
    <3> HIDE DEF Sums
    <3> QED  BY <3>1, <2>5, SumUnique
  <2>8. V \in SUBSET V
    OBVIOUS
  <2>9. g[V] = f[V]
    BY <2>7, <2>8 DEF Agree
  <2> QED  BY ONLY <2>6, <2>9
<1> QED  BY <1>1, <1>2

(* One element more.                                                       *)
Adds(f, s, x) == x \notin s => f[s \cup {x}] = f[s] + x.size
LEMMA SumAdds ==
  ASSUME NEW U, Sized(U), NEW f \in [SUBSET U -> Nat], Sums(f, U)
  PROVE  \A s \in SUBSET U : \A x \in U : Adds(f, s, x)
<1> DEFINE N == Cardinality(U)
           T == {n \in 0 .. N : \A s \in SUBSET U : Cardinality(s) <= n => \A x \in U : Adds(f, s, x)}
<1>1. N \in Nat /\ \A s \in SUBSET U : Cardinality(s) \in Nat /\ Cardinality(s) <= N
  BY FS_CardinalityType, SubsetsSized DEF Sized
<1>2. (\A x \in U : x.size \in Nat) /\ \A s \in SUBSET U : f[s] \in Nat /\ f[s] = Summed(f, s)
  BY DEF Sums, Sized
<1>3. ASSUME NEW s \in SUBSET U, NEW x \in U, x \notin s,
             \A r \in SUBSET U : Cardinality(r) < Cardinality(s) => \A v \in U : Adds(f, r, v)
      PROVE  f[s \cup {x}] = f[s] + x.size
  <2> DEFINE t == s \cup {x}
             y == Pick(t)
  <2>1. t \in SUBSET U /\ t # {} /\ y \in t
    <3>1. t \in SUBSET U /\ t # {}
      OBVIOUS
    <3> HIDE DEF t
    <3> QED  BY <3>1, PickIs
  <2>2. f[t] = y.size + f[t \ {y}]
    BY <1>2, <2>1 DEF Summed
  <2> HIDE DEF y
  <2>3. CASE y = x
    <3>1. t \ {y} = s
      BY <1>3, <2>3
    <3>2. f[t] = x.size + f[s] /\ f[s] \in Nat /\ x.size \in Nat
      BY <1>2, <2>2, <2>3, <3>1
    <3> HIDE DEF t
    <3>3. f[t] = f[s] + x.size
      BY <3>2
    <3> QED  BY <3>3 DEF t
  <2>4. CASE y # x
    <3> DEFINE r == s \ {y}
    <3>1. y \in s /\ y \in U /\ y \notin r /\ x \notin r /\ r \in SUBSET U
      BY <1>3, <2>1, <2>4
    <3>2. t \ {y} = r \cup {x} /\ s = r \cup {y}
      BY <1>3, <2>4, <3>1
    <3>3. Cardinality(r) < Cardinality(s)
      <4>1. IsFiniteSet(s) /\ Cardinality(s) \in Nat
        BY <1>1, SubsetsSized DEF Sized
      <4>2. Cardinality(r) = Cardinality(s) - 1
        BY <3>1, <4>1, FS_RemoveElement
      <4> QED  BY <4>1, <4>2
    <3> HIDE DEF r
    <3>4. f[r \cup {x}] = f[r] + x.size /\ f[r \cup {y}] = f[r] + y.size
      BY <1>3, <3>1, <3>3 DEF Adds
    <3>5. f[t] = y.size + (f[r] + x.size) /\ f[s] = f[r] + y.size
      BY <2>2, <3>2, <3>4
    <3>6. f[r] \in Nat /\ x.size \in Nat /\ y.size \in Nat
      BY <1>2, <3>1
    <3> HIDE DEF t
    <3>7. f[t] = f[s] + x.size
      BY <3>5, <3>6
    <3> QED  BY <3>7 DEF t
  <2> QED  BY <2>3, <2>4
<1>4. 0 \in T
  <2>1. ASSUME NEW s \in SUBSET U, Cardinality(s) <= 0, NEW x \in U PROVE Adds(f, s, x)
    <3>1. \A r \in SUBSET U : Cardinality(r) < Cardinality(s) => \A v \in U : Adds(f, r, v)
      BY <1>1, <2>1
    <3> QED  BY <1>3, <3>1 DEF Adds
  <2> QED  BY <1>1, <2>1
<1>5. ASSUME NEW n \in 1 .. N, n - 1 \in T PROVE n \in T
  <2>1. ASSUME NEW s \in SUBSET U, Cardinality(s) <= n, NEW x \in U PROVE Adds(f, s, x)
    <3>1. ASSUME NEW r \in SUBSET U, Cardinality(r) < Cardinality(s) PROVE \A v \in U : Adds(f, r, v)
      <4>1. Cardinality(r) <= n - 1
        BY <1>1, <2>1, <3>1
      <4> QED  BY <1>5, <4>1
    <3> QED  BY <1>3, <3>1 DEF Adds
  <2> QED  BY <2>1
<1>6. N \in T
  <2> HIDE DEF T, N
  <2>1. 0 .. N \subseteq T
    BY <1>1, <1>4, <1>5, Upwards
  <2> QED  BY <1>1, <2>1
<1> QED  BY <1>1, <1>6

(* The sum over a set with one element more.                               *)
LEMMA SumWith ==
  ASSUME NEW s, Sized(s), NEW x, x.size \in Nat, x \notin s
  PROVE  SumSizes(s \cup {x}) = SumSizes(s) + x.size
<1> DEFINE U == s \cup {x}
<1>1. Sized(U)
  BY FS_AddElement DEF Sized
<1>2. PICK f \in [SUBSET U -> Nat] : Sums(f, U) /\ \A t \in SUBSET U : SumSizes(t) = f[t]
  BY <1>1, SumsOf
<1>3. \A t \in SUBSET U : \A v \in U : Adds(f, t, v)
  BY <1>1, <1>2, SumAdds
<1>4. f[s \cup {x}] = f[s] + x.size
  BY <1>3 DEF Adds
<1> QED  BY <1>2, <1>4

(* The sum over nothing, and over one.                                     *)
LEMMA SumSmall ==
  /\ SumSizes({}) = 0
  /\ \A x : x.size \in Nat => SumSizes({x}) = x.size
<1>1. Sized({})
  BY FS_EmptySet DEF Sized
<1>2. SumSizes({}) = 0
  <2>1. PICK f \in [SUBSET {} -> Nat] : Sums(f, {}) /\ \A t \in SUBSET {} : SumSizes(t) = f[t]
    BY <1>1, SumsOf
  <2>2. {} \in SUBSET {}
    OBVIOUS
  <2> QED  BY <2>1, <2>2 DEF Sums, Summed
<1>3. ASSUME NEW x, x.size \in Nat PROVE SumSizes({x}) = x.size
  <2>1. SumSizes({} \cup {x}) = SumSizes({}) + x.size
    BY <1>1, <1>3, SumWith
  <2>2. {} \cup {x} = {x}
    OBVIOUS
  <2> QED  BY <1>2, <1>3, <2>1, <2>2
<1> QED  BY <1>2, <1>3

(* Two sets apart.                                                         *)
SumsUp(a, b) == SumSizes(a \cup b) = SumSizes(a) + SumSizes(b) /\ SumSizes(a) \in Nat /\ SumSizes(b) \in Nat
LEMMA SumApart ==
  ASSUME NEW a, Sized(a), NEW b, Sized(b), \A x \in a : x \notin b
  PROVE  SumsUp(a, b)
<1> DEFINE U == a \cup b
           N == Cardinality(b)
           T == {n \in 0 .. N : \A c \in SUBSET b : Cardinality(c) <= n => SumSizes(a \cup c) = SumSizes(a) + SumSizes(c)}
<1>1. Sized(U)
  BY FS_Union DEF Sized
<1>2. \A c \in SUBSET U : Sized(c) /\ SumSizes(c) \in Nat
  <2>1. PICK f \in [SUBSET U -> Nat] : Sums(f, U) /\ \A t \in SUBSET U : SumSizes(t) = f[t]
    BY <1>1, SumsOf
  <2> QED  BY <1>1, <2>1, SubsetsSized
<1>3. N \in Nat /\ \A c \in SUBSET b : Cardinality(c) \in Nat /\ Cardinality(c) <= N
  BY FS_CardinalityType, SubsetsSized DEF Sized
<1>4. 0 \in T
  <2>1. ASSUME NEW c \in SUBSET b, Cardinality(c) <= 0 PROVE SumSizes(a \cup c) = SumSizes(a) + SumSizes(c)
    <3>1. c = {} /\ a \cup c = a
      BY <2>1, SubsetsSized
    <3>2. SumSizes(a) \in Nat
      BY <1>2
    <3> QED  BY <3>1, <3>2, SumSmall
  <2> QED  BY <1>3, <2>1
<1>5. ASSUME NEW n \in 1 .. N, n - 1 \in T PROVE n \in T
  <2>1. ASSUME NEW c \in SUBSET b, Cardinality(c) <= n PROVE SumSizes(a \cup c) = SumSizes(a) + SumSizes(c)
    <3>1. CASE c = {}
      <4>1. a \cup c = a /\ SumSizes(a) \in Nat
        BY <1>2, <3>1
      <4> QED  BY <3>1, <4>1, SumSmall
    <3>2. CASE c # {}
      <4>1. PICK x \in c : TRUE
        BY <3>2
      <4> DEFINE d == c \ {x}
      <4>2. d \in SUBSET b /\ x \notin a \cup d /\ x \notin d /\ c = d \cup {x} /\ a \cup c = (a \cup d) \cup {x}
        BY <4>1
      <4>3. Sized(c) /\ Sized(d) /\ Sized(a \cup d) /\ SumSizes(a) \in Nat /\ SumSizes(d) \in Nat
        BY <1>2
      <4>4. Cardinality(d) <= n - 1
        <5>1. Cardinality(d) = Cardinality(c) - 1 /\ Cardinality(c) \in Nat
          BY <1>3, <4>1, <4>3, FS_RemoveElement DEF Sized
        <5> QED  BY <1>3, <2>1, <5>1
      <4> HIDE DEF d
      <4>5. SumSizes(a \cup d) = SumSizes(a) + SumSizes(d)
        BY <1>5, <4>2, <4>4
      <4>6. x.size \in Nat
        BY <4>1 DEF Sized
      <4>7. SumSizes((a \cup d) \cup {x}) = SumSizes(a \cup d) + x.size /\ SumSizes(d \cup {x}) = SumSizes(d) + x.size
        BY <4>2, <4>3, <4>6, SumWith
      <4>8. /\ SumSizes(a \cup c) = SumSizes(a \cup d) + x.size /\ SumSizes(c) = SumSizes(d) + x.size
            /\ SumSizes(a) \in Nat /\ SumSizes(d) \in Nat /\ SumSizes(a \cup d) = SumSizes(a) + SumSizes(d)
        BY <4>2, <4>3, <4>5, <4>7
      <4> QED  BY <4>6, <4>8
    <3> QED  BY <3>1, <3>2
  <2> QED  BY <2>1
<1>6. N \in T
  <2> HIDE DEF T, N
  <2>1. 0 .. N \subseteq T
    BY <1>3, <1>4, <1>5, Upwards
  <2> QED  BY <1>3, <2>1
<1> QED  BY <1>2, <1>3, <1>6 DEF SumsUp

(* What is left when some are taken away.                                  *)
LEMMA SumLess ==
  ASSUME NEW s, Sized(s), NEW d \in SUBSET s
  PROVE  /\ Sized(d) /\ Sized(s \ d) /\ SumSizes(s) \in Nat /\ SumSizes(d) \in Nat /\ SumSizes(s \ d) \in Nat
         /\ SumSizes(s) = SumSizes(s \ d) + SumSizes(d)
<1>1. Sized(d) /\ Sized(s \ d) /\ (s \ d) \cap d = {} /\ (s \ d) \cup d = s
  BY SubsetsSized
<1> DEFINE r == s \ d
<1> HIDE DEF r
<1>a. Sized(r) /\ Sized(d) /\ \A x \in r : x \notin d
  BY <1>1 DEF r
<1>2. SumSizes(r \cup d) = SumSizes(r) + SumSizes(d) /\ SumSizes(r) \in Nat /\ SumSizes(d) \in Nat
  BY <1>a, SumApart DEF SumsUp
<1>3. r \cup d = s
  BY <1>1 DEF r
<1>4. SumSizes(s) = SumSizes(r) + SumSizes(d)
  BY <1>2, <1>3, Zenon
<1>5. SumSizes(s) \in Nat
  BY <1>2, <1>4
<1> QED  BY <1>1, <1>2, <1>4, <1>5 DEF r

(* What a set of packets counts and weighs. *)
Weighs(s, n, b) == /\ Sized(s) /\ Cardinality(s) = n /\ SumSizes(s) = b /\ n \in Nat /\ b \in Nat

(* Every sized set weighs something.                                       *)
LEMMA WeighsSized ==
  ASSUME NEW s, Sized(s)
  PROVE  Weighs(s, Cardinality(s), SumSizes(s))
<1>1. Cardinality(s) \in Nat
  BY FS_CardinalityType DEF Sized
<1>2. SumSizes(s) \in Nat
  BY SumLess
<1> QED  BY <1>1, <1>2 DEF Weighs

(* One packet more, or one less.                                           *)
LEMMA WeighsWith ==
  ASSUME NEW s, NEW n, NEW b, Weighs(s, n, b), NEW x, x.size \in Nat, x \notin s
  PROVE  Weighs(s \cup {x}, n + 1, b + x.size)
<1>1. Sized(s) /\ IsFiniteSet(s) /\ n \in Nat /\ b \in Nat /\ Cardinality(s) = n /\ SumSizes(s) = b
  BY DEF Weighs, Sized
<1>2. IsFiniteSet(s \cup {x}) /\ Cardinality(s \cup {x}) = n + 1
  BY <1>1, FS_AddElement
<1>3. SumSizes(s \cup {x}) = b + x.size
  BY <1>1, SumWith
<1>4. Sized(s \cup {x})
  BY <1>1, <1>2 DEF Sized
<1> QED  BY <1>1, <1>2, <1>3, <1>4 DEF Weighs

LEMMA WeighsWithout ==
  ASSUME NEW s, NEW n, NEW b, Weighs(s, n, b), NEW x \in s
  PROVE  Weighs(s \ {x}, n - 1, b - x.size) /\ x.size \in Nat /\ x.size <= b /\ n > 0
<1>1. Sized(s) /\ IsFiniteSet(s) /\ n \in Nat /\ b \in Nat /\ Cardinality(s) = n /\ SumSizes(s) = b
      /\ x.size \in Nat
  BY DEF Weighs, Sized
<1>2. {x} \in SUBSET s
  OBVIOUS
<1>3. /\ Sized(s \ {x}) /\ SumSizes(s \ {x}) \in Nat /\ SumSizes({x}) \in Nat
      /\ b = SumSizes(s \ {x}) + SumSizes({x})
  BY <1>1, <1>2, SumLess
<1>4. SumSizes({x}) = x.size
  BY <1>1, SumSmall
<1>5. SumSizes(s \ {x}) = b - x.size /\ x.size <= b
  BY <1>1, <1>3, <1>4
<1>6. Cardinality(s \ {x}) = n - 1 /\ Cardinality(s \ {x}) \in Nat
  BY <1>1, <1>3, FS_RemoveElement, FS_CardinalityType DEF Sized
<1>7. n > 0 /\ n - 1 \in Nat /\ b - x.size \in Nat
  BY <1>1, <1>3, <1>5, <1>6
<1> QED  BY <1>1, <1>3, <1>5, <1>6, <1>7 DEF Weighs

(* A set that a finite set covers is finite, and no larger.                *)
LEMMA CoveredFinite ==
  ASSUME NEW S, IsFiniteSet(S), NEW f, NEW T, \A y \in T : \E x \in S : y = f[x]
  PROVE  IsFiniteSet(T) /\ Cardinality(T) <= Cardinality(S)
<1> DEFINE U == {x \in S : f[x] \in T}
           g == [x \in U |-> f[x]]
<1>1. IsFiniteSet(U) /\ Cardinality(U) <= Cardinality(S)
  BY FS_Subset
<1>2. g \in Surjection(U, T)
  <2>1. g \in [U -> T]
    OBVIOUS
  <2>2. \A y \in T : \E x \in U : g[x] = y
    <3> SUFFICES ASSUME NEW y \in T PROVE \E x \in U : g[x] = y
      OBVIOUS
    <3>1. PICK x \in S : y = f[x]
      OBVIOUS
    <3> QED  BY <3>1
  <2> QED  BY <2>1, <2>2 DEF Surjection
<1> HIDE DEF U, g
<1>3. IsFiniteSet(T) /\ Cardinality(T) <= Cardinality(U)
  BY <1>1, <1>2, FS_Surjection
<1>4. Cardinality(T) \in Nat /\ Cardinality(U) \in Nat /\ Cardinality(S) \in Nat
  BY <1>1, <1>3, FS_CardinalityType
<1> QED  BY <1>1, <1>3, <1>4

(* The packets of a queue, and the queued frames, are sized.               *)
LEMMA QueueSized ==
  ASSUME NEW q \in Seq(Packet)
  PROVE  Sized(ToSet(q)) /\ Cardinality(ToSet(q)) <= Len(q)
<1>1. Len(q) \in Nat /\ IsFiniteSet(1 .. Len(q)) /\ Cardinality(1 .. Len(q)) = Len(q)
  <2>1. Len(q) \in Nat
    BY LenProperties
  <2>2. 1 \in Int /\ Len(q) \in Int
    BY <2>1
  <2>3. IsFiniteSet(1 .. Len(q)) /\ Cardinality(1 .. Len(q)) = IF 1 > Len(q) THEN 0 ELSE Len(q) - 1 + 1
    BY <2>2, FS_Interval
  <2> QED  BY <2>1, <2>3
<1>2. \A x \in ToSet(q) : \E i \in 1 .. Len(q) : x = q[i]
  BY ToSetElements
<1>3. IsFiniteSet(ToSet(q)) /\ Cardinality(ToSet(q)) <= Len(q)
  BY <1>1, <1>2, CoveredFinite
<1>4. \A x \in ToSet(q) : x.size \in Nat
  <2>1. \A x \in ToSet(q) : x \in Packet
    BY <1>2, ElementOfSeq
  <2> QED  BY <2>1 DEF Packet
<1> QED  BY <1>3, <1>4 DEF Sized

LEMMA FramesSized ==
  ASSUME IInv
  PROVE  Sized(QueuedFrames) /\ IsFiniteSet(DOMAIN frames)
<1>1. /\ frameOrder \in Seq(Pages) /\ Lists(frameOrder, DOMAIN frames)
      /\ \A p \in DOMAIN frames : frames[p] \in Packet
  BY DEF IInv, TypeInv, FrameInv
<1>2. Len(frameOrder) \in Nat /\ IsFiniteSet(1 .. Len(frameOrder))
  <2>1. Len(frameOrder) \in Nat
    BY <1>1, LenProperties
  <2>2. 1 \in Int /\ Len(frameOrder) \in Int
    BY <2>1
  <2> QED  BY <2>1, <2>2, FS_Interval
<1>3. \A p \in DOMAIN frames : \E i \in 1 .. Len(frameOrder) : p = frameOrder[i]
  BY <1>1 DEF Lists
<1>4. IsFiniteSet(DOMAIN frames)
  BY <1>2, <1>3, CoveredFinite
<1>5. \A x \in QueuedFrames : \E p \in DOMAIN frames : x = frames[p]
  BY DEF QueuedFrames
<1>6. IsFiniteSet(QueuedFrames)
  BY <1>4, <1>5, CoveredFinite
<1>7. \A x \in QueuedFrames : x.size \in Nat
  BY <1>1, <1>5 DEF Packet
<1> QED  BY <1>4, <1>6, <1>7 DEF Sized

-----------------------------------------------------------------------------
(* The byte and packet counters.  The packet that the thread holds is its  *)
(* own, and NoPacket between two packets.                                  *)
Events == {p \in ToSet(control) : p.kind = "event"}
Replies == {p \in ToSet(control) \cup {packet} : p.kind = "reply"}
FrameBudgetInv == frameBytes = SumSizes(QueuedFrames) /\ frameBytes <= FrameBudget
EventBudgetInv == Weighs(Events, eventCount, eventBytes) /\ eventCount <= EventCap /\ eventBytes <= EventBudget
ReplyBudgetInv == Weighs(Replies, credits, replyBytes) /\ credits <= CreditCap /\ replyBytes <= ReplyBudget
HeldInv ==
  /\ packet.id \in 0 .. Len(made) /\ \A p \in ToSet(control) : p.id # packet.id
  /\ wpc \in {"check", "evaluated", "asleep", "enqueue", "crashed"} => packet = NoPacket
ThreadInv ==
  /\ wpc \in {"check", "evaluated", "asleep", "enqueue", "write", "written", "settle", "done", "crashed"}
  /\ spc \in {"run", "flag", "notify", "join", "joined"}
  /\ eventFailed \in BOOLEAN /\ readerPoisoned \in BOOLEAN /\ stopping \in BOOLEAN /\ locked \in BOOLEAN
  /\ gone \subseteq Nat
BudgetInv == FrameBudgetInv /\ EventBudgetInv /\ ReplyBudgetInv /\ HeldInv /\ ThreadInv

(* Send of a frame pops pages until the others leave it room.              *)
LEMMA SendFrameBudget ==
  ASSUME IInv, FrameBudgetInv, NEW page \in Pages, NEW size \in FrameSizes, SendFrame(page, size)
  PROVE  FrameBudgetInv'
<1> DEFINE dom == DOMAIN frames
           order == IF page \in dom THEN frameOrder ELSE Append(frameOrder, page)
           m == PopsNeeded(page, size, order)
           evicted == (dom \cap Popped(order, m)) \ {page}
           R == {frames[p] : p \in dom \cap {page}}
           E == {frames[p] : p \in evicted}
           k == Dropped(pub, {p.ticket : p \in R}, "FrameReplaced")
           l == Dropped(k, {p.ticket : p \in E}, "FrameBudget")
           x == Tracked(l, "frame", page, size)
           K == KeptFrames(page, order, m)
<1>1. /\ frames' = [p \in (dom \ evicted) \cup {page} |-> IF p = page THEN x ELSE frames[p]]
      /\ frameBytes' = frameBytes - SumSizes(R) - SumSizes(E) + size
  BY DEF SendFrame
<1>2. /\ pub \in Ledger /\ Len(made) \in Nat
      /\ \A p \in dom : frames[p] \in Packet /\ frames[p].page = p /\ frames[p].id \in 1 .. Len(made)
  BY PendingParts DEF IInv, TypeInv, QueueInv, Queued, QueuedFrames
<1>3. m \in 0 .. Len(order) /\ HasRoom(page, size, order, m)
  <2>1. order \in Seq(Pages) /\ Lists(order, DOMAIN frames \cup {page})
    BY OrderJoined
  <2> HIDE DEF order
  <2>2. m = PopsNeeded(page, size, order)
    OBVIOUS
  <2> HIDE DEF m
  <2> QED  BY <2>1, <2>2, PopsEnough
<1>4. K = {frames[p] : p \in dom \ ({page} \cup Popped(order, m))}
  BY DEF KeptFrames
<1>5. x.id = Len(made) + 1 /\ x.size = size /\ size \in Nat /\ FrameBudget \in Nat /\ size <= FrameBudget
  <2>1. "frame" \in PacketKinds /\ page \in Pages \cup {NoPage} /\ size \in Nat
    BY WriterAssumption DEF PacketKinds
  <2>2. k \in Ledger
    <3> HIDE DEF R
    <3>1. Frees(pub, k, {p.ticket : p \in R})
      BY <1>2, DroppedFrees
    <3> HIDE DEF k
    <3> QED  BY <3>1 DEF Frees
  <2>3. l \in Ledger
    <3> HIDE DEF E, k
    <3>1. Frees(k, l, {p.ticket : p \in E})
      BY <2>2, DroppedFrees
    <3> HIDE DEF l
    <3> QED  BY <3>1 DEF Frees
  <2>a. x = Tracked(l, "frame", page, size)
    OBVIOUS
  <2> HIDE DEF l, x
  <2>b. Built(x, l, "frame", page, size)
    BY <1>2, <2>1, <2>3, <2>a, TrackedIs
  <2>4. x.id = Len(made) + 1 /\ x.size = size
    BY <2>b DEF Built
  <2> QED  BY <2>1, <2>4, WriterAssumption
<1> HIDE DEF m, order, k, l, x
<1>6. /\ \A y \in R : y \in QueuedFrames /\ y.page = page
      /\ \A y \in E : y \in QueuedFrames /\ y.page \in Popped(order, m) /\ y.page # page
      /\ \A y \in K : y \in QueuedFrames /\ y.page \notin Popped(order, m) /\ y.page # page
      /\ \A y \in QueuedFrames : y \in R \/ y \in E \/ y \in K
  BY <1>2, <1>4 DEF QueuedFrames
<1>7. QueuedFrames' = K \cup {x}
  <2>1. QueuedFrames' = {IF p = page THEN x ELSE frames[p] : p \in (dom \ evicted) \cup {page}}
    BY <1>1 DEF QueuedFrames
  <2>2. \A p \in dom \ ({page} \cup Popped(order, m)) : p \in (dom \ evicted) \cup {page} /\ p # page
    OBVIOUS
  <2>3. \A p \in (dom \ evicted) \cup {page} : p # page => p \in dom \ ({page} \cup Popped(order, m))
    OBVIOUS
  <2> HIDE DEF evicted, K
  <2> QED  BY <1>4, <2>1, <2>2, <2>3
<1>8. x \notin K
  <2>1. \A y \in QueuedFrames : y.id # x.id
    BY <1>2, <1>5 DEF QueuedFrames
  <2> QED  BY <1>6, <2>1
<1> HIDE DEF R, E, K
<1>9. SumsUp(R, E) /\ SumsUp(R \cup E, K)
  <2>1. R \in SUBSET QueuedFrames /\ E \in SUBSET QueuedFrames /\ K \in SUBSET QueuedFrames
        /\ R \cup E \in SUBSET QueuedFrames
    BY <1>6
  <2>2. Sized(R) /\ Sized(E) /\ Sized(K) /\ Sized(R \cup E)
    BY <2>1, FramesSized, SubsetsSized
  <2>3. (\A y \in R : y \notin E) /\ \A y \in R \cup E : y \notin K
    BY <1>6
  <2>4. SumsUp(R, E)
    BY <2>2, <2>3, SumApart
  <2>5. SumsUp(R \cup E, K)
    BY <2>2, <2>3, SumApart
  <2> QED  BY <2>4, <2>5
<1>10. QueuedFrames = (R \cup E) \cup K
  BY <1>6
<1>11. Sized(K) /\ SumSizes(K \cup {x}) = SumSizes(K) + size
  <2>1. K \in SUBSET QueuedFrames
    BY <1>6
  <2>2. Sized(K)
    BY <2>1, FramesSized, SubsetsSized
  <2>3. x.size \in Nat
    BY <1>5
  <2>4. SumSizes(K \cup {x}) = SumSizes(K) + x.size
    BY <1>8, <2>2, <2>3, SumWith
  <2> QED  BY <1>5, <2>2, <2>4
<1>12. SumSizes(QueuedFrames) = SumSizes(R) + SumSizes(E) + SumSizes(K)
       /\ SumSizes(R) \in Nat /\ SumSizes(E) \in Nat /\ SumSizes(K) \in Nat
  <2>1. SumSizes(QueuedFrames) = SumSizes((R \cup E) \cup K)
    BY <1>10, Zenon
  <2> QED  BY <1>9, <2>1 DEF SumsUp
<1>13. frameBytes' = SumSizes(K) + size
  <2>1. frameBytes = SumSizes(QueuedFrames)
    BY DEF FrameBudgetInv
  <2> QED  BY <1>1, <1>5, <1>12, <2>1
<1>14. frameBytes' <= FrameBudget
  <2>1. CASE K = {}
    <3>1. SumSizes(K) = 0
      BY <2>1, SumSmall
    <3> QED  BY <1>5, <1>13, <3>1
  <2>2. CASE size <= FrameBudget - SumSizes(K)
    BY <1>5, <1>12, <1>13, <2>2
  <2> QED  BY <1>3, <2>1, <2>2 DEF HasRoom, K
<1>15. SumSizes(QueuedFrames') = SumSizes(K) + size
  <2>1. SumSizes(QueuedFrames') = SumSizes(K \cup {x})
    BY <1>7, Zenon
  <2> QED  BY <1>11, <2>1
<1>16. SumSizes(QueuedFrames)' = SumSizes(QueuedFrames')
  OBVIOUS
<1> QED  BY <1>13, <1>14, <1>15 DEF FrameBudgetInv

(* What the thread takes leaves its queue.                                 *)
LEMMA TakeQueues ==
  ASSUME IInv, TakePacket
  PROVE  /\ FrontPacket \in Packet /\ FrontPacket.id \in 1 .. Len(made)
         /\ ToSet(control') = ToSet(control) \ {FrontPacket} /\ QueuedFrames' = QueuedFrames \ {FrontPacket}
         /\ (FrontPacket \in QueuedFrames <=> FrontPacket.kind = "frame")
         /\ (FrontPacket \in ToSet(control) <=> FrontPacket.kind \notin {"frame", "audio"})
         /\ \A p \in ToSet(control') : p.id # FrontPacket.id
<1> DEFINE from == FrontPacket
<1>1. Takes(from)
  BY TakeParts
<1> HIDE DEF from
<1>2. /\ ToSet(control') \subseteq ToSet(control) /\ ToSet(audio') \subseteq ToSet(audio)
      /\ QueuedFrames' \subseteq QueuedFrames
      /\ from \in Queued /\ Queued' = Queued \ {from}
  <2>1. QueuedFrames' \subseteq QueuedFrames
    BY <1>1 DEF Takes, QueuedFrames
  <2> QED  BY <1>1, <2>1 DEF Takes
<1>3. Queued' = ToSet(control') \cup ToSet(audio') \cup QueuedFrames'
  BY DEF Queued
<1>4. Queued = ToSet(control) \cup ToSet(audio) \cup QueuedFrames
  BY DEF Queued
<1>5. ToSet(control') = ToSet(control) \ {from} /\ QueuedFrames' = QueuedFrames \ {from}
  BY <1>2, <1>3, <1>4, QueuesApart
<1>6. from \in Packet /\ from.id \in 1 .. Len(made)
  BY <1>2, PendingParts
<1>7. /\ \A p \in ToSet(control) : p.kind \notin {"frame", "audio"}
      /\ \A p \in ToSet(audio) : p.kind = "audio"
      /\ \A p \in QueuedFrames : p.kind = "frame"
  BY QueuesApart DEF IInv, QueueInv
<1>8. \A p \in ToSet(control') : p.id # from.id
  BY <1>2, <1>4, <1>5, QueuesApart
<1> QED  BY <1>2, <1>4, <1>5, <1>6, <1>7, <1>8 DEF from

(* The frame's bytes leave with it.                                        *)
LEMMA FrameBudgetStep ==
  ASSUME IInv, FrameBudgetInv,
         \/ \E page \in Pages : DropPage(page)
         \/ TakePacket
         \/ UNCHANGED <<frames, frameBytes>>
  PROVE  FrameBudgetInv'
<1> DEFINE left(D) == /\ D \in SUBSET QueuedFrames /\ QueuedFrames' = QueuedFrames \ D
                      /\ frameBytes' = frameBytes - SumSizes(D)
<1>1. ASSUME NEW D, left(D) PROVE FrameBudgetInv'
  <2>1. /\ SumSizes(QueuedFrames) = SumSizes(QueuedFrames \ D) + SumSizes(D)
        /\ SumSizes(QueuedFrames \ D) \in Nat /\ SumSizes(D) \in Nat
    BY <1>1, FramesSized, SumLess
  <2>2. SumSizes(QueuedFrames') = SumSizes(QueuedFrames \ D)
    <3>1. QueuedFrames' = QueuedFrames \ D
      BY <1>1
    <3> QED  BY <3>1, Zenon
  <2>3. frameBytes = SumSizes(QueuedFrames) /\ frameBytes <= FrameBudget /\ FrameBudget \in Nat
        /\ frameBytes' = frameBytes - SumSizes(D)
    BY <1>1, WriterAssumption DEF FrameBudgetInv
  <2>4. frameBytes' = SumSizes(QueuedFrames') /\ frameBytes' <= FrameBudget
    BY <2>1, <2>2, <2>3
  <2> QED  BY <2>4 DEF FrameBudgetInv
<1>2. ASSUME NEW page \in Pages, DropPage(page) PROVE FrameBudgetInv'
  <2>1. frames' = Others(page) /\ frameBytes' = frameBytes - SumSizes(FrameOf(page))
    BY <1>2 DEF DropPage
  <2>2. \A p \in DOMAIN frames : frames[p].page = p
    BY DEF IInv, QueueInv
  <2>3. \A y : y \in FrameOf(page) <=> y \in QueuedFrames /\ y.page = page
    BY <2>2 DEF FrameOf, QueuedFrames
  <2>4. DOMAIN frames' = DOMAIN frames \ {page} /\ \A p \in DOMAIN frames' : frames'[p] = frames[p]
    BY <2>1 DEF Others
  <2>5. \A y : y \in QueuedFrames' <=> y \in QueuedFrames /\ y.page # page
    BY <2>2, <2>4 DEF QueuedFrames
  <2> DEFINE D == FrameOf(page)
  <2>6. D \in SUBSET QueuedFrames /\ QueuedFrames' = QueuedFrames \ D /\ frameBytes' = frameBytes - SumSizes(D)
    BY <2>1, <2>3, <2>5
  <2> QED  BY <1>1, <2>6
<1>3. CASE TakePacket
  <2> DEFINE from == FrontPacket
  <2>1. frameBytes' = IF from.kind = "frame" THEN frameBytes - from.size ELSE frameBytes
    BY <1>3 DEF TakePacket, FrontPacket
  <2>2. /\ from \in Packet /\ QueuedFrames' = QueuedFrames \ {from}
        /\ (from \in QueuedFrames <=> from.kind = "frame")
    BY <1>3, TakeQueues
  <2> HIDE DEF from
  <2>3. from.size \in Nat
    BY <2>2 DEF Packet
  <2>4. CASE from.kind = "frame"
    <3> DEFINE D == {from}
    <3>1. SumSizes(D) = from.size
      BY <2>3, SumSmall
    <3>2. D \in SUBSET QueuedFrames /\ QueuedFrames' = QueuedFrames \ D
      BY <2>2, <2>4
    <3>3. frameBytes' = frameBytes - SumSizes(D)
      BY <2>1, <2>4, <3>1
    <3> QED  BY <1>1, <3>2, <3>3
  <2>5. CASE from.kind # "frame"
    <3>1. QueuedFrames' = QueuedFrames /\ frameBytes' = frameBytes
      BY <2>1, <2>2, <2>5
    <3>2. SumSizes(QueuedFrames') = SumSizes(QueuedFrames)
      BY <3>1, Zenon
    <3> QED  BY <3>1, <3>2 DEF FrameBudgetInv
  <2> QED  BY <2>4, <2>5
<1>4. CASE UNCHANGED <<frames, frameBytes>>
  BY <1>4 DEF FrameBudgetInv, QueuedFrames
<1> QED  BY <1>2, <1>3, <1>4

(* A packet that enters control_ is new to it and to the thread.           *)
LEMMA EntersControl ==
  ASSUME IInv, HeldInv, NEW x \in Packet, x.id = Len(made) + 1,
         control' = Append(control, x) \/ control' = <<x>> \o control, packet' = packet
  PROVE  /\ Events' = (IF x.kind = "event" THEN Events \cup {x} ELSE Events) /\ x \notin Events
         /\ Replies' = (IF x.kind = "reply" THEN Replies \cup {x} ELSE Replies) /\ x \notin Replies
         /\ \A p \in ToSet(control') : p.id # packet'.id
<1>1. control \in Seq(Packet) /\ Len(made) \in Nat /\ \A p \in ToSet(control) : p.id \in 1 .. Len(made)
  BY PendingParts DEF IInv, TypeInv, Queued
<1>2. ToSet(control') = ToSet(control) \cup {x}
  BY <1>1, QueuePushed
<1>3. packet.id \in 0 .. Len(made) /\ \A p \in ToSet(control) : p.id # packet.id
  BY DEF HeldInv
<1>4. x.id # packet.id /\ \A p \in ToSet(control) : p.id # x.id
  BY <1>1, <1>3
<1>5. x \notin ToSet(control) /\ x # packet
  BY <1>4
<1>6. Events' = {p \in ToSet(control') : p.kind = "event"}
  BY DEF Events
<1>7. Replies' = {p \in ToSet(control') \cup {packet} : p.kind = "reply"}
  BY DEF Replies
<1>8. Events' = IF x.kind = "event" THEN Events \cup {x} ELSE Events
  BY <1>2, <1>6 DEF Events
<1>9. Replies' = IF x.kind = "reply" THEN Replies \cup {x} ELSE Replies
  BY <1>2, <1>7 DEF Replies
<1> QED  BY <1>2, <1>3, <1>4, <1>5, <1>8, <1>9 DEF Events, Replies

(* A producer finds the thread outside a take, and wakes at most a sleeper. *)
LEMMA HeldStep ==
  ASSUME IInv, HeldInv, packet' = packet, \A p \in ToSet(control') : p.id # packet'.id,
         Len(made') \in Nat, Len(made) <= Len(made'),
         wpc' = wpc \/ wpc \in {"check", "evaluated", "asleep", "enqueue"} \/ wpc' \in {"write", "written", "settle", "done"}
  PROVE  HeldInv'
<1>1. packet.id \in 0 .. Len(made) /\ Len(made) \in Nat
  BY PendingParts DEF HeldInv
<1>2. packet'.id \in 0 .. Len(made')
  BY <1>1
<1> QED  BY <1>2 DEF HeldInv

(* Replies, events and the overflow error are counted as they are queued.  *)
LEMMA ControlBudget ==
  ASSUME IInv, BudgetInv,
         \/ \E size \in ReplySizes : SendReply(size)
         \/ \E size \in EventSizes : OverflowEvents(size) \/ PublishEvent(size)
  PROVE  EventBudgetInv' /\ ReplyBudgetInv' /\ HeldInv'
<1>1. pub \in Ledger /\ Len(made) \in Nat /\ NoPage \in Pages \cup {NoPage} /\ made \in Seq(PacketKinds)
  BY PendingParts DEF IInv, TypeInv
<1>2. /\ Weighs(Events, eventCount, eventBytes) /\ eventCount <= EventCap /\ eventBytes <= EventBudget
      /\ Weighs(Replies, credits, replyBytes) /\ credits <= CreditCap /\ replyBytes <= ReplyBudget
      /\ HeldInv
  BY DEF BudgetInv, EventBudgetInv, ReplyBudgetInv
<1>3. eventCount \in Nat /\ eventBytes \in Nat /\ credits \in Nat /\ replyBytes \in Nat
      /\ EventCap \in Nat /\ EventBudget \in Nat /\ CreditCap \in Nat /\ ReplyBudget \in Nat
  BY <1>2, WriterAssumption DEF Weighs
<1>4. ASSUME NEW kind \in PacketKinds, NEW size \in Nat, NEW x, x = Tracked(pub, kind, NoPage, size)
      PROVE  x \in Packet /\ x.id = Len(made) + 1 /\ x.kind = kind /\ x.size = size
  <2>1. Built(x, pub, kind, NoPage, size)
    BY ONLY <1>1, <1>4, TrackedIs
  <2> QED  BY <2>1 DEF Built
<1>5. ASSUME NEW x \in Packet, x.id = Len(made) + 1, x.kind \in PacketKinds, 
             control' = Append(control, x) \/ control' = <<x>> \o control,
             packet' = packet, made' = Append(made, x.kind), Notify
      PROVE  /\ Events' = (IF x.kind = "event" THEN Events \cup {x} ELSE Events) /\ x \notin Events
             /\ Replies' = (IF x.kind = "reply" THEN Replies \cup {x} ELSE Replies) /\ x \notin Replies
             /\ HeldInv'
  <2>1. /\ Events' = (IF x.kind = "event" THEN Events \cup {x} ELSE Events) /\ x \notin Events
        /\ Replies' = (IF x.kind = "reply" THEN Replies \cup {x} ELSE Replies) /\ x \notin Replies
        /\ \A p \in ToSet(control') : p.id # packet'.id
    BY <1>2, <1>5, EntersControl
  <2>2. Len(made') = Len(made) + 1
    BY <1>1, <1>5
  <2>3. Len(made') \in Nat /\ Len(made) <= Len(made')
    BY <1>1, <2>2
  <2>4. wpc' = wpc \/ wpc \in {"check", "evaluated", "asleep", "enqueue"}
    BY <1>5 DEF Notify
  <2>5. HeldInv'
    BY <1>2, <1>5, <2>1, <2>3, <2>4, HeldStep
  <2> QED  BY <2>1, <2>5
<1>6. ASSUME NEW size \in ReplySizes, SendReply(size) PROVE EventBudgetInv' /\ ReplyBudgetInv' /\ HeldInv'
  <2> DEFINE sent == IF size > MaxResponse \/ size > ReplyBudget - replyBytes THEN 0 ELSE size
             x == Tracked(pub, "reply", NoPage, sent)
  <2>1. /\ control' = Append(control, x) /\ replyBytes' = replyBytes + sent /\ credits' = credits + 1
        /\ credits < CreditCap /\ packet' = packet /\ made' = Append(made, "reply") /\ Notify
        /\ eventCount' = eventCount /\ eventBytes' = eventBytes
    BY <1>6 DEF SendReply, PushBack, Accept
  <2>2. size \in Nat /\ "reply" \in PacketKinds
    BY WriterAssumption DEF PacketKinds
  <2>3. sent \in Nat /\ sent <= ReplyBudget - replyBytes
    BY <1>2, <1>3, <2>2
  <2>4. x \in Packet /\ x.id = Len(made) + 1 /\ x.kind = "reply" /\ x.size = sent
    <3> HIDE DEF sent
    <3> QED  BY <1>4, <2>2, <2>3
  <2> HIDE DEF x, sent
  <2>5. Events' = Events /\ Replies' = Replies \cup {x} /\ x \notin Replies /\ HeldInv'
    BY <1>5, <2>1, <2>2, <2>4
  <2>6. Weighs(Replies \cup {x}, credits + 1, replyBytes + x.size)
    BY <1>2, <2>3, <2>4, <2>5, WeighsWith
  <2>7. Weighs(Replies', credits', replyBytes')
    BY <2>1, <2>4, <2>5, <2>6
  <2>8. credits' <= CreditCap /\ replyBytes' <= ReplyBudget
    BY <1>3, <2>1, <2>3
  <2>9. ReplyBudgetInv'
    BY <2>7, <2>8 DEF ReplyBudgetInv, Weighs
  <2>10. EventBudgetInv'
    BY <1>2, <2>1, <2>5 DEF EventBudgetInv, Weighs
  <2> QED  BY <2>5, <2>9, <2>10
<1>7. ASSUME NEW size \in EventSizes, PublishEvent(size) PROVE EventBudgetInv' /\ ReplyBudgetInv' /\ HeldInv'
  <2> DEFINE x == Tracked(pub, "event", NoPage, size)
  <2>1. /\ control' = Append(control, x) /\ eventCount' = eventCount + 1 /\ eventBytes' = eventBytes + size
        /\ EventFits(size) /\ packet' = packet /\ made' = Append(made, "event") /\ Notify
        /\ credits' = credits /\ replyBytes' = replyBytes
    BY <1>7 DEF PublishEvent, PushBack, Accept
  <2>2. size \in Nat /\ "event" \in PacketKinds
    BY WriterAssumption DEF PacketKinds
  <2>4. x \in Packet /\ x.id = Len(made) + 1 /\ x.kind = "event" /\ x.size = size
    BY <1>4, <2>2
  <2> HIDE DEF x
  <2>5. Replies' = Replies /\ Events' = Events \cup {x} /\ x \notin Events /\ HeldInv'
    BY <1>5, <2>1, <2>2, <2>4
  <2>6. Weighs(Events \cup {x}, eventCount + 1, eventBytes + x.size)
    BY <1>2, <2>2, <2>4, <2>5, WeighsWith
  <2>7. Weighs(Events', eventCount', eventBytes')
    BY <2>1, <2>4, <2>5, <2>6
  <2>8. eventCount' <= EventCap /\ eventBytes' <= EventBudget
    BY <1>3, <2>1, <2>2 DEF EventFits
  <2>9. EventBudgetInv'
    BY <2>7, <2>8 DEF EventBudgetInv, Weighs
  <2>10. ReplyBudgetInv'
    BY <1>2, <2>1, <2>5 DEF ReplyBudgetInv, Weighs
  <2> QED  BY <2>5, <2>9, <2>10
<1>8. ASSUME NEW size \in EventSizes, OverflowEvents(size) PROVE EventBudgetInv' /\ ReplyBudgetInv' /\ HeldInv'
  <2> DEFINE x == Tracked(pub, "error", NoPage, 0)
  <2>1. /\ control' = <<x>> \o control /\ packet' = packet /\ made' = Append(made, "error") /\ Notify
        /\ UNCHANGED <<eventCount, eventBytes, credits, replyBytes>>
    BY <1>8 DEF OverflowEvents, Accept
  <2>2. 0 \in Nat /\ "error" \in PacketKinds
    BY DEF PacketKinds
  <2>4. x \in Packet /\ x.id = Len(made) + 1 /\ x.kind = "error"
    BY <1>4, <2>2
  <2> HIDE DEF x
  <2>5. Replies' = Replies /\ Events' = Events /\ HeldInv'
    BY <1>5, <2>1, <2>2, <2>4
  <2> QED  BY <1>2, <2>1, <2>5 DEF ReplyBudgetInv, EventBudgetInv, Weighs
<1> QED  BY <1>6, <1>7, <1>8

(* A watermark is neither a reply nor an event.                            *)
LEMMA EnqueueBudget ==
  ASSUME IInv, BudgetInv, EnqueueReadyWorkWatermark
  PROVE  EventBudgetInv' /\ ReplyBudgetInv' /\ HeldInv'
<1> DEFINE s == Min({t \in DOMAIN marks : WorkWatermarkReady(t)})
           base == Tracked(pub, "watermark", NoPage, 0)
           x == [base EXCEPT !.barrier = marks[s].barrier, !.through = marks[s].through]
<1>1. /\ wpc = "enqueue" /\ control' = <<x>> \o control /\ made' = Append(made, "watermark")
      /\ UNCHANGED <<eventCount, eventBytes, replyBytes, credits, wpc, packet>>
  BY DEF EnqueueReadyWorkWatermark, threadVars, countVars, Accept
<1>2. x \in Packet /\ x.id = Len(made) + 1 /\ x.kind = "watermark"
  <2>1. s \in DOMAIN marks
    <3> DEFINE ready == {t \in DOMAIN marks : WorkWatermarkReady(t)}
    <3>0. \A t \in DOMAIN marks : t \in Nat
      BY DEF IInv, TypeInv
    <3>1. ready # {} /\ \A t \in ready : t \in Nat
      BY <3>0 DEF EnqueueReadyWorkWatermark
    <3> HIDE DEF ready
    <3>2. Min(ready) \in ready
      BY <3>1, MinIsMember
    <3> QED  BY <3>2 DEF ready
  <2> HIDE DEF s
  <2>2. marks[s].through \in Nat /\ marks[s].barrier \in 0 .. MaxNonce
    <3>1. marks[s] \in Mark
      BY <2>1 DEF IInv, TypeInv
    <3>2. MaxNonce \in Nat
      BY PublicationAssumption
    <3>3. marks[s].through \in Nat /\ marks[s].barrier \in 1 .. MaxNonce
      BY ONLY <3>1 DEF Mark
    <3> QED  BY ONLY <3>2, <3>3
  <2>3. pub \in Ledger /\ Len(made) \in Nat /\ "watermark" \in PacketKinds /\ NoPage \in Pages \cup {NoPage} /\ 0 \in Nat
    BY PendingParts DEF IInv, TypeInv, PacketKinds
  <2>4. base \in Packet /\ base.id = Len(made) + 1 /\ base.kind = "watermark"
    <3>1. base = Tracked(pub, "watermark", NoPage, 0)
      OBVIOUS
    <3> HIDE DEF base
    <3>2. Built(base, pub, "watermark", NoPage, 0)
      BY ONLY <2>3, <3>1, TrackedIs
    <3> QED  BY <3>2 DEF Built
  <2> HIDE DEF base
  <2>5. x \in Packet
    BY ONLY <2>2, <2>4 DEF Packet, x
  <2>6. x.id = base.id /\ x.kind = base.kind
    BY ONLY <2>4 DEF Packet, x
  <2> QED  BY ONLY <2>4, <2>5, <2>6
<1> HIDE DEF x
<1>3. HeldInv /\ EventBudgetInv /\ ReplyBudgetInv
  BY DEF BudgetInv
<1>4. Events' = Events /\ Replies' = Replies /\ \A p \in ToSet(control') : p.id # packet'.id
  BY <1>1, <1>2, <1>3, EntersControl
<1>5. HeldInv'
  <2>1. Len(made) \in Nat /\ Len(made') = Len(made) + 1
    BY <1>1, PendingParts DEF IInv, TypeInv
  <2>2. Len(made') \in Nat /\ Len(made) <= Len(made')
    BY <2>1
  <2> QED  BY <1>1, <1>3, <1>4, <2>2, HeldStep
<1> QED  BY <1>1, <1>3, <1>4, <1>5 DEF ReplyBudgetInv, EventBudgetInv, Weighs

(* An event leaves control_ with its count and bytes; a reply keeps its    *)
(* credit while it is written.                                             *)
LEMMA TakeBudget ==
  ASSUME IInv, BudgetInv, TakePacket
  PROVE  EventBudgetInv' /\ ReplyBudgetInv' /\ HeldInv'
<1> DEFINE from == FrontPacket
<1>1. /\ wpc = "enqueue" /\ wpc' = "write" /\ packet' = from /\ UNCHANGED <<replyBytes, credits, made>>
      /\ eventCount' = (IF from.kind = "event" THEN eventCount - 1 ELSE eventCount)
      /\ eventBytes' = (IF from.kind = "event" THEN eventBytes - from.size ELSE eventBytes)
  BY DEF TakePacket, FrontPacket
<1>2. /\ from \in Packet /\ from.id \in 1 .. Len(made) /\ ToSet(control') = ToSet(control) \ {from}
      /\ (from \in ToSet(control) <=> from.kind \notin {"frame", "audio"})
      /\ \A p \in ToSet(control') : p.id # from.id
  BY TakeQueues
<1> HIDE DEF from
<1>3. packet = NoPacket /\ NoPacket.kind = "error"
  BY <1>1 DEF BudgetInv, HeldInv, NoPacket
<1>4. /\ Weighs(Events, eventCount, eventBytes) /\ eventCount <= EventCap /\ eventBytes <= EventBudget
      /\ ReplyBudgetInv
  BY DEF BudgetInv, EventBudgetInv
<1>5. Replies' = Replies
  <2>1. Replies' = {p \in (ToSet(control) \ {from}) \cup {from} : p.kind = "reply"}
    BY <1>1, <1>2 DEF Replies
  <2>2. Replies = {p \in ToSet(control) \cup {NoPacket} : p.kind = "reply"}
    BY <1>3 DEF Replies
  <2> QED  BY <1>2, <1>3, <2>1, <2>2
<1>6. ReplyBudgetInv'
  BY <1>1, <1>4, <1>5 DEF ReplyBudgetInv, Weighs
<1>7. EventBudgetInv'
  <2>1. Events' = Events \ {from}
    BY <1>2 DEF Events
  <2>2. CASE from.kind = "event"
    <3>1. from \in Events
      BY <1>2, <2>2 DEF Events
    <3>2. Weighs(Events \ {from}, eventCount - 1, eventBytes - from.size) /\ from.size \in Nat
      BY <1>4, <3>1, WeighsWithout
    <3>3. Weighs(Events', eventCount', eventBytes')
      BY <1>1, <2>1, <2>2, <3>2
    <3>4. eventCount' = eventCount - 1 /\ eventBytes' = eventBytes - from.size
      BY <1>1, <2>2
    <3>5. eventCount \in Nat /\ eventBytes \in Nat /\ EventCap \in Nat /\ EventBudget \in Nat
      BY <1>4, WriterAssumption DEF Weighs
    <3>6. eventCount' <= EventCap /\ eventBytes' <= EventBudget
      BY <1>4, <3>2, <3>4, <3>5
    <3> QED  BY <3>3, <3>6 DEF EventBudgetInv, Weighs
  <2>3. CASE from.kind # "event"
    <3>1. Events' = Events
      BY <2>1, <2>3 DEF Events
    <3> QED  BY <1>1, <1>4, <2>3, <3>1 DEF EventBudgetInv, Weighs
  <2> QED  BY <2>2, <2>3
<1>8. HeldInv'
  <2>1. packet'.id \in 0 .. Len(made')
    BY <1>1, <1>2
  <2> QED  BY <1>1, <1>2, <2>1 DEF HeldInv
<1> QED  BY <1>6, <1>7, <1>8

(* A written reply gives its bytes and its credit back.                    *)
LEMMA SettleBudget ==
  ASSUME IInv, BudgetInv, SettlePacket
  PROVE  EventBudgetInv' /\ ReplyBudgetInv' /\ HeldInv'
<1>1. /\ packet' = NoPacket /\ wpc' = "check" /\ UNCHANGED <<control, eventCount, eventBytes, made>>
      /\ replyBytes' = (IF packet.kind = "reply" THEN replyBytes - packet.size ELSE replyBytes)
      /\ credits' = (IF packet.kind = "reply" THEN credits - 1 ELSE credits)
  BY DEF SettlePacket, queueVars
<1>2. /\ Weighs(Replies, credits, replyBytes) /\ credits <= CreditCap /\ replyBytes <= ReplyBudget
      /\ EventBudgetInv
  BY DEF BudgetInv, ReplyBudgetInv
<1>3. /\ NoPacket.kind = "error" /\ NoPacket.id = 0
      /\ \A p \in ToSet(control) : p.id # packet.id /\ p.id # 0
  <2>1. \A p \in ToSet(control) : p.id \in 1 .. Len(made)
    BY PendingParts DEF Queued
  <2>2. Len(made) \in Nat
    BY PendingParts
  <2>3. \A p \in ToSet(control) : p.id # 0
    BY ONLY <2>1, <2>2
  <2> QED  BY <2>3 DEF NoPacket, BudgetInv, HeldInv
<1>4. EventBudgetInv'
  BY <1>1, <1>2 DEF EventBudgetInv, Events, Weighs
<1>5. ReplyBudgetInv'
  <2>1. Replies' = {p \in ToSet(control) \cup {NoPacket} : p.kind = "reply"}
    BY <1>1 DEF Replies
  <2>2. packet \notin ToSet(control)
    BY <1>3
  <2>3. CASE packet.kind = "reply"
    <3>1. packet \in Replies /\ Replies' = Replies \ {packet}
      BY <1>3, <2>1, <2>2, <2>3 DEF Replies
    <3>2. Weighs(Replies \ {packet}, credits - 1, replyBytes - packet.size) /\ packet.size \in Nat
      BY <1>2, <3>1, WeighsWithout
    <3>3. Weighs(Replies', credits', replyBytes')
      BY <1>1, <2>3, <3>1, <3>2
    <3>4. credits' = credits - 1 /\ replyBytes' = replyBytes - packet.size
      BY <1>1, <2>3
    <3>5. credits \in Nat /\ replyBytes \in Nat /\ CreditCap \in Nat /\ ReplyBudget \in Nat
      BY <1>2, WriterAssumption DEF Weighs
    <3>6. credits' <= CreditCap /\ replyBytes' <= ReplyBudget
      BY <1>2, <3>2, <3>4, <3>5
    <3> QED  BY <3>3, <3>6 DEF ReplyBudgetInv, Weighs
  <2>4. CASE packet.kind # "reply"
    <3>1. Replies' = Replies
      BY <1>3, <2>1, <2>4 DEF Replies
    <3> QED  BY <1>1, <1>2, <2>4, <3>1 DEF ReplyBudgetInv, Weighs
  <2> QED  BY <2>3, <2>4
<1>6. HeldInv'
  <2>1. packet'.id \in 0 .. Len(made')
    BY <1>1, <1>3, PendingParts
  <2> QED  BY <1>1, <1>3, <2>1 DEF HeldInv
<1> QED  BY <1>4, <1>5, <1>6

(* What leaves control_, the thread's packet and the counters alone.       *)
LEMMA OtherBudget ==
  ASSUME IInv, BudgetInv,
         UNCHANGED <<control, packet, eventCount, eventBytes, replyBytes, credits>>,
         made' = made \/ \E kind \in PacketKinds : made' = Append(made, kind),
         wpc' = wpc \/ wpc \in {"check", "evaluated", "asleep", "enqueue"} \/ wpc' \in {"write", "written", "settle", "done"}
  PROVE  EventBudgetInv' /\ ReplyBudgetInv' /\ HeldInv'
<1>1. EventBudgetInv /\ ReplyBudgetInv /\ HeldInv
  BY DEF BudgetInv
<1>2. EventBudgetInv' /\ ReplyBudgetInv'
  BY <1>1 DEF EventBudgetInv, ReplyBudgetInv, Events, Replies, Weighs
<1>3. \A p \in ToSet(control') : p.id # packet'.id
  BY <1>1 DEF HeldInv
<1>4. Len(made') \in Nat /\ Len(made) <= Len(made')
  <2>1. made \in Seq(PacketKinds) /\ Len(made) \in Nat
    BY PendingParts DEF IInv, TypeInv
  <2>2. Len(made') = Len(made) \/ Len(made') = Len(made) + 1
    BY <2>1
  <2> QED  BY ONLY <2>1, <2>2
<1>5. HeldInv'
  BY <1>1, <1>3, <1>4, HeldStep
<1> QED  BY <1>2, <1>5

(* The packets that producers drop were queued.                            *)
LEMMA DroppedIds ==
  ASSUME IInv, gone \subseteq Nat,
         \/ \E page \in Pages : DropPage(page) \/ \E size \in FrameSizes : SendFrame(page, size)
         \/ \E page \in AudioPages : SendAudio(page)
         \/ gone' = gone
  PROVE  gone' \subseteq Nat
<1>0. gone \subseteq Nat
  OBVIOUS
<1>1. \A p \in ToSet(audio) \cup QueuedFrames : p.id \in Nat
  <2>1. \A p \in Queued : p.id \in 1 .. Len(made)
    BY PendingParts
  <2>2. Len(made) \in Nat
    BY PendingParts
  <2>3. \A p \in Queued : p.id \in Nat
    BY ONLY <2>1, <2>2
  <2> QED  BY <2>3 DEF Queued
<1>2. audio \in Seq(Packet) /\ DOMAIN audio = 1 .. Len(audio)
  BY LenProperties DEF IInv, TypeInv
<1>3. \A i \in DOMAIN audio : audio[i] \in ToSet(audio)
  BY <1>2, ToSetElements
<1>5. ASSUME NEW page \in Pages, DropPage(page) PROVE gone' \subseteq Nat
  <2> DEFINE D == {audio[i] : i \in DOMAIN audio \ {j \in DOMAIN audio : audio[j].page # page}} \cup FrameOf(page)
  <2>1. gone' = gone \cup {p.id : p \in D}
    BY <1>5 DEF DropPage
  <2>2. \A p \in D : p \in ToSet(audio) \cup QueuedFrames
    BY <1>3 DEF FrameOf, QueuedFrames
  <2> HIDE DEF D
  <2>3. \A p \in D : p.id \in Nat
    BY <1>1, <2>2
  <2> QED  BY ONLY <1>0, <2>1, <2>3
<1>6. ASSUME NEW page \in Pages, NEW size \in FrameSizes, SendFrame(page, size) PROVE gone' \subseteq Nat
  <2> DEFINE order == IF page \in DOMAIN frames THEN frameOrder ELSE Append(frameOrder, page)
             m == PopsNeeded(page, size, order)
             evicted == (DOMAIN frames \cap Popped(order, m)) \ {page}
             D == {frames[p] : p \in DOMAIN frames \cap {page}} \cup {frames[p] : p \in evicted}
  <2>1. gone' = gone \cup {p.id : p \in D}
    BY <1>6 DEF SendFrame
  <2>2. \A p \in D : p \in ToSet(audio) \cup QueuedFrames
    <3>1. evicted \in SUBSET DOMAIN frames
      OBVIOUS
    <3> HIDE DEF evicted
    <3> QED  BY <3>1 DEF QueuedFrames
  <2> HIDE DEF D
  <2>3. \A p \in D : p.id \in Nat
    BY <1>1, <2>2
  <2> QED  BY ONLY <1>0, <2>1, <2>3
<1>7. ASSUME NEW page \in AudioPages, SendAudio(page) PROVE gone' \subseteq Nat
  <2> DEFINE D == IF Len(audio) >= AudioCap THEN {Head(audio)} ELSE {}
  <2>1. gone' = gone \cup {p.id : p \in D}
    BY <1>7 DEF SendAudio
  <2>2. \A p \in D : p \in ToSet(audio) \cup QueuedFrames
    <3>1. CASE Len(audio) >= AudioCap
      <4>1. Len(audio) \in Nat /\ AudioCap \in Nat /\ AudioCap > 0
        BY <1>2, WriterAssumption, LenProperties
      <4>2. 1 \in 1 .. Len(audio)
        BY <3>1, <4>1
      <4>3. Head(audio) \in ToSet(audio)
        BY <1>2, <1>3, <4>2
      <4> QED  BY <4>3
    <3> QED  BY <3>1
  <2> HIDE DEF D
  <2>3. \A p \in D : p.id \in Nat
    BY <1>1, <2>2
  <2> QED  BY ONLY <1>0, <2>1, <2>3
<1> QED  BY <1>5, <1>6, <1>7

(* Where the thread and Stop are, the flags, and who was dropped.          *)
LEMMA ThreadStep ==
  ASSUME IInv, ThreadInv, [Next]_vars
  PROVE  ThreadInv'
<1> DEFINE Still ==
             /\ wpc' \in {"check", "evaluated", "asleep", "enqueue", "write", "written", "settle", "done", "crashed"}
             /\ spc' \in {"run", "flag", "notify", "join", "joined"}
             /\ eventFailed' \in BOOLEAN /\ readerPoisoned' \in BOOLEAN
             /\ stopping' \in BOOLEAN /\ locked' \in BOOLEAN /\ gone' = gone
<1>1. gone \subseteq Nat
  BY DEF ThreadInv
<1>2. ASSUME Still PROVE ThreadInv'
  BY <1>1, <1>2 DEF ThreadInv
<1>3. ASSUME Notify, gone' \subseteq Nat, eventFailed' = eventFailed \/ eventFailed' = TRUE,
             UNCHANGED <<spc, readerPoisoned, stopping, locked>>
      PROVE  ThreadInv'
  BY <1>3 DEF Notify, ThreadInv
<1>4. CASE Producers
  <2>1. ASSUME NEW page \in Pages, DropPage(page) PROVE ThreadInv'
    <3>1. gone' \subseteq Nat
      BY <1>1, <2>1, DroppedIds
    <3> QED  BY <2>1, <3>1 DEF DropPage, ThreadInv, threadVars, stopVars, markVars
  <2>2. ASSUME NEW page \in Pages, NEW size \in FrameSizes, SendFrame(page, size) PROVE ThreadInv'
    <3>1. gone' \subseteq Nat
      BY <1>1, <2>2, DroppedIds
    <3> QED  BY <1>3, <2>2, <3>1 DEF SendFrame, stopVars, markVars
  <2>3. ASSUME NEW page \in AudioPages, SendAudio(page) PROVE ThreadInv'
    <3>1. gone' \subseteq Nat
      BY <1>1, <2>3, DroppedIds
    <3>2. Notify /\ eventFailed' = eventFailed /\ UNCHANGED <<spc, readerPoisoned, stopping, locked>>
      BY <2>3 DEF SendAudio, stopVars, markVars, countVars
    <3> QED  BY <1>3, <3>1, <3>2
  <2>4. ASSUME NEW size \in ReplySizes, SendReply(size) PROVE ThreadInv'
    BY <1>1, <1>3, <2>4 DEF SendReply, stopVars, markVars
  <2>5. ASSUME NEW size \in EventSizes, OverflowEvents(size) \/ PublishEvent(size) PROVE ThreadInv'
    BY <1>1, <1>3, <2>5 DEF OverflowEvents, PublishEvent, stopVars, markVars
  <2> QED  BY <1>4, <2>1, <2>2, <2>3, <2>4, <2>5 DEF Producers
<1>5. CASE Engine
  BY <1>2, <1>5 DEF ThreadInv, Engine, QueueWorkWatermark, ReaderPoisoned, RetireWorkWatermark, Notify, countVars, threadVars, stopVars, markVars
<1>6. CASE WriterThread \/ WorkChanged
  <2>1. CASE CheckQueues \/ Sleep \/ WorkChanged \/ EnqueueReadyWorkWatermark
    BY <1>2, <2>1 DEF ThreadInv, CheckQueues, Sleep, WorkChanged, EnqueueReadyWorkWatermark,
                      countVars, threadVars, stopVars, markVars
  <2>2. CASE TakePacket
    <3>1. /\ wpc' = "write" /\ locked' = FALSE
          /\ UNCHANGED <<eventFailed, readerPoisoned, spc, stopping, gone>>
      BY <2>2 DEF TakePacket, stopVars, markVars
    <3> QED  BY <1>2, <3>1 DEF ThreadInv
  <2>3. CASE TakeFromEmpty \/ WriteSome \/ WriteFails \/ WriteEnds \/ SettlePacket
    BY <1>2, <2>3 DEF ThreadInv, TakeFromEmpty, WriteSome, WriteFails, WriteEnds, SettlePacket,
                      countVars, stopVars, markVars
  <2> QED  BY <1>6, <2>1, <2>2, <2>3 DEF WriterThread
<1>7. CASE Stop
  BY <1>2, <1>7 DEF ThreadInv, Stop, StopPoison, StopFlag, StopNotify, StopJoin, Notify, countVars, threadVars, markVars
<1>8. CASE UNCHANGED vars
  BY <1>2, <1>8 DEF ThreadInv, vars, countVars, threadVars, stopVars
<1> QED  BY <1>4, <1>5, <1>6, <1>7, <1>8 DEF Next

(* The budgets hold at start and whatever step the Writer takes.           *)
LEMMA InitBudget ==
  Init => BudgetInv
<1> SUFFICES ASSUME Init PROVE BudgetInv
  OBVIOUS
<1>1. /\ control = <<>> /\ packet = NoPacket /\ QueuedFrames = {} /\ made = <<>> /\ gone = {}
      /\ frameBytes = 0 /\ eventCount = 0 /\ eventBytes = 0 /\ replyBytes = 0 /\ credits = 0
      /\ wpc = "check" /\ spc = "run" /\ eventFailed = FALSE /\ readerPoisoned = FALSE /\ stopping = FALSE /\ locked = FALSE
  BY DEF Init, QueuedFrames
<1>2. ToSet(control) = {} /\ Len(made) = 0
  BY <1>1 DEF ToSet
<1>3. Events = {} /\ Replies = {}
  BY <1>1, <1>2 DEF Events, Replies, NoPacket
<1>4. Weighs({}, 0, 0)
  <2>1. Sized({}) /\ Cardinality({}) = 0
    BY FS_EmptySet DEF Sized
  <2> QED  BY <2>1, SumSmall DEF Weighs
<1>5. \A c \in {FrameBudget, EventCap, EventBudget, ReplyBudget, CreditCap} : c \in Nat /\ 0 <= c
  BY WriterAssumption
<1>6. FrameBudgetInv
  BY <1>1, <1>5, SumSmall DEF FrameBudgetInv
<1>7. EventBudgetInv /\ ReplyBudgetInv
  BY <1>1, <1>3, <1>4, <1>5 DEF EventBudgetInv, ReplyBudgetInv
<1>8. HeldInv /\ ThreadInv
  <2>1. packet.id = 0 /\ packet.id \in 0 .. Len(made)
    BY <1>1, <1>2 DEF NoPacket
  <2>2. HeldInv
    BY <1>1, <1>2, <2>1 DEF HeldInv
  <2> QED  BY <1>1, <2>2 DEF ThreadInv
<1> QED  BY <1>6, <1>7, <1>8 DEF BudgetInv

LEMMA BudgetStep ==
  ASSUME IInv, BudgetInv, [Next]_vars
  PROVE  BudgetInv'
<1>1. ThreadInv'
  BY ThreadStep DEF BudgetInv
<1>2. FrameBudgetInv
  BY DEF BudgetInv
<1>3. ASSUME FrameBudgetInv', EventBudgetInv', ReplyBudgetInv', HeldInv' PROVE BudgetInv'
  BY <1>1, <1>3 DEF BudgetInv
<1>4. ASSUME UNCHANGED <<control, packet, eventCount, eventBytes, replyBytes, credits>>,
             made' = made \/ \E kind \in PacketKinds : made' = Append(made, kind),
             wpc' = wpc \/ wpc \in {"check", "evaluated", "asleep", "enqueue"} \/ wpc' \in {"write", "written", "settle", "done"},
             FrameBudgetInv'
      PROVE  BudgetInv'
  BY <1>3, <1>4, OtherBudget
<1>5. "frame" \in PacketKinds /\ "audio" \in PacketKinds
  BY DEF PacketKinds
<1>6. CASE Producers
  <2>1. ASSUME NEW page \in Pages, DropPage(page) PROVE BudgetInv'
    <3>1. FrameBudgetInv'
      BY <1>2, <2>1, FrameBudgetStep
    <3>2. UNCHANGED <<control, packet, eventCount, eventBytes, replyBytes, credits, made, wpc>>
      BY <2>1 DEF DropPage, threadVars
    <3> QED  BY <1>4, <3>1, <3>2
  <2>2. ASSUME NEW page \in Pages, NEW size \in FrameSizes, SendFrame(page, size) PROVE BudgetInv'
    <3>1. FrameBudgetInv'
      BY <1>2, <2>2, SendFrameBudget
    <3>2. UNCHANGED <<control, packet, eventCount, eventBytes, replyBytes, credits>>
          /\ made' = Append(made, "frame") /\ Notify
      BY <2>2 DEF SendFrame, Accept
    <3>3. wpc' = wpc \/ wpc \in {"check", "evaluated", "asleep", "enqueue"}
      BY <3>2 DEF Notify
    <3> QED  BY <1>4, <1>5, <3>1, <3>2, <3>3
  <2>3. ASSUME NEW page \in AudioPages, SendAudio(page) PROVE BudgetInv'
    <3>1. UNCHANGED <<frames, frameBytes>>
      BY <2>3 DEF SendAudio, countVars
    <3>2. UNCHANGED <<control, packet, eventCount, eventBytes, replyBytes, credits>>
          /\ made' = Append(made, "audio") /\ Notify
      BY <2>3 DEF SendAudio, Accept, countVars
    <3>3. wpc' = wpc \/ wpc \in {"check", "evaluated", "asleep", "enqueue"}
      BY <3>2 DEF Notify
    <3>4. FrameBudgetInv'
      BY <1>2, <3>1, FrameBudgetStep
    <3> QED  BY <1>4, <1>5, <3>2, <3>3, <3>4
  <2>4. ASSUME \/ \E size \in ReplySizes : SendReply(size)
               \/ \E size \in EventSizes : OverflowEvents(size) \/ PublishEvent(size)
        PROVE  BudgetInv'
    <3>1. UNCHANGED <<frames, frameBytes>>
      BY <2>4 DEF SendReply, OverflowEvents, PublishEvent
    <3>2. FrameBudgetInv'
      BY <1>2, <3>1, FrameBudgetStep
    <3> QED  BY <1>3, <2>4, <3>2, ControlBudget
  <2> QED  BY <1>6, <2>1, <2>2, <2>3, <2>4 DEF Producers
<1>7. CASE TakePacket
  BY <1>2, <1>3, <1>7, TakeBudget, FrameBudgetStep
<1>8. ASSUME UNCHANGED <<frames, frameBytes>>, SettlePacket \/ EnqueueReadyWorkWatermark PROVE BudgetInv'
  <2>1. FrameBudgetInv'
    BY <1>2, <1>8, FrameBudgetStep
  <2> QED  BY <1>3, <1>8, <2>1, SettleBudget, EnqueueBudget
<1>9. CASE SettlePacket \/ EnqueueReadyWorkWatermark
  <2>1. UNCHANGED <<frames, frameBytes>>
    BY <1>9 DEF SettlePacket, EnqueueReadyWorkWatermark, queueVars, countVars
  <2> QED  BY <1>8, <1>9, <2>1
<1>10. ASSUME UNCHANGED <<frames, frameBytes, control, packet, eventCount, eventBytes, replyBytes, credits, made>>,
              wpc' = wpc \/ wpc \in {"check", "evaluated", "asleep", "enqueue"} \/ wpc' \in {"write", "written", "settle", "done"}
       PROVE  BudgetInv'
  <2>1. FrameBudgetInv'
    BY <1>2, <1>10, FrameBudgetStep
  <2> QED  BY <1>4, <1>10, <2>1
<1>11. CASE Engine
  <2>1. UNCHANGED <<frames, frameBytes, control, packet, eventCount, eventBytes, replyBytes, credits, made>>
        /\ (wpc' = wpc \/ wpc = "asleep")
    BY <1>11 DEF Engine, QueueWorkWatermark, ReaderPoisoned, RetireWorkWatermark, Notify, countVars, threadVars, queueVars
  <2> QED  BY <1>10, <2>1
<1>12. CASE CheckQueues \/ Sleep \/ WorkChanged \/ TakeFromEmpty \/ WriteSome \/ WriteFails \/ WriteEnds
  <2>1. UNCHANGED <<frames, frameBytes, control, packet, eventCount, eventBytes, replyBytes, credits, made>>
    BY <1>12 DEF CheckQueues, Sleep, WorkChanged, TakeFromEmpty, WriteSome, WriteFails, WriteEnds, countVars, queueVars
  <2>2. wpc' = wpc \/ wpc \in {"check", "evaluated", "asleep", "enqueue"} \/ wpc' \in {"write", "written", "settle", "done"}
    BY <1>12 DEF CheckQueues, Sleep, WorkChanged, TakeFromEmpty, WriteSome, WriteFails, WriteEnds
  <2> QED  BY <1>10, <2>1, <2>2
<1>13. CASE Stop \/ UNCHANGED vars
  <2>1. UNCHANGED <<frames, frameBytes, control, packet, eventCount, eventBytes, replyBytes, credits, made>>
        /\ (wpc' = wpc \/ wpc = "asleep")
    BY <1>13 DEF Stop, StopPoison, StopFlag, StopNotify, StopJoin, Notify, vars, countVars, threadVars, queueVars
  <2> QED  BY <1>10, <2>1
<1> QED  BY <1>6, <1>7, <1>9, <1>11, <1>12, <1>13 DEF Next, WriterThread

-----------------------------------------------------------------------------
(* The theorems.                                                           *)

(* The invariant holds in every state of the Writer.                       *)
THEOREM IInvHolds == Spec => []IInv
<1>1. Init => IInv
  BY InitIInv
<1>2. IInv /\ [Next]_vars => IInv'
  <2> SUFFICES ASSUME IInv, [Next]_vars PROVE IInv'
    OBVIOUS
  <2>1. CASE Producers
    BY <2>1, DropPagePreserves, SendFramePreserves, SendAudioPreserves, ControlPreserves DEF Producers
  <2>2. CASE QueueWorkWatermark
    BY <2>2, QueueWorkWatermarkPreserves
  <2>3. CASE EnqueueReadyWorkWatermark
    BY <2>3, EnqueuePreserves
  <2>4. CASE TakePacket
    BY <2>4, TakePacketPreserves
  <2>5. CASE WriteFails
    BY <2>5, WriteFailsPreserves
  <2>6. CASE WriteEnds
    BY <2>6, WriteEndsPreserves
  <2>7. CASE QuietAction
    BY <2>7, QuietPreserves
  <2> QED  BY <2>1, <2>2, <2>3, <2>4, <2>5, <2>6, <2>7 DEF Next, Engine, WriterThread, QuietAction
<1> QED  BY <1>1, <1>2, PTL DEF Spec

(* A watermark on stdout never runs ahead of a packet accepted before it,  *)
(* for any number of pages, packets and watermarks.                        *)
THEOREM WatermarksAreTruthful == Spec => []WatermarkSound
<1>1. IInv => WatermarkSound
  BY DEF IInv
<1> QED  BY <1>1, IInvHolds, PTL

(* Replies and events reach stdout in the order the Writer accepted them.  *)
THEOREM ControlStaysInOrder == Spec => []ControlInOrder
<1>1. IInv => ControlInOrder
  <2> SUFFICES ASSUME IInv PROVE ControlInOrder
    OBVIOUS
  <2>1. Sorted(wire) /\ DOMAIN wire = 1 .. Len(wire)
    BY LenProperties DEF IInv, WireInv, TypeInv
  <2> QED  BY <2>1 DEF ControlInOrder, Sorted, InOrder
<1> QED  BY <1>1, IInvHolds, PTL

(* The thread reads an empty queue only after a ledger was poisoned.       *)
THEOREM EmptyTakesArePoisoned == Spec => []TakesOnlyQueuedPackets
<1>1. IInv => TakesOnlyQueuedPackets
  BY DEF IInv, TakeInv, TakesOnlyQueuedPackets, Poisoned
<1> QED  BY <1>1, IInvHolds, PTL

(* Unless it is poisoned, the publication ledger counts exactly the        *)
(* packets that wait or are being written, and no reply, event, error or   *)
(* watermark is lost (the ledger part of QueuesSound).                     *)
THEOREM LedgerIsTruthful == Spec => []LedgerMatchesQueues
<1>1. IInv => LedgerMatchesQueues
  <2> SUFFICES ASSUME IInv, ~pub.poisoned
               PROVE  /\ Active(pub) = {p.ticket : p \in Pending}
                      /\ \A id \in DOMAIN made :
                           \/ id \in {p.id : p \in Pending} \/ id \in Ids(wire)
                           \/ id \in gone /\ made[id] \in {"frame", "audio"}
    BY DEF LedgerMatchesQueues
  <2>1. /\ pub.next = Len(made)
        /\ \A p \in Pending : p.ticket = p.id
        /\ \A t \in Tickets : pub.rows[t].active <=> \E p \in Pending : p.ticket = t
        /\ \A id \in 1 .. Len(made) : (\E p \in Pending : p.id = id) \/ Out(id, made, wire, gone)
    BY DEF IInv, PacketInv, Counted
  <2>2. \A p \in Pending : p.ticket \in Tickets
    <3>1. pub.next \in 0 .. MaxTicket /\ MaxTicket \in Nat
      BY PublicationAssumption DEF IInv, TypeInv, Ledger
    <3>2. \A p \in Pending : p.id \in 1 .. Len(made)
      BY DEF IInv, PacketInv, Known
    <3> QED  BY <2>1, <3>1, <3>2 DEF Tickets
  <2>3. Active(pub) = {p.ticket : p \in Pending}
    BY <2>1, <2>2 DEF Active
  <2>4. DOMAIN made = 1 .. Len(made) /\ DOMAIN wire = 1 .. Len(wire)
    BY LenProperties DEF IInv, TypeInv
  <2>5. ASSUME NEW id \in DOMAIN made
        PROVE  \/ id \in {p.id : p \in Pending} \/ id \in Ids(wire)
               \/ id \in gone /\ made[id] \in {"frame", "audio"}
    BY <2>1, <2>4 DEF Out, Ids
  <2> QED  BY <2>3, <2>5
<1> QED  BY <1>1, IInvHolds, PTL

(* The counters stay within their budgets and tell what the queues hold.   *)
THEOREM BudgetInvHolds == Spec => []BudgetInv
<1>1. Init => BudgetInv
  BY InitBudget
<1>2. IInv /\ BudgetInv /\ [Next]_vars => BudgetInv'
  BY BudgetStep
<1> QED  BY <1>1, <1>2, IInvHolds, PTL DEF Spec

(* No counter of the Writer falls below zero.                              *)
THEOREM TypesHold == Spec => []TypeOK
<1>1. IInv /\ BudgetInv => TypeOK
  <2> SUFFICES ASSUME IInv, BudgetInv PROVE TypeOK
    OBVIOUS
  <2>1. frameBytes \in Nat
    <3>1. SumSizes(QueuedFrames) \in Nat
      BY FramesSized, SumLess
    <3> QED  BY <3>1 DEF BudgetInv, FrameBudgetInv
  <2>2. eventCount \in Nat /\ eventBytes \in Nat /\ replyBytes \in Nat /\ credits \in Nat
    BY DEF BudgetInv, EventBudgetInv, ReplyBudgetInv, Weighs
  <2>3. ThreadInv
    BY DEF BudgetInv
  <2>4. TypeInv /\ QueueInv
    BY DEF IInv
  <2>5. QueuedFrames \subseteq Packet
    BY <2>4 DEF TypeInv, QueuedFrames
  <2>6. DOMAIN frames \subseteq Pages /\ DOMAIN marks \subseteq 1 .. MarkSlots /\ \A s \in DOMAIN marks : marks[s] \in Mark
    BY <2>4 DEF TypeInv, QueueInv
  <2> QED  BY <2>1, <2>2, <2>3, <2>4, <2>5, <2>6 DEF TypeOK, TypeInv, ThreadInv
<1> QED  BY <1>1, IInvHolds, BudgetInvHolds, PTL

(* The frame order, the budgets and the publication ledger describe the    *)
(* queues as they are.                                                     *)
THEOREM QueuesStaySound == Spec => []QueuesSound
<1>1. IInv /\ BudgetInv /\ LedgerMatchesQueues => QueuesSound
  <2> SUFFICES ASSUME IInv, BudgetInv, LedgerMatchesQueues PROVE QueuesSound
    OBVIOUS
  <2>1. FramesMatchOrder
    <3>1. frameBytes = SumSizes(QueuedFrames) /\ frameBytes <= FrameBudget
      BY DEF BudgetInv, FrameBudgetInv
    <3>2. \A p \in DOMAIN frames : frames[p].page = p
      BY DEF IInv, QueueInv
    <3>3. frameOrder \in Seq(Pages) /\ Lists(frameOrder, DOMAIN frames) /\ DOMAIN frameOrder = 1 .. Len(frameOrder)
      BY LenProperties DEF IInv, TypeInv, FrameInv
    <3>4. ToSet(frameOrder) = DOMAIN frames
      <4>1. \A x : x \in ToSet(frameOrder) <=> \E i \in 1 .. Len(frameOrder) : x = frameOrder[i]
        BY <3>3, ToSetElements
      <4>2. \A x : x \in DOMAIN frames <=> \E i \in 1 .. Len(frameOrder) : x = frameOrder[i]
        BY <3>3 DEF Lists
      <4> QED  BY ONLY <4>1, <4>2
    <3>5. IsInjective(frameOrder)
      BY <3>3 DEF IsInjective, Lists
    <3> QED  BY <3>1, <3>2, <3>4, <3>5 DEF FramesMatchOrder
  <2>2. BudgetsMatchQueues
    BY DEF BudgetInv, EventBudgetInv, ReplyBudgetInv, Weighs, BudgetsMatchQueues, Events, Replies
  <2> QED  BY <2>1, <2>2 DEF QueuesSound
<1> QED  BY <1>1, IInvHolds, BudgetInvHolds, LedgerIsTruthful, PTL
=============================================================================
