-------------------------- MODULE PublicationLedger --------------------------
(***************************************************************************)
(* AcceptedWriterWork (native/browser/accepted_stream_work.h): the ledger  *)
(* of packets accepted for stdout, as AcceptedPacketReceipt drives it      *)
(* (accepted_packet_receipt.h: a report the ledger refuses poisons it).    *)
(* The ledger is a record and each member function an operator from ledger *)
(* to ledger, because Writer calls several of them in one critical         *)
(* section.  Byte counts are abstracted to none, part or all of a packet.  *)
(* Ticket 0 stands for std::nullopt; Admit returns it only when it poisons *)
(* the ledger, and a report on it then changes nothing.                    *)
(***************************************************************************)
EXTENDS Naturals, FiniteSets

CONSTANTS RowCap,    \* kPending: rows of the ledger
          MaxTicket, \* stands for UINT64_MAX of next_
          CutCap,    \* slots of cuts_
          MaxNonce   \* stands for UINT64_MAX of cut_sequence_

ASSUME PublicationAssumption == /\ RowCap \in Nat /\ MaxTicket \in Nat
                                /\ CutCap \in Nat /\ MaxNonce \in Nat

Tickets == 1 .. MaxTicket
Kinds == {"control", "event", "frame", "audio", "watermark"}
Row == [active : BOOLEAN, kind : Kinds, writing : BOOLEAN, written : {"none", "part", "all"}]
CutOf == [nonce : 1 .. MaxNonce, sequence : 0 .. MaxTicket]
Ledger == [rows : [Tickets -> Row], next : 0 .. MaxTicket, cuts : SUBSET CutOf,
           nonce : 0 .. MaxNonce, poisoned : BOOLEAN]

FreeRow == [active |-> FALSE, kind |-> "control", writing |-> FALSE, written |-> "none"]
NewLedger == [rows |-> [t \in Tickets |-> FreeRow], next |-> 0, cuts |-> {},
              nonce |-> 0, poisoned |-> FALSE]

Active(l) == {t \in Tickets : l.rows[t].active}
Unsupported(l) == [l EXCEPT !.poisoned = TRUE]

AdmitTicket(l) ==
  IF l.next = MaxTicket \/ Cardinality(Active(l)) = RowCap THEN 0 ELSE l.next + 1

Admit(l, kind) ==
  IF AdmitTicket(l) = 0
  THEN Unsupported(l)
  ELSE [l EXCEPT !.next = @ + 1,
                 !.rows[l.next + 1] = [FreeRow EXCEPT !.active = TRUE, !.kind = kind]]

(* A report on ticket t that the ledger accepts only when ok holds. *)
Report(l, t, ok, row) ==
  IF t \in Active(l) /\ ok THEN [l EXCEPT !.rows[t] = row] ELSE Unsupported(l)

RowAt(l, t) == IF t \in Tickets THEN l.rows[t] ELSE FreeRow

Dequeue(l, t) ==
  LET r == RowAt(l, t) IN Report(l, t, ~r.writing, [r EXCEPT !.writing = TRUE])

(* One positive result of writev; amount is "part" or "all" of the packet. *)
Wrote(l, t, amount) ==
  LET r == RowAt(l, t)
  IN Report(l, t, r.writing /\ r.written # "all", [r EXCEPT !.written = amount])

FullWritten(l, t) == t \in Active(l) /\ l.rows[t].writing /\ l.rows[t].written = "all"

FullWrite_KeepsRow(l, t) == Report(l, t, FullWritten(l, t), RowAt(l, t))
FullWrite(l, t) ==
  Report(l, t, FullWritten(l, t), [RowAt(l, t) EXCEPT !.active = FALSE])

DropAllowed(kind, reason) ==
  \/ kind = "frame" /\ reason \in {"FrameReplaced", "FrameBudget", "PageDropped"}
  \/ kind = "audio" /\ reason \in {"AudioBudget", "PageDropped"}

Droppable(l, t, reason) ==
  t \in Active(l) /\ ~l.rows[t].writing /\ DropAllowed(l.rows[t].kind, reason)

(* Dropped, for every ticket of a set. *)
Dropped(l, tickets, reason) ==
  [l EXCEPT !.poisoned = @ \/ \E t \in tickets : ~Droppable(l, t, reason),
            !.rows = [t \in Tickets |->
                       IF t \in tickets /\ Droppable(l, t, reason)
                       THEN [l.rows[t] EXCEPT !.active = FALSE] ELSE l.rows[t]]]

(* WriteFailed, then the receipt's destructor: AdmissionUnwound leaves the *)
(* row of a packet that was being written.                                 *)
WriteFailed(l, t) == Unsupported(l)

CutRefused(l) == l.nonce = MaxNonce \/ Cardinality(l.cuts) = CutCap
NextCut(l) == [nonce |-> l.nonce + 1, sequence |-> l.next]

Cut(l) ==
  IF CutRefused(l)
  THEN Unsupported(l)
  ELSE [l EXCEPT !.nonce = @ + 1, !.cuts = @ \cup {NextCut(l)}]

Through_OffByOne(l, k) ==
  ~l.poisoned /\ k \in l.cuts /\ \A t \in Active(l) : t >= k.sequence

Through(l, k) ==
  /\ ~l.poisoned
  /\ k \in l.cuts
  /\ \A t \in Active(l) : t > k.sequence

ReleaseCut(l, k) == [l EXCEPT !.cuts = @ \ {k}]
=============================================================================
