---------------------------- MODULE ReaderLedger ----------------------------
(***************************************************************************)
(* AcceptedReaderWork (native/browser/accepted_stream_work.h): the ledger  *)
(* of commands accepted from stdin.  Admit issues a ticket, the reader     *)
(* thread reports what CefPostTask returned, the UI thread reports entry   *)
(* into and return from Engine::Route, and the Engine takes cuts and asks  *)
(* whether every ticket up to a cut has really finished.                   *)
(*                                                                         *)
(* Every member function runs under the ledger's own mutex, so each is one *)
(* operator on the variables below; the threads that call them are in      *)
(* CommandIntake.  Ticket 0 stands for std::nullopt.                       *)
(*                                                                         *)
(* A definition named X_Y is X with the mistake Y in it: PROJECT.json says *)
(* which property notices it.                                              *)
(***************************************************************************)
EXTENDS Naturals, FiniteSets

CONSTANTS RowCap,    \* kPending: rows of the ledger
          MaxTicket, \* stands for UINT64_MAX of next_
          CutCap,    \* slots of cuts_
          MaxNonce   \* stands for UINT64_MAX of cut_sequence_

ASSUME LedgerAssumption == /\ RowCap \in Nat /\ MaxTicket \in Nat
                           /\ CutCap \in Nat /\ MaxNonce \in Nat

VARIABLES rows,     \* rows_, by ticket; a row that is not active is free
          next,     \* next_
          cuts,     \* cuts_: the issued cuts that are not released
          nonce,    \* cut_sequence_
          poisoned  \* poisoned_

ledgerVars == <<rows, next, cuts, nonce, poisoned>>

Tickets == 1 .. MaxTicket
Posts == {"no", "accepted", "refused", "uncertain"}
Row == [active : BOOLEAN, post : Posts, entered : BOOLEAN, returned : BOOLEAN]
CutOf == [nonce : 1 .. MaxNonce, sequence : 0 .. MaxTicket]

FreeRow == [active |-> FALSE, post |-> "no", entered |-> FALSE, returned |-> FALSE]

LedgerType ==
  /\ rows \in [Tickets -> Row]
  /\ next \in 0 .. MaxTicket
  /\ cuts \subseteq CutOf
  /\ nonce \in 0 .. MaxNonce
  /\ poisoned \in BOOLEAN

LedgerInit ==
  /\ rows = [t \in Tickets |-> FreeRow]
  /\ next = 0
  /\ cuts = {}
  /\ nonce = 0
  /\ poisoned = FALSE

Active == {t \in Tickets : rows[t].active}
Find(t) == t \in Active

(* Retire: the row is freed when the post call is over and either the task *)
(* can never run or it has returned.                                       *)
Retired_OnPost(r) == r.post # "no"
Retired(r) == r.post # "no" /\ ((r.post = "refused" /\ ~r.entered) \/ r.returned)
Retire(r) == [r EXCEPT !.active = ~Retired(r)]

Unsupported == poisoned' = TRUE /\ UNCHANGED <<rows, next, cuts, nonce>>

(* The ticket Admit would return now. *)
AdmitTicket ==
  IF next = MaxTicket \/ Cardinality(Active) = RowCap THEN 0 ELSE next + 1

Admit ==
  IF AdmitTicket = 0
  THEN Unsupported
  ELSE /\ next' = next + 1
       /\ rows' = [rows EXCEPT ![next + 1] = [FreeRow EXCEPT !.active = TRUE]]
       /\ UNCHANGED <<cuts, nonce, poisoned>>

(* PostingReturned as AcceptedPostReceipt::Returned calls it: a refused    *)
(* report poisons the ledger.                                              *)
PostingReturned(t, accepted) ==
  IF ~Find(t) \/ rows[t].post # "no"
  THEN Unsupported
  ELSE /\ rows' = [rows EXCEPT ![t] =
              Retire([@ EXCEPT !.post = IF accepted THEN "accepted" ELSE "refused"])]
       /\ poisoned' = (poisoned \/ (~accepted /\ rows[t].entered))
       /\ UNCHANGED <<next, cuts, nonce>>

(* The receipt ignores what NeverPosted and PostingUnwound answer. *)
NeverPosted(t) ==
  IF ~Find(t) \/ rows[t].post # "no" \/ rows[t].entered
  THEN UNCHANGED ledgerVars
  ELSE /\ rows' = [rows EXCEPT ![t] = Retire([@ EXCEPT !.post = "refused"])]
       /\ UNCHANGED <<next, cuts, nonce, poisoned>>

PostingUnwound_AsRefused(t) == NeverPosted(t)
PostingUnwound(t) ==
  IF ~Find(t) \/ rows[t].post # "no"
  THEN UNCHANGED ledgerVars
  ELSE /\ rows' = [rows EXCEPT ![t] = Retire([@ EXCEPT !.post = "uncertain"])]
       /\ poisoned' = TRUE
       /\ UNCHANGED <<next, cuts, nonce>>

(* Enter and Returned as AcceptedRouteFrame calls them. *)
Enter(t) ==
  IF ~Find(t) \/ rows[t].entered \/ rows[t].post = "refused"
  THEN Unsupported
  ELSE /\ rows' = [rows EXCEPT ![t].entered = TRUE]
       /\ UNCHANGED <<next, cuts, nonce, poisoned>>

Returned_NoRetire(t, unwound) ==
  IF ~Find(t) \/ ~rows[t].entered \/ rows[t].returned
  THEN Unsupported
  ELSE /\ rows' = [rows EXCEPT ![t].returned = TRUE]
       /\ poisoned' = (poisoned \/ unwound)
       /\ UNCHANGED <<next, cuts, nonce>>

Returned(t, unwound) ==
  IF ~Find(t) \/ ~rows[t].entered \/ rows[t].returned
  THEN Unsupported
  ELSE /\ rows' = [rows EXCEPT ![t] = Retire([@ EXCEPT !.returned = TRUE])]
       /\ poisoned' = (poisoned \/ unwound)
       /\ UNCHANGED <<next, cuts, nonce>>

CutRefused == nonce = MaxNonce \/ Cardinality(cuts) = CutCap

Cut ==
  IF CutRefused
  THEN Unsupported
  ELSE /\ nonce' = nonce + 1
       /\ cuts' = cuts \cup {[nonce |-> nonce + 1, sequence |-> next]}
       /\ UNCHANGED <<rows, next, poisoned>>

Through_WhenIdle(k) == ~poisoned /\ k \in cuts /\ Active = {}

Through(k) ==
  /\ ~poisoned
  /\ k \in cuts
  /\ \A t \in Active : t > k.sequence

ReleaseCut(k) == cuts' = cuts \ {k} /\ UNCHANGED <<rows, next, nonce, poisoned>>
=============================================================================
