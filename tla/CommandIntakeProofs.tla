------------------------- MODULE CommandIntakeProofs -------------------------
(***************************************************************************)
(* What CommandIntake keeps for every number of commands, every capacity   *)
(* and every ledger size.  The inductive invariant IInv has four parts:    *)
(*   TypeInv    the types, without the ranges of the two counters;         *)
(*   ReaderInv  where the current line is, by the reader's program counter; *)
(*   RowsInv    while the ledger is not poisoned, each command's row says  *)
(*              what really happened to the command;                       *)
(*   CutsInv    the commands promised to a cut have tickets up to it;      *)
(* and, on top of them, the counters are the cardinalities of the sets     *)
(* they count.                                                             *)
(***************************************************************************)
EXTENDS CommandIntake, FiniteSetTheorems, TLAPS

TypeInv ==
  /\ LedgerType
  /\ sent \in 0 .. N /\ cur \in 0 .. N /\ cur <= sent /\ eof \in BOOLEAN
  /\ rpc \in {"read", "capacity", "admit", "reserve", "evaluated", "asleep",
              "post", "accepted", "declined", "exit", "done", "crashed"}
  /\ queued \in Int /\ stopped \in BOOLEAN
  /\ used \in Int /\ creditLock \in BOOLEAN
  /\ stage \in [Commands -> Stages]
  /\ ticket \in [Commands -> 0 .. MaxTicket]
  /\ reply \in [Commands -> Replies]
  /\ promised \in [1 .. MaxNonce -> SUBSET Commands]
  /\ uipc \in {"loop", "wake", "join", "joined"}
  /\ closeTask \in BOOLEAN /\ closing \in BOOLEAN /\ writing \in BOOLEAN

(* The lines after the current one have not been read, and the current one *)
(* is where the reader's program counter says.                             *)
ReaderInv ==
  /\ \A c \in Commands : c > cur => stage[c] = "unread"
  /\ rpc \notin {"read", "exit", "done", "crashed"} => cur \in Commands
  /\ rpc = "capacity" => stage[cur] = "unread"
  /\ rpc = "admit" => stage[cur] = "counted"
  /\ rpc \in {"reserve", "evaluated", "asleep"} => stage[cur] = "held"
  /\ rpc \in {"post", "declined"} => stage[cur] = "posting"
  /\ rpc = "accepted" => stage[cur] \in {"inqueue", "running", "routed"}
  /\ \A c \in Commands : /\ stage[c] \in {"unread", "counted", "held"} => reply[c] = "none"
                         /\ stage[c] \in {"posting", "inqueue"} => reply[c] = "owed"

(* The reader is still inside the CefPostTask of command c. *)
InPost(c) == c = cur /\ rpc \in {"post", "accepted", "declined"}

(* The row of a command that waits, runs, or was routed before its post    *)
(* call returned, says so.                                                 *)
RowTells(c) ==
  /\ rows[ticket[c]].active
  /\ rows[ticket[c]].post = IF InPost(c) \/ stage[c] = "held" THEN "no" ELSE "accepted"
  /\ rows[ticket[c]].entered <=> stage[c] \in {"running", "routed"}
  /\ rows[ticket[c]].returned <=> stage[c] = "routed"

RowsInv ==
  ~poisoned =>
    /\ \A c \in Commands : stage[c] \notin {"unread", "counted"} => ticket[c] \in 1 .. next
    /\ \A c, d \in Commands :
         /\ stage[c] \notin {"unread", "counted"} /\ stage[d] \notin {"unread", "counted"}
         /\ c # d
         => ticket[c] # ticket[d]
    /\ \A c \in Commands :
         stage[c] \in {"held", "posting", "inqueue", "running"} \/ InPost(c)
           => RowTells(c)

CutsInv ==
  /\ \A k \in cuts : k.nonce <= nonce /\ k.sequence <= next
  /\ ~poisoned => \A k \in cuts : \A c \in promised[k.nonce] :
       stage[c] \notin {"unread", "counted"} /\ ticket[c] <= k.sequence

Queued == {c \in Commands : stage[c] \in {"counted", "held", "posting", "inqueue"}}
Owing == {c \in Commands : reply[c] \in Outstanding}

IInv == TypeInv /\ ReaderInv /\ RowsInv /\ CutsInv

(***************************************************************************)
(* The ledger's operations.                                                *)
(***************************************************************************)

(* A step of the ledger: one of its operations, or none. *)
LedgerStep ==
  \/ Admit
  \/ \E t \in 0 .. MaxTicket, b \in BOOLEAN :
       PostingReturned(t, b) \/ NeverPosted(t) \/ PostingUnwound(t) \/ Enter(t) \/ Returned(t, b)
  \/ Cut
  \/ \E k \in cuts : ReleaseCut(k)
  \/ UNCHANGED ledgerVars

(* Retire keeps a row a row and touches nothing but its active flag. *)
LEMMA RetireRow ==
  ASSUME NEW r \in Row
  PROVE  /\ Retire(r) \in Row
         /\ Retire(r).active = ~Retired(r)
         /\ Retire(r).post = r.post
         /\ Retire(r).entered = r.entered
         /\ Retire(r).returned = r.returned
<1> DEFINE flag == ~Retired(r)
<1>1. flag \in BOOLEAN
  BY Zenon
<1>2. Retire(r) = [r EXCEPT !.active = flag]
  BY Zenon DEF Retire
<1> HIDE DEF flag
<1>3. /\ Retire(r) \in Row
      /\ Retire(r).active = flag
      /\ Retire(r).post = r.post
      /\ Retire(r).entered = r.entered
      /\ Retire(r).returned = r.returned
  BY <1>1, <1>2 DEF Row
<1> QED  BY <1>3, Zenon DEF flag

(* Every operation of AcceptedReaderWork keeps the ledger's types. *)
LEMMA LedgerStepType == LedgerType /\ LedgerStep => LedgerType'
<1> SUFFICES ASSUME LedgerType, LedgerStep PROVE LedgerType'
  OBVIOUS
<1> USE LedgerAssumption DEF LedgerType, Unsupported
<1>1. CASE Admit
  <2> DEFINE fresh == [FreeRow EXCEPT !.active = TRUE]
  <2>1. fresh \in Row
    BY DEF FreeRow, Row, Posts
  <2>2. CASE AdmitTicket = 0
    BY <1>1, <2>2 DEF Admit
  <2>3. CASE AdmitTicket # 0
    <3>1. next # MaxTicket
      BY <2>3 DEF AdmitTicket
    <3>2. /\ rows' = [rows EXCEPT ![next + 1] = fresh]
          /\ next' = next + 1 /\ UNCHANGED <<cuts, nonce, poisoned>>
      BY <1>1, <2>3 DEF Admit
    <3> HIDE DEF fresh
    <3>3. rows' \in [Tickets -> Row]
      BY <2>1, <3>2
    <3>4. next' \in 0 .. MaxTicket
      BY <3>1, <3>2
    <3> QED  BY <3>2, <3>3, <3>4
  <2> QED  BY <2>2, <2>3
<1>2. ASSUME NEW t \in 0 .. MaxTicket, NEW b \in BOOLEAN,
             PostingReturned(t, b) \/ NeverPosted(t) \/ PostingUnwound(t) \/ Enter(t) \/ Returned(t, b)
      PROVE  LedgerType'
  <2>1. CASE ~Find(t)
    BY <1>2, <2>1 DEF PostingReturned, NeverPosted, PostingUnwound, Enter, Returned, ledgerVars
  <2>2. CASE Find(t)
    <3>1. t \in Tickets /\ rows[t] \in Row
      BY <2>2 DEF Find, Active
    <3>2. \A p \in Posts : Retire([rows[t] EXCEPT !.post = p]) \in Row
      <4>1. \A p \in Posts : [rows[t] EXCEPT !.post = p] \in Row
        BY <3>1 DEF Row
      <4> QED  BY <4>1, RetireRow
    <3>3. Retire([rows[t] EXCEPT !.returned = TRUE]) \in Row
      <4>1. [rows[t] EXCEPT !.returned = TRUE] \in Row
        BY <3>1 DEF Row
      <4> QED  BY <4>1, RetireRow
    <3>4. [rows[t] EXCEPT !.entered = TRUE] \in Row
      BY <3>1 DEF Row
    <3>5. CASE PostingReturned(t, b)
      BY <3>1, <3>2, <3>5 DEF PostingReturned, Posts
    <3>6. CASE NeverPosted(t)
      BY <3>1, <3>2, <3>6 DEF NeverPosted, Posts, ledgerVars
    <3>7. CASE PostingUnwound(t)
      BY <3>1, <3>2, <3>7 DEF PostingUnwound, Posts, ledgerVars
    <3>8. CASE Enter(t)
      BY <3>1, <3>4, <3>8 DEF Enter
    <3>9. CASE Returned(t, b)
      BY <3>1, <3>3, <3>9 DEF Returned
    <3> QED  BY <1>2, <3>5, <3>6, <3>7, <3>8, <3>9
  <2> QED  BY <2>1, <2>2
<1>3. CASE Cut
  <2>1. CASE CutRefused
    BY <1>3, <2>1 DEF Cut
  <2>2. CASE ~CutRefused
    <3>1. nonce # MaxNonce
      BY <2>2 DEF CutRefused
    <3>2. [nonce |-> nonce + 1, sequence |-> next] \in CutOf
      BY <3>1 DEF CutOf
    <3> QED  BY <1>3, <2>2, <3>1, <3>2 DEF Cut
  <2> QED  BY <2>1, <2>2
<1>4. ASSUME NEW k \in cuts, ReleaseCut(k) PROVE LedgerType'
  BY <1>4 DEF ReleaseCut
<1>5. CASE UNCHANGED ledgerVars
  BY <1>5 DEF ledgerVars
<1> QED  BY <1>1, <1>2, <1>3, <1>4, <1>5 DEF LedgerStep

(* Admission on a ledger that stays sound: a fresh row, the next ticket.   *)
LEMMA AdmitEffect ==
  ASSUME LedgerType, Admit, ~poisoned'
  PROVE  /\ next + 1 \in Tickets /\ AdmitTicket = next + 1 /\ next' = next + 1
         /\ ~poisoned /\ UNCHANGED <<cuts, nonce>>
         /\ \A u \in Tickets \ {next + 1} : rows'[u] = rows[u]
         /\ rows'[next + 1].active /\ rows'[next + 1].post = "no"
         /\ ~rows'[next + 1].entered /\ ~rows'[next + 1].returned
<1>1. AdmitTicket # 0
  BY DEF Admit, Unsupported
<1>2. next # MaxTicket /\ AdmitTicket = next + 1
  BY <1>1 DEF AdmitTicket
<1>3. next + 1 \in Tickets
  BY <1>2, LedgerAssumption DEF Tickets, LedgerType
<1> DEFINE fresh == [FreeRow EXCEPT !.active = TRUE]
<1>4. fresh.active /\ fresh.post = "no" /\ ~fresh.entered /\ ~fresh.returned
  BY DEF FreeRow
<1>5. /\ rows' = [rows EXCEPT ![next + 1] = fresh]
      /\ next' = next + 1 /\ UNCHANGED <<cuts, nonce, poisoned>>
  BY <1>1 DEF Admit
<1>6. rows \in [Tickets -> Row]
  BY DEF LedgerType
<1> HIDE DEF fresh
<1>7. rows'[next + 1] = fresh /\ \A u \in Tickets \ {next + 1} : rows'[u] = rows[u]
  BY <1>3, <1>5, <1>6
<1> QED  BY <1>2, <1>3, <1>4, <1>5, <1>7

(* A report on ticket t touches no other row, and nothing but the rows.    *)
LEMMA ReportEffect ==
  ASSUME LedgerType, NEW t, NEW b \in BOOLEAN, ~poisoned',
         PostingReturned(t, b) \/ NeverPosted(t) \/ Enter(t) \/ Returned(t, b)
  PROVE  /\ ~poisoned /\ UNCHANGED <<next, cuts, nonce>>
         /\ \A u \in Tickets \ {t} : rows'[u] = rows[u]
<1>1. rows \in [Tickets -> Row]
  BY DEF LedgerType
<1>2. UNCHANGED rows \/ \E r : rows' = [rows EXCEPT ![t] = r]
  BY DEF PostingReturned, NeverPosted, Enter, Returned, Unsupported, ledgerVars
<1>3. ~poisoned /\ UNCHANGED <<next, cuts, nonce>>
  BY DEF PostingReturned, NeverPosted, Enter, Returned, Unsupported, ledgerVars
<1> QED  BY <1>1, <1>2, <1>3

(* The row after PostingReturned: it lives on unless its task returned.    *)
LEMMA PostedEffect ==
  ASSUME LedgerType, NEW t, PostingReturned(t, TRUE), ~poisoned'
  PROVE  /\ rows'[t].post = "accepted"
         /\ rows'[t].entered = rows[t].entered /\ rows'[t].returned = rows[t].returned
         /\ ~rows[t].returned => rows'[t].active
<1> DEFINE r == [rows[t] EXCEPT !.post = "accepted"]
<1>1. Find(t) /\ rows' = [rows EXCEPT ![t] = Retire(r)]
  BY DEF PostingReturned, Unsupported
<1>2. t \in Tickets /\ rows \in [Tickets -> Row] /\ rows[t] \in Row
  BY <1>1 DEF Find, Active, LedgerType
<1>3. /\ r \in Row /\ r.post = "accepted"
      /\ r.entered = rows[t].entered /\ r.returned = rows[t].returned
  BY <1>2 DEF Row, Posts
<1> HIDE DEF r
<1>4. rows'[t] = Retire(r)
  BY <1>1, <1>2
<1>5. /\ Retire(r).active = ~Retired(r) /\ Retire(r).post = r.post
      /\ Retire(r).entered = r.entered /\ Retire(r).returned = r.returned
  BY <1>3, RetireRow
<1>6. ~rows[t].returned => ~Retired(r)
  BY <1>3 DEF Retired
<1> QED  BY <1>3, <1>4, <1>5, <1>6

(* Entering the route frame marks the row entered, on a sound ledger only. *)
LEMMA EnterEffect ==
  ASSUME LedgerType, NEW t, Enter(t), ~poisoned'
  PROVE  /\ rows'[t].active = rows[t].active /\ rows'[t].post = rows[t].post
         /\ rows'[t].entered /\ rows'[t].returned = rows[t].returned
<1>1. Find(t) /\ rows' = [rows EXCEPT ![t].entered = TRUE]
  BY DEF Enter, Unsupported
<1>2. t \in Tickets /\ rows \in [Tickets -> Row] /\ rows[t] \in Row
  BY <1>1 DEF Find, Active, LedgerType
<1> QED  BY <1>1, <1>2 DEF Row

(* The row after the route frame returned: it waits for the post call.     *)
LEMMA ReturnedEffect ==
  ASSUME LedgerType, NEW t, Returned(t, FALSE), ~poisoned'
  PROVE  /\ rows'[t].post = rows[t].post /\ rows'[t].entered = rows[t].entered
         /\ rows'[t].returned
         /\ rows[t].post = "no" => rows'[t].active
<1> DEFINE r == [rows[t] EXCEPT !.returned = TRUE]
<1>1. Find(t) /\ rows' = [rows EXCEPT ![t] = Retire(r)]
  BY DEF Returned, Unsupported
<1>2. t \in Tickets /\ rows \in [Tickets -> Row] /\ rows[t] \in Row
  BY <1>1 DEF Find, Active, LedgerType
<1>3. r \in Row /\ r.post = rows[t].post /\ r.entered = rows[t].entered /\ r.returned
  BY <1>2 DEF Row
<1> HIDE DEF r
<1>4. rows'[t] = Retire(r)
  BY <1>1, <1>2
<1>5. /\ Retire(r).active = ~Retired(r) /\ Retire(r).post = r.post
      /\ Retire(r).entered = r.entered /\ Retire(r).returned = r.returned
  BY <1>3, RetireRow
<1>6. rows[t].post = "no" => ~Retired(r)
  BY <1>3 DEF Retired
<1> QED  BY <1>3, <1>4, <1>5, <1>6

(***************************************************************************)
(* Every step of the program is a step of the ledger.                      *)
(***************************************************************************)
(* Every step of Spec is one operation of AcceptedReaderWork or none.      *)
LEMMA NextIsLedgerStep == TypeInv /\ ReaderInv /\ [Next]_vars => LedgerStep
<1> SUFFICES ASSUME TypeInv, ReaderInv, [Next]_vars PROVE LedgerStep
  OBVIOUS
<1>1. rpc \notin {"read", "exit", "done", "crashed"} => ticket[cur] \in 0 .. MaxTicket
  BY DEF TypeInv, ReaderInv
<1>2. \A c \in Commands : ticket[c] \in 0 .. MaxTicket
  BY DEF TypeInv
<1>3. CASE \/ ClientSends \/ ClientCloses \/ ReadLine \/ AwaitCapacity \/ ReserveReply
           \/ ReserveEvaluated \/ SleepForCredit \/ PostTask \/ PostCloseAll \/ RunCloseTask
           \/ FatalFailure \/ StopReader \/ WakeReaders \/ JoinReader \/ WriterFails
           \/ UNCHANGED vars
  BY <1>3 DEF ClientSends, ClientCloses, ReadLine, AwaitCapacity, ReserveReply, ReserveEvaluated,
       SleepForCredit, PostTask, PostCloseAll, RunCloseTask, FatalFailure, CloseAll, StopReader,
       WakeReaders, JoinReader, WriterFails, vars, LedgerStep
<1>4. CASE AdmitLine \/ ReserveCanceled \/ PostReturned \/ PostThrows
  BY <1>1, <1>4 DEF AdmitLine, ReserveCanceled, PostReturned, PostThrows, LedgerStep
<1>5. ASSUME NEW c \in Commands,
             Route(c) \/ Complete(c) \/ WriteReply(c) \/ RouteBarrier(c) \/ EndBarrier(c)
      PROVE  LedgerStep
  BY <1>5 DEF Route, Complete, WriteReply, RouteBarrier, EndBarrier, LedgerStep
<1>6. ASSUME NEW c \in Commands, EnterRoute(c) \/ RouteReturns(c) \/ RouteThrows(c)
      PROVE  LedgerStep
  BY <1>2, <1>6 DEF EnterRoute, RouteReturns, RouteThrows, LedgerStep
<1> QED  BY <1>3, <1>4, <1>5, <1>6 DEF Next, Reader, UI, Writer

(***************************************************************************)
(* TypeInv.                                                                *)
(***************************************************************************)
(* The initial state is well typed.                                        *)
LEMMA TypeInit == Init => TypeInv
<1> SUFFICES ASSUME Init PROVE TypeInv
  OBVIOUS
<1>1. FreeRow \in Row
  BY DEF FreeRow, Row, Posts
<1>2. rows \in [Tickets -> Row]
  BY <1>1 DEF Init, LedgerInit
<1>3. LedgerType
  <2>1. next \in 0 .. MaxTicket /\ nonce \in 0 .. MaxNonce
    BY LedgerAssumption DEF Init, LedgerInit
  <2>2. cuts \subseteq CutOf /\ poisoned \in BOOLEAN
    BY DEF Init, LedgerInit
  <2> QED  BY <1>2, <2>1, <2>2 DEF LedgerType
<1>4. /\ stage \in [Commands -> Stages] /\ ticket \in [Commands -> 0 .. MaxTicket]
      /\ reply \in [Commands -> Replies] /\ promised \in [1 .. MaxNonce -> SUBSET Commands]
  BY LedgerAssumption DEF Init, Stages, Replies
<1>5. sent \in 0 .. N /\ cur \in 0 .. N /\ cur <= sent /\ queued \in Int /\ used \in Int
  BY IntakeAssumption DEF Init
<1> QED  BY <1>3, <1>4, <1>5 DEF Init, TypeInv

(* Every step keeps the types; the counters need no bound for it.          *)
LEMMA TypeStep == TypeInv /\ ReaderInv /\ [Next]_vars => TypeInv'
<1> SUFFICES ASSUME TypeInv, ReaderInv, [Next]_vars PROVE TypeInv'
  OBVIOUS
<1>1. LedgerType'
  BY NextIsLedgerStep, LedgerStepType DEF TypeInv
<1>s. {"counted", "held", "posting", "inqueue", "running", "routed", "refused"} \subseteq Stages
  BY DEF Stages
<1>r. {"owed", "engine", "page", "barrier", "sent", "lost", "released"} \subseteq Replies
  BY DEF Replies, Outstanding
<1> USE IntakeAssumption, LedgerAssumption, <1>1, <1>s, <1>r DEF TypeInv
<1>2. CASE ClientSends
  BY <1>2 DEF ClientSends, readerVars, creditVars, uiVars
<1>3. CASE ClientCloses
  BY <1>3 DEF ClientCloses, readerVars, creditVars, uiVars
<1>4. CASE ReadLine
  BY <1>4 DEF ReadLine, readerVars, creditVars, uiVars
<1>5. CASE AwaitCapacity
  BY <1>5 DEF AwaitCapacity, readerVars, creditVars, uiVars
<1>6. CASE AdmitLine
  <2>1. AdmitTicket \in 0 .. MaxTicket
    BY DEF AdmitTicket, LedgerType
  <2>2. stage' \in [Commands -> Stages] /\ ticket' \in [Commands -> 0 .. MaxTicket]
    BY <1>6, <2>1 DEF AdmitLine
  <2> QED  BY <1>6, <2>2 DEF AdmitLine, creditVars, uiVars
<1>7. CASE ReserveCanceled
  <2>1. stage' \in [Commands -> Stages]
    BY <1>7 DEF ReserveCanceled
  <2>2. queued' \in Int
    BY <1>7 DEF ReserveCanceled
  <2> QED  BY <1>7, <2>1, <2>2 DEF ReserveCanceled, creditVars, uiVars
<1>8. CASE ReserveReply
  <2>1. stage' \in [Commands -> Stages] /\ reply' \in [Commands -> Replies]
    BY <1>8 DEF ReserveReply
  <2>2. used' \in Int
    BY <1>8 DEF ReserveReply
  <2> QED  BY <1>8, <2>1, <2>2 DEF ReserveReply, uiVars
<1>9. CASE ReserveEvaluated
  BY <1>9 DEF ReserveEvaluated, readerVars, creditVars, uiVars
<1>10. CASE SleepForCredit
  BY <1>10 DEF SleepForCredit, readerVars, creditVars, uiVars
<1>11. CASE PostTask
  BY <1>11, SMTT(40), ZenonT(60) DEF PostTask, readerVars, creditVars, uiVars
<1>12. CASE PostReturned
  <2>1. stage' \in [Commands -> Stages]
    BY <1>12 DEF PostReturned
  <2>3. reply' \in [Commands -> Replies]
    BY <1>12 DEF PostReturned, creditVars
  <2>4. /\ used' = used \/ used' = used - 1
        /\ queued' = queued \/ queued' = queued - 1
        /\ creditLock' = creditLock
    BY <1>12, Zenon DEF PostReturned, ReleaseReply, creditVars
  <2>5. used' \in Int /\ queued' \in Int
    BY <2>4
  <2>2. rpc' \in {"read", "exit"} /\ stopped' \in BOOLEAN
    BY <1>12 DEF PostReturned
  <2> QED  BY <1>12, <2>1, <2>2, <2>3, <2>4, <2>5 DEF PostReturned, uiVars
<1>13. CASE PostThrows
  BY <1>13 DEF PostThrows, readerVars, creditVars, uiVars
<1>14. CASE PostCloseAll
  BY <1>14 DEF PostCloseAll, readerVars, creditVars, uiVars
<1>15. CASE RunCloseTask
  BY <1>15, SMTT(40), ZenonT(60) DEF RunCloseTask, CloseAll, readerVars, creditVars, uiVars
<1>16. CASE FatalFailure
  BY <1>16 DEF FatalFailure, CloseAll, readerVars, creditVars, uiVars
<1>17. CASE StopReader
  BY <1>17 DEF StopReader, readerVars, creditVars, uiVars
<1>18. CASE WakeReaders
  BY <1>18 DEF WakeReaders, Wakened, readerVars, creditVars, uiVars
<1>19. CASE JoinReader
  BY <1>19 DEF JoinReader, readerVars, creditVars, uiVars
<1>20. CASE WriterFails
  BY <1>20, SMTT(40), ZenonT(60) DEF WriterFails, readerVars, creditVars, uiVars
<1>21. ASSUME NEW c \in Commands, EnterRoute(c) PROVE TypeInv'
  BY <1>21 DEF EnterRoute, readerVars, creditVars, uiVars
<1>22. ASSUME NEW c \in Commands, Route(c) PROVE TypeInv'
  <2>1. reply' \in [Commands -> Replies]
    BY <1>22 DEF Route
  <2>3. used' \in Int /\ creditLock' = creditLock
    BY <1>22 DEF Route, ReleaseReply
  <2>2. rpc' \in {rpc, "reserve"}
    BY <1>22 DEF Route, Wakened
  <2> QED  BY <1>22, <2>1, <2>2, <2>3 DEF Route, uiVars
<1>23. ASSUME NEW c \in Commands, RouteBarrier(c) PROVE TypeInv'
  BY <1>23 DEF RouteBarrier, readerVars, creditVars, uiVars
<1>24. ASSUME NEW c \in Commands, RouteReturns(c) PROVE TypeInv'
  BY <1>24 DEF RouteReturns, readerVars, creditVars, uiVars
<1>25. ASSUME NEW c \in Commands, RouteThrows(c) PROVE TypeInv'
  BY <1>25 DEF RouteThrows, readerVars, creditVars, uiVars
<1>26. ASSUME NEW c \in Commands, Complete(c) PROVE TypeInv'
  BY <1>26 DEF Complete, readerVars, creditVars, uiVars
<1>27. ASSUME NEW c \in Commands, EndBarrier(c) PROVE TypeInv'
  BY <1>27 DEF EndBarrier, readerVars, creditVars, uiVars
<1>28. ASSUME NEW c \in Commands, WriteReply(c) PROVE TypeInv'
  BY <1>28 DEF WriteReply, ReleaseReply, Wakened, readerVars, creditVars, uiVars
<1>29. CASE UNCHANGED vars
  BY <1>29 DEF vars, readerVars, creditVars, uiVars
<1> QED
  BY <1>2, <1>3, <1>4, <1>5, <1>6, <1>7, <1>8, <1>9, <1>10, <1>11, <1>12, <1>13, <1>14,
     <1>15, <1>16, <1>17, <1>18, <1>19, <1>20, <1>21, <1>22, <1>23, <1>24, <1>25, <1>26,
     <1>27, <1>28, <1>29 DEF Next, Reader, UI, Writer

(***************************************************************************)
(* ReaderInv.                                                              *)
(***************************************************************************)
(* The reader starts between two lines.                                    *)
LEMMA ReaderInit == Init => ReaderInv
BY DEF Init, ReaderInv, Commands

(* Where ReadCommands is determines the stage of the line it works on.     *)
LEMMA ReaderStep == TypeInv /\ ReaderInv /\ [Next]_vars => ReaderInv'
<1> SUFFICES ASSUME TypeInv, ReaderInv, [Next]_vars PROVE ReaderInv'
  OBVIOUS
<1>1. /\ cur \in 0 .. N /\ sent \in 0 .. N /\ N \in Nat
      /\ stage \in [Commands -> Stages] /\ reply \in [Commands -> Replies]
  BY IntakeAssumption DEF TypeInv
<1> USE <1>1 DEF ReaderInv
<1>2. CASE ClientSends
  BY <1>2 DEF ClientSends, readerVars, creditVars, uiVars
<1>3. CASE ClientCloses
  BY <1>3 DEF ClientCloses, readerVars, creditVars, uiVars
<1>4. CASE ReadLine
  <2>1. cur < sent => cur + 1 \in Commands
    BY DEF Commands
  <2>2. \A c \in Commands : c > cur + 1 => c > cur
    BY DEF Commands
  <2> QED  BY <1>4, <2>1, <2>2 DEF ReadLine, creditVars
<1>5. CASE AwaitCapacity
  BY <1>5 DEF AwaitCapacity, readerVars, creditVars, uiVars
<1>6. CASE AdmitLine
  BY <1>6 DEF AdmitLine, readerVars, creditVars, uiVars
<1>7. CASE ReserveCanceled
  BY <1>7 DEF ReserveCanceled, readerVars, creditVars, uiVars
<1>8. CASE ReserveReply
  BY <1>8 DEF ReserveReply, readerVars, creditVars, uiVars
<1>9. CASE ReserveEvaluated
  BY <1>9 DEF ReserveEvaluated, readerVars, creditVars, uiVars
<1>10. CASE SleepForCredit
  BY <1>10 DEF SleepForCredit, readerVars, creditVars, uiVars
<1>11. CASE PostTask
  BY <1>11 DEF PostTask, readerVars, creditVars, uiVars
<1>12. CASE PostReturned
  BY <1>12 DEF PostReturned, readerVars, creditVars, uiVars
<1>13. CASE PostThrows
  BY <1>13 DEF PostThrows, readerVars, creditVars, uiVars
<1>14. CASE PostCloseAll
  BY <1>14 DEF PostCloseAll, readerVars, creditVars, uiVars
<1>15. CASE RunCloseTask
  BY <1>15 DEF RunCloseTask, CloseAll, readerVars, creditVars, uiVars
<1>16. CASE FatalFailure
  BY <1>16 DEF FatalFailure, CloseAll, readerVars, creditVars, uiVars
<1>17. CASE StopReader
  BY <1>17 DEF StopReader, readerVars, creditVars, uiVars
<1>18. CASE WakeReaders
  BY <1>18 DEF WakeReaders, Wakened, readerVars, creditVars, uiVars
<1>19. CASE JoinReader
  BY <1>19 DEF JoinReader, readerVars, creditVars, uiVars
<1>20. CASE WriterFails
  BY <1>20 DEF WriterFails, readerVars, creditVars, uiVars
<1>21. ASSUME NEW c \in Commands, EnterRoute(c) PROVE ReaderInv'
  BY <1>21 DEF EnterRoute, readerVars, creditVars, uiVars
<1>22. ASSUME NEW c \in Commands, Route(c) PROVE ReaderInv'
  BY <1>22 DEF Route, Wakened, readerVars, creditVars, uiVars
<1>23. ASSUME NEW c \in Commands, RouteBarrier(c) PROVE ReaderInv'
  BY <1>23 DEF RouteBarrier, readerVars, creditVars, uiVars
<1>24. ASSUME NEW c \in Commands, RouteReturns(c) PROVE ReaderInv'
  BY <1>24 DEF RouteReturns, readerVars, creditVars, uiVars
<1>25. ASSUME NEW c \in Commands, RouteThrows(c) PROVE ReaderInv'
  BY <1>25 DEF RouteThrows, readerVars, creditVars, uiVars
<1>26. ASSUME NEW c \in Commands, Complete(c) PROVE ReaderInv'
  BY <1>26 DEF Complete, readerVars, creditVars, uiVars
<1>27. ASSUME NEW c \in Commands, EndBarrier(c) PROVE ReaderInv'
  BY <1>27 DEF EndBarrier, readerVars, creditVars, uiVars
<1>28. ASSUME NEW c \in Commands, WriteReply(c) PROVE ReaderInv'
  BY <1>28 DEF WriteReply, Wakened, readerVars, creditVars, uiVars
<1>29. CASE UNCHANGED vars
  BY <1>29 DEF vars, readerVars, creditVars, uiVars
<1> QED
  BY <1>2, <1>3, <1>4, <1>5, <1>6, <1>7, <1>8, <1>9, <1>10, <1>11, <1>12, <1>13, <1>14,
     <1>15, <1>16, <1>17, <1>18, <1>19, <1>20, <1>21, <1>22, <1>23, <1>24, <1>25, <1>26,
     <1>27, <1>28, <1>29 DEF Next, Reader, UI, Writer

(***************************************************************************)
(* The two counters.                                                       *)
(***************************************************************************)

(* A counter follows a set of commands: it grows by one with the set while *)
(* it is below its capacity, and shrinks by one with it.                   *)
Follows(count, countNext, set, setNext, cap) ==
  \/ countNext = count /\ setNext = set
  \/ /\ count < cap /\ countNext = count + 1
     /\ \E c \in Commands \ set : setNext = set \cup {c}
  \/ /\ countNext = count - 1
     /\ \E c \in set : setNext = set \ {c}

(* A counter that follows a set of commands stays the set's cardinality.   *)
LEMMA FollowsCounts ==
  ASSUME NEW count \in Int, NEW countNext, NEW cap \in Nat,
         NEW set \in SUBSET Commands, NEW setNext,
         count = Cardinality(set), count <= cap,
         Follows(count, countNext, set, setNext, cap)
  PROVE  countNext = Cardinality(setNext) /\ countNext \in 0 .. cap
<1>1. IsFiniteSet(Commands)
  BY IntakeAssumption, FS_Interval DEF Commands
<1>2. IsFiniteSet(set) /\ Cardinality(set) \in Nat
  BY <1>1, FS_Subset, FS_CardinalityType
<1>3. CASE countNext = count /\ setNext = set
  BY <1>2, <1>3
<1>4. ASSUME count < cap, countNext = count + 1, NEW c \in Commands \ set, setNext = set \cup {c}
      PROVE  countNext = Cardinality(setNext) /\ countNext \in 0 .. cap
  <2>1. Cardinality(set \cup {c}) = Cardinality(set) + 1
    BY <1>2, FS_AddElement
  <2> QED  BY <1>2, <1>4, <2>1
<1>5. ASSUME countNext = count - 1, NEW c \in set, setNext = set \ {c}
      PROVE  countNext = Cardinality(setNext) /\ countNext \in 0 .. cap
  <2>1. IsFiniteSet(set \ {c}) /\ Cardinality(set \ {c}) = Cardinality(set) - 1
    BY <1>2, FS_RemoveElement
  <2>2. Cardinality(set \ {c}) \in Nat
    BY <2>1, FS_CardinalityType
  <2> QED  BY <1>2, <1>5, <2>1, <2>2
<1> QED  BY <1>3, <1>4, <1>5 DEF Follows

(* queued_commands_ follows the commands between the capacity wait and the *)
(* start of their UI task.                                                 *)
LEMMA QueueFollows ==
  TypeInv /\ ReaderInv /\ [Next]_vars => Follows(queued, queued', Queued, Queued', QueueCap)
<1> SUFFICES ASSUME TypeInv, ReaderInv, [Next]_vars
             PROVE  Follows(queued, queued', Queued, Queued', QueueCap)
  OBVIOUS
<1>1. stage \in [Commands -> Stages]
  BY DEF TypeInv
<1>2. CASE /\ queued' = queued
           /\ \/ stage' = stage
              \/ \E c \in Commands : \/ /\ stage[c] \in {"counted", "held", "posting"}
                                        /\ \E v \in {"held", "posting", "inqueue"} :
                                             stage' = [stage EXCEPT ![c] = v]
                                     \/ /\ stage[c] = "running"
                                        /\ stage' = [stage EXCEPT ![c] = "routed"]
  <2>1. Queued' = Queued
    BY <1>1, <1>2 DEF Queued
  <2> QED  BY <1>2, <2>1 DEF Follows
<1>3. ASSUME NEW c \in Commands, stage[c] \in {"held", "posting", "inqueue"},
             NEW v \in {"refused", "running"},
             stage' = [stage EXCEPT ![c] = v], queued' = queued - 1
      PROVE  Follows(queued, queued', Queued, Queued', QueueCap)
  <2>1. Queued' = Queued \ {c} /\ c \in Queued
    BY <1>1, <1>3 DEF Queued
  <2> QED  BY <1>3, <2>1 DEF Follows
<1>4. CASE \/ ClientSends \/ ClientCloses \/ ReadLine \/ ReserveEvaluated \/ SleepForCredit
           \/ PostThrows \/ PostCloseAll \/ RunCloseTask \/ FatalFailure \/ StopReader
           \/ WakeReaders \/ JoinReader \/ WriterFails \/ UNCHANGED vars
  BY <1>2, <1>4 DEF ClientSends, ClientCloses, ReadLine, ReserveEvaluated, SleepForCredit,
       PostThrows, PostCloseAll, RunCloseTask, FatalFailure, CloseAll, StopReader, WakeReaders,
       JoinReader, WriterFails, vars, readerVars
<1>5. CASE AwaitCapacity
  <2>1. CASE queued' = queued /\ stage' = stage
    BY <1>2, <2>1
  <2>2. CASE HasCapacity /\ queued' = queued + 1 /\ stage' = [stage EXCEPT ![cur] = "counted"]
    <3>1. cur \in Commands /\ stage[cur] = "unread"
      BY <1>5 DEF AwaitCapacity, ReaderInv
    <3>2. Queued' = Queued \cup {cur} /\ cur \notin Queued
      BY <1>1, <2>2, <3>1 DEF Queued
    <3> QED  BY <2>2, <3>1, <3>2 DEF Follows, HasCapacity
  <2> QED  BY <1>5, <2>1, <2>2 DEF AwaitCapacity
<1>6. CASE AdmitLine \/ ReserveReply \/ PostTask
  BY <1>2, <1>6 DEF AdmitLine, ReserveReply, PostTask, ReaderInv
<1>7. CASE ReserveCanceled
  BY <1>3, <1>7 DEF ReserveCanceled, ReaderInv
<1>8. CASE PostReturned
  BY <1>2, <1>3, <1>8 DEF PostReturned, ReaderInv
<1>9. ASSUME NEW c \in Commands, EnterRoute(c)
      PROVE  Follows(queued, queued', Queued, Queued', QueueCap)
  BY <1>3, <1>9 DEF EnterRoute
<1>10. ASSUME NEW c \in Commands, RouteReturns(c) \/ RouteThrows(c)
       PROVE  Follows(queued, queued', Queued, Queued', QueueCap)
  BY <1>2, <1>10 DEF RouteReturns, RouteThrows, readerVars
<1>11. ASSUME NEW c \in Commands,
              Route(c) \/ RouteBarrier(c) \/ Complete(c) \/ EndBarrier(c) \/ WriteReply(c)
       PROVE  Follows(queued, queued', Queued, Queued', QueueCap)
  BY <1>2, <1>11 DEF Route, RouteBarrier, Complete, EndBarrier, WriteReply, readerVars
<1> QED
  BY <1>4, <1>5, <1>6, <1>7, <1>8, <1>9, <1>10, <1>11 DEF Next, Reader, UI, Writer
(* used_ of the reply credits follows the commands whose reply is due.     *)
LEMMA CreditFollows ==
  TypeInv /\ ReaderInv /\ [Next]_vars => Follows(used, used', Owing, Owing', CreditCap)
<1> SUFFICES ASSUME TypeInv, ReaderInv, [Next]_vars
             PROVE  Follows(used, used', Owing, Owing', CreditCap)
  OBVIOUS
<1>1. reply \in [Commands -> Replies]
  BY DEF TypeInv
<1>2. CASE used' = used /\ reply' = reply
  <2>1. Owing' = Owing
    BY <1>2 DEF Owing
  <2> QED  BY <1>2, <2>1 DEF Follows
<1>3. ASSUME NEW c \in Commands, reply[c] \in Outstanding, NEW v \in Outstanding,
             reply' = [reply EXCEPT ![c] = v], used' = used
      PROVE  Follows(used, used', Owing, Owing', CreditCap)
  <2>1. Owing' = Owing
    BY <1>1, <1>3 DEF Owing
  <2> QED  BY <1>3, <2>1 DEF Follows
<1>4. ASSUME NEW c \in Commands, reply[c] \in Outstanding,
             reply' = [reply EXCEPT ![c] = "released"], used' = used - 1
      PROVE  Follows(used, used', Owing, Owing', CreditCap)
  <2>1. "released" \notin Outstanding
    BY DEF Outstanding
  <2>2. Owing' = Owing \ {c} /\ c \in Owing
    BY <1>1, <1>4, <2>1 DEF Owing
  <2> QED  BY <1>4, <2>2 DEF Follows
<1>o. {"owed", "engine", "page", "barrier", "sent", "lost"} \subseteq Outstanding
  BY DEF Outstanding
<1>5. CASE \/ ClientSends \/ ClientCloses \/ ReadLine \/ AwaitCapacity \/ AdmitLine
           \/ ReserveCanceled \/ ReserveEvaluated \/ SleepForCredit \/ PostTask
           \/ PostThrows \/ PostCloseAll \/ StopReader \/ WakeReaders
           \/ JoinReader \/ WriterFails \/ UNCHANGED vars
  BY <1>2, <1>5 DEF ClientSends, ClientCloses, ReadLine, AwaitCapacity, AdmitLine,
       ReserveCanceled, ReserveEvaluated, SleepForCredit, PostTask, PostThrows, PostCloseAll,
       StopReader, WakeReaders, JoinReader, WriterFails, vars, creditVars
<1>6. CASE ReserveReply
  <2>1. cur \in Commands /\ reply[cur] = "none" /\ "none" \notin Outstanding
    BY <1>6 DEF ReserveReply, ReaderInv, Outstanding
  <2>2. Owing' = Owing \cup {cur} /\ cur \notin Owing
    BY <1>1, <1>6, <1>o, <2>1 DEF ReserveReply, Owing
  <2>3. used < CreditCap /\ used' = used + 1
    BY <1>6 DEF ReserveReply, CreditFree
  <2> QED  BY <2>1, <2>2, <2>3 DEF Follows
<1>7. CASE PostReturned
  <2>1. CASE rpc = "accepted"
    BY <1>2, <1>7, <2>1 DEF PostReturned, creditVars
  <2>2. CASE rpc = "declined"
    <3>1. cur \in Commands /\ reply[cur] \in Outstanding
      BY <1>o, <2>2 DEF ReaderInv
    <3>2. reply' = [reply EXCEPT ![cur] = "released"] /\ used' = used - 1
      BY <1>7, <2>2 DEF PostReturned, ReleaseReply
    <3> QED  BY <1>4, <3>1, <3>2
  <2> QED  BY <1>7, <2>1, <2>2 DEF PostReturned
<1>8. CASE RunCloseTask \/ FatalFailure
  <2>1. Owing' = Owing /\ used' = used
    BY <1>o, <1>1, <1>8 DEF RunCloseTask, FatalFailure, CloseAll, Owing
  <2> QED  BY <2>1 DEF Follows
<1>9. ASSUME NEW c \in Commands, EnterRoute(c) \/ RouteReturns(c)
      PROVE  Follows(used, used', Owing, Owing', CreditCap)
  BY <1>2, <1>9 DEF EnterRoute, RouteReturns, creditVars
<1>10. ASSUME NEW c \in Commands, RouteBarrier(c) \/ RouteThrows(c) \/ Complete(c) \/ EndBarrier(c)
       PROVE  Follows(used, used', Owing, Owing', CreditCap)
  BY <1>o, <1>3, <1>10 DEF RouteBarrier, RouteThrows, Complete, EndBarrier
<1>11. ASSUME NEW c \in Commands, Route(c)
       PROVE  Follows(used, used', Owing, Owing', CreditCap)
  <2>1. CASE /\ \E r \in {"sent", "engine", "page"} : reply' = [reply EXCEPT ![c] = r]
             /\ used' = used
    BY <1>o, <1>3, <1>11, <2>1 DEF Route
  <2>2. CASE reply' = [reply EXCEPT ![c] = "released"] /\ used' = used - 1
    BY <1>o, <1>4, <1>11, <2>2 DEF Route
  <2> QED  BY <1>11, <2>1, <2>2 DEF Route, ReleaseReply
<1>12. ASSUME NEW c \in Commands, WriteReply(c)
       PROVE  Follows(used, used', Owing, Owing', CreditCap)
  BY <1>o, <1>4, <1>12 DEF WriteReply, ReleaseReply
<1> QED
  BY <1>5, <1>6, <1>7, <1>8, <1>9, <1>10, <1>11, <1>12 DEF Next, Reader, UI, Writer

(* queued_commands_ is the number of commands between the capacity wait    *)
(* and the start of their UI task, used_ the number of replies due, and    *)
(* neither leaves its range, whatever is refused, stopped or thrown.       *)
CountInv == TypeInv /\ ReaderInv /\ QueueAccounting /\ CreditConservation

(* queued_commands_ and used_ are the sizes of the sets they count.        *)
THEOREM CountersExact == Spec => []CountInv
<1>1. Init => CountInv
  <2> SUFFICES ASSUME Init PROVE QueueAccounting /\ CreditConservation
    BY TypeInit, ReaderInit DEF CountInv
  <2>1. Queued = {} /\ Owing = {}
    BY DEF Init, Queued, Owing, Outstanding
  <2>2. queued = Cardinality(Queued) /\ used = Cardinality(Owing)
    BY <2>1, FS_EmptySet DEF Init
  <2> QED
    BY <2>2, IntakeAssumption DEF Init, QueueAccounting, CreditConservation, Queued, Owing
<1>2. CountInv /\ [Next]_vars => CountInv'
  <2> SUFFICES ASSUME CountInv, [Next]_vars PROVE CountInv'
    OBVIOUS
  <2>1. TypeInv' /\ ReaderInv'
    BY TypeStep, ReaderStep DEF CountInv
  <2>2. queued' = Cardinality(Queued') /\ queued' \in 0 .. QueueCap
    <3>1. queued \in Int /\ queued = Cardinality(Queued) /\ queued <= QueueCap
      BY DEF CountInv, QueueAccounting, Queued, TypeInv
    <3>2. Queued \in SUBSET Commands /\ QueueCap \in Nat
      BY IntakeAssumption DEF Queued
    <3>3. Follows(queued, queued', Queued, Queued', QueueCap)
      BY QueueFollows DEF CountInv
    <3> QED  BY <3>1, <3>2, <3>3, FollowsCounts
  <2>3. used' = Cardinality(Owing') /\ used' \in 0 .. CreditCap
    <3>1. used \in Int /\ used = Cardinality(Owing) /\ used <= CreditCap
      BY DEF CountInv, CreditConservation, Owing, TypeInv
    <3>2. Owing \in SUBSET Commands /\ CreditCap \in Nat
      BY IntakeAssumption DEF Owing
    <3>3. Follows(used, used', Owing, Owing', CreditCap)
      BY CreditFollows DEF CountInv
    <3> QED  BY <3>1, <3>2, <3>3, FollowsCounts
  <2>4. QueueAccounting'
    BY <2>2, IntakeAssumption DEF QueueAccounting, Queued
  <2>5. CreditConservation'
    BY <2>3, IntakeAssumption DEF CreditConservation, Owing
  <2> QED  BY <2>1, <2>4, <2>5 DEF CountInv
<1> QED  BY <1>1, <1>2, PTL DEF Spec
(***************************************************************************)
(* RowsInv: the rows tell the truth.                                       *)
(***************************************************************************)
(* No row is active at first.                                              *)
LEMMA RowsInit == Init => RowsInv
BY SMTT(40), ZenonT(60) DEF Init, RowsInv, InPost

(* Every step keeps the active rows those of the commands not yet settled. *)
LEMMA RowsStep == TypeInv /\ ReaderInv /\ RowsInv /\ [Next]_vars => RowsInv'
<1> SUFFICES ASSUME TypeInv, ReaderInv, RowsInv, [Next]_vars PROVE RowsInv'
  OBVIOUS
<1>1. /\ LedgerType /\ cur \in 0 .. N /\ next \in 0 .. MaxTicket /\ MaxTicket \in Nat
      /\ stage \in [Commands -> Stages] /\ ticket \in [Commands -> 0 .. MaxTicket]
  BY LedgerAssumption DEF TypeInv, LedgerType
<1> USE <1>1 DEF RowsInv, RowTells, InPost
<1>2. CASE ClientSends
  BY <1>2 DEF ClientSends, ledgerVars, readerVars, creditVars, uiVars
<1>3. CASE ClientCloses
  BY <1>3 DEF ClientCloses, ledgerVars, readerVars, creditVars, uiVars
<1>4. CASE ReadLine
  BY <1>4 DEF ReadLine, ledgerVars, readerVars, creditVars, uiVars
<1>5. CASE AwaitCapacity
  BY <1>5 DEF AwaitCapacity, ledgerVars, readerVars, creditVars, uiVars
<1>6. CASE AdmitLine
  <2>1. cur \in Commands /\ stage[cur] = "counted" /\ rpc = "admit"
    BY <1>6 DEF AdmitLine, ReaderInv
  <2>2. SUFFICES ASSUME ~poisoned' PROVE RowsInv'
    BY DEF RowsInv
  <2>3. /\ next + 1 \in Tickets /\ AdmitTicket = next + 1 /\ next' = next + 1 /\ ~poisoned
        /\ \A u \in Tickets \ {next + 1} : rows'[u] = rows[u]
        /\ rows'[next + 1].active /\ rows'[next + 1].post = "no"
        /\ ~rows'[next + 1].entered /\ ~rows'[next + 1].returned
    BY <1>6, <2>2, AdmitEffect DEF AdmitLine
  <2>4. /\ ticket' = [ticket EXCEPT ![cur] = next + 1]
        /\ stage' = [stage EXCEPT ![cur] = "held"]
        /\ rpc' = "reserve" /\ cur' = cur
    BY <1>6, <2>3 DEF AdmitLine
  <2>5. \A c \in Commands \ {cur} : stage'[c] = stage[c] /\ ticket'[c] = ticket[c]
    BY <2>1, <2>4
  <2>6. stage'[cur] = "held" /\ ticket'[cur] = next + 1
    BY <2>1, <2>4
  <2>7. \A c \in Commands \ {cur} : stage[c] \notin {"unread", "counted"} =>
          ticket[c] \in Tickets /\ ticket[c] <= next
    BY <2>3 DEF Tickets
  <2> QED  BY <2>1, <2>3, <2>4, <2>5, <2>6, <2>7
<1>7. CASE ReserveCanceled
  <2>1. cur \in Commands /\ stage[cur] = "held" /\ rpc = "reserve"
    BY <1>7 DEF ReserveCanceled, ReaderInv
  <2>2. SUFFICES ASSUME ~poisoned' PROVE RowsInv'
    BY DEF RowsInv
  <2>3. ~poisoned /\ next' = next /\ \A u \in Tickets \ {ticket[cur]} : rows'[u] = rows[u]
    BY <1>7, <2>2, ReportEffect DEF ReserveCanceled
  <2>4. \A c \in Commands : stage'[c] = IF c = cur THEN "refused" ELSE stage[c]
    BY <1>7, <2>1 DEF ReserveCanceled
  <2>5. rpc' = "exit" /\ cur' = cur /\ ticket' = ticket
    BY <1>7 DEF ReserveCanceled
  <2>6. \A c \in Commands : stage[c] \notin {"unread", "counted"} => ticket[c] \in Tickets
    BY <2>3 DEF Tickets
  <2> QED  BY <2>1, <2>3, <2>4, <2>5, <2>6
<1>8. CASE ReserveReply
  <2>1. cur \in Commands /\ stage[cur] = "held" /\ rpc = "reserve"
    BY <1>8 DEF ReserveReply, ReaderInv
  <2>2. \A c \in Commands : stage'[c] = IF c = cur THEN "posting" ELSE stage[c]
    BY <1>8, <2>1 DEF ReserveReply
  <2>3. rpc' = "post" /\ cur' = cur /\ ticket' = ticket /\ UNCHANGED ledgerVars
    BY <1>8 DEF ReserveReply
  <2> QED  BY <2>1, <2>2, <2>3 DEF ledgerVars
<1>9. CASE ReserveEvaluated
  BY <1>9 DEF ReserveEvaluated, ledgerVars, readerVars, creditVars, uiVars
<1>10. CASE SleepForCredit
  BY <1>10 DEF SleepForCredit, ledgerVars, readerVars, creditVars, uiVars
<1>11. CASE PostTask
  <2>1. cur \in Commands /\ stage[cur] = "posting" /\ rpc = "post"
    BY <1>11 DEF PostTask, ReaderInv
  <2>2. CASE stage' = stage
    BY <1>11, <2>1, <2>2 DEF PostTask, ledgerVars
  <2>3. CASE stage' = [stage EXCEPT ![cur] = "inqueue"]
    <3>1. \A c \in Commands : stage'[c] = IF c = cur THEN "inqueue" ELSE stage[c]
      BY <2>1, <2>3
    <3>2. rpc' \in {"accepted", "declined"} /\ cur' = cur /\ ticket' = ticket /\ UNCHANGED ledgerVars
      BY <1>11 DEF PostTask
    <3> QED  BY <2>1, <3>1, <3>2 DEF ledgerVars
  <2> QED  BY <1>11, <2>2, <2>3 DEF PostTask
<1>12. CASE PostReturned
  <2>1. SUFFICES ASSUME ~poisoned' PROVE RowsInv'
    BY DEF RowsInv
  <2>2. PICK b \in BOOLEAN : PostingReturned(ticket[cur], b) /\ (rpc = "accepted" <=> b)
    BY <1>12 DEF PostReturned
  <2>3. ~poisoned /\ next' = next /\ \A u \in Tickets \ {ticket[cur]} : rows'[u] = rows[u]
    BY <2>1, <2>2, ReportEffect
  <2>4. cur' = cur /\ ticket' = ticket /\ rpc' \in {"read", "exit"}
    BY <1>12 DEF PostReturned
  <2>5. \A c \in Commands : stage[c] \notin {"unread", "counted"} => ticket[c] \in Tickets
    BY <2>3 DEF Tickets
  <2>6. CASE rpc = "accepted"
    <3>1. cur \in Commands /\ stage[cur] \in {"inqueue", "running", "routed"} /\ stage' = stage
      BY <1>12, <2>6 DEF PostReturned, ReaderInv
    <3>2. /\ rows'[ticket[cur]].post = "accepted"
          /\ rows'[ticket[cur]].entered = rows[ticket[cur]].entered
          /\ rows'[ticket[cur]].returned = rows[ticket[cur]].returned
          /\ ~rows[ticket[cur]].returned => rows'[ticket[cur]].active
      BY <2>1, <2>2, <2>6, PostedEffect
    <3> QED  BY <2>3, <2>4, <2>5, <2>6, <3>1, <3>2
  <2>7. CASE rpc = "declined"
    <3>1. cur \in Commands /\ stage[cur] = "posting"
      BY <2>7 DEF ReaderInv
    <3>2. \A c \in Commands : stage'[c] = IF c = cur THEN "refused" ELSE stage[c]
      BY <1>12, <2>7, <3>1 DEF PostReturned
    <3> QED  BY <2>3, <2>4, <2>5, <2>7, <3>1, <3>2
  <2> QED  BY <1>12, <2>6, <2>7 DEF PostReturned
<1>13. CASE PostThrows
  <2>1. cur \in Commands /\ stage[cur] \notin {"unread", "counted"} /\ InPost(cur)
    BY <1>13 DEF PostThrows, ReaderInv
  <2>2. ~poisoned => Find(ticket[cur]) /\ rows[ticket[cur]].post = "no"
    BY <2>1 DEF Find, Active, Tickets
  <2>3. poisoned'
    BY <1>13, <2>2 DEF PostThrows, PostingUnwound, ledgerVars
  <2> QED  BY <2>3
<1>14. CASE PostCloseAll
  BY <1>14 DEF PostCloseAll, ledgerVars, readerVars, creditVars, uiVars
<1>15. CASE RunCloseTask
  BY <1>15 DEF RunCloseTask, CloseAll, ledgerVars, readerVars, creditVars, uiVars
<1>16. CASE FatalFailure
  BY <1>16 DEF FatalFailure, CloseAll, ledgerVars, readerVars, creditVars, uiVars
<1>17. CASE StopReader
  BY <1>17 DEF StopReader, ledgerVars, readerVars, creditVars, uiVars
<1>18. CASE WakeReaders
  BY <1>18 DEF WakeReaders, Wakened, ledgerVars, readerVars, creditVars, uiVars
<1>19. CASE JoinReader
  BY <1>19 DEF JoinReader, ledgerVars, readerVars, creditVars, uiVars
<1>20. CASE WriterFails
  BY <1>20 DEF WriterFails, ledgerVars, readerVars, creditVars, uiVars
<1>21. ASSUME NEW c \in Commands, EnterRoute(c) PROVE RowsInv'
  <2>1. SUFFICES ASSUME ~poisoned' PROVE RowsInv'
    BY DEF RowsInv
  <2>2. ~poisoned /\ next' = next /\ \A u \in Tickets \ {ticket[c]} : rows'[u] = rows[u]
    BY <1>21, <2>1, ReportEffect DEF EnterRoute
  <2>3. /\ rows'[ticket[c]].active = rows[ticket[c]].active
        /\ rows'[ticket[c]].post = rows[ticket[c]].post
        /\ rows'[ticket[c]].entered /\ rows'[ticket[c]].returned = rows[ticket[c]].returned
    BY <1>21, <2>1, EnterEffect DEF EnterRoute
  <2>4. \A d \in Commands : stage'[d] = IF d = c THEN "running" ELSE stage[d]
    BY <1>21 DEF EnterRoute
  <2>5. stage[c] = "inqueue" /\ rpc' = rpc /\ cur' = cur /\ ticket' = ticket
    BY <1>21 DEF EnterRoute
  <2>6. \A d \in Commands : stage[d] \notin {"unread", "counted"} => ticket[d] \in Tickets
    BY <2>2 DEF Tickets
  <2>7. ASSUME NEW d \in Commands \ {c},
               stage[d] \in {"held", "posting", "inqueue", "running"} \/ InPost(d)
        PROVE  rows'[ticket[d]] = rows[ticket[d]] /\ stage[d] \notin {"unread", "counted"}
    <3>1. stage[d] \notin {"unread", "counted"}
      BY <2>7 DEF ReaderInv
    <3> QED  BY <2>2, <2>5, <2>6, <3>1
  <2>8. ASSUME NEW d \in Commands,
               stage'[d] \in {"held", "posting", "inqueue", "running"} \/ InPost(d)'
        PROVE  RowTells(d)'
    <3>1. CASE d = c
      BY <2>2, <2>3, <2>4, <2>5, <2>8, <3>1
    <3>2. CASE d # c
      BY <2>2, <2>4, <2>5, <2>7, <2>8, <3>2
    <3> QED  BY <3>1, <3>2
  <2>9. \A d \in Commands : /\ stage'[d] \notin {"unread", "counted"} <=> stage[d] \notin {"unread", "counted"}
                             /\ ticket'[d] = ticket[d]
    BY <2>4, <2>5
  <2> QED  BY <2>2, <2>8, <2>9
<1>22. ASSUME NEW c \in Commands, Route(c) PROVE RowsInv'
  BY <1>22 DEF Route, Wakened, ledgerVars, readerVars, creditVars, uiVars
<1>23. ASSUME NEW c \in Commands, RouteBarrier(c) PROVE RowsInv'
  BY <1>23 DEF RouteBarrier, Cut, readerVars
<1>24. ASSUME NEW c \in Commands, RouteReturns(c) PROVE RowsInv'
  <2>1. SUFFICES ASSUME ~poisoned' PROVE RowsInv'
    BY DEF RowsInv
  <2>2. ~poisoned /\ next' = next /\ \A u \in Tickets \ {ticket[c]} : rows'[u] = rows[u]
    BY <1>24, <2>1, ReportEffect DEF RouteReturns
  <2>3. /\ rows'[ticket[c]].post = rows[ticket[c]].post
        /\ rows'[ticket[c]].entered = rows[ticket[c]].entered /\ rows'[ticket[c]].returned
        /\ rows[ticket[c]].post = "no" => rows'[ticket[c]].active
    BY <1>24, <2>1, ReturnedEffect DEF RouteReturns
  <2>4. \A d \in Commands : stage'[d] = IF d = c THEN "routed" ELSE stage[d]
    BY <1>24 DEF RouteReturns
  <2>5. stage[c] = "running" /\ rpc' = rpc /\ cur' = cur /\ ticket' = ticket
    BY <1>24 DEF RouteReturns, readerVars
  <2>6. \A d \in Commands : stage[d] \notin {"unread", "counted"} => ticket[d] \in Tickets
    BY <2>2 DEF Tickets
  <2>7. ASSUME NEW d \in Commands \ {c},
               stage[d] \in {"held", "posting", "inqueue", "running"} \/ InPost(d)
        PROVE  rows'[ticket[d]] = rows[ticket[d]] /\ stage[d] \notin {"unread", "counted"}
    <3>1. stage[d] \notin {"unread", "counted"}
      BY <2>7 DEF ReaderInv
    <3> QED  BY <2>2, <2>5, <2>6, <3>1
  <2>8. ASSUME NEW d \in Commands,
               stage'[d] \in {"held", "posting", "inqueue", "running"} \/ InPost(d)'
        PROVE  RowTells(d)'
    <3>1. CASE d = c
      BY <2>2, <2>3, <2>4, <2>5, <2>8, <3>1
    <3>2. CASE d # c
      BY <2>2, <2>4, <2>5, <2>7, <2>8, <3>2
    <3> QED  BY <3>1, <3>2
  <2>9. \A d \in Commands : /\ stage'[d] \notin {"unread", "counted"} <=> stage[d] \notin {"unread", "counted"}
                             /\ ticket'[d] = ticket[d]
    BY <2>4, <2>5
  <2> QED  BY <2>2, <2>8, <2>9
<1>25. ASSUME NEW c \in Commands, RouteThrows(c) PROVE RowsInv'
  <2>1. poisoned'
    BY <1>25 DEF RouteThrows, Returned, Unsupported
  <2> QED  BY <2>1
<1>26. ASSUME NEW c \in Commands, Complete(c) PROVE RowsInv'
  BY <1>26 DEF Complete, ledgerVars, readerVars, creditVars, uiVars
<1>27. ASSUME NEW c \in Commands, EndBarrier(c) PROVE RowsInv'
  BY <1>27 DEF EndBarrier, ReleaseCut, ledgerVars, readerVars
<1>28. ASSUME NEW c \in Commands, WriteReply(c) PROVE RowsInv'
  BY <1>28 DEF WriteReply, Wakened, ledgerVars, readerVars, creditVars, uiVars
<1>29. CASE UNCHANGED vars
  BY <1>29 DEF vars, ledgerVars, readerVars, creditVars, uiVars
<1> QED
  BY <1>2, <1>3, <1>4, <1>5, <1>6, <1>7, <1>8, <1>9, <1>10, <1>11, <1>12, <1>13, <1>14,
     <1>15, <1>16, <1>17, <1>18, <1>19, <1>20, <1>21, <1>22, <1>23, <1>24, <1>25, <1>26,
     <1>27, <1>28, <1>29 DEF Next, Reader, UI, Writer
(***************************************************************************)
(* CutsInv: a cut covers the tickets of the commands promised to it.       *)
(***************************************************************************)

(* No operation of the ledger revokes a poisoning or a ticket, and only    *)
(* admission makes a row active.                                           *)
LEMMA LedgerMonotone ==
  LedgerType /\ LedgerStep =>
    /\ poisoned => poisoned'
    /\ next' \in Nat /\ next <= next'
    /\ \A t \in Tickets : rows'[t].active => rows[t].active \/ (t > next /\ next' # next)
<1> SUFFICES ASSUME LedgerType, LedgerStep
             PROVE  /\ poisoned => poisoned'
                    /\ next' \in Nat /\ next <= next'
                    /\ \A t \in Tickets : rows'[t].active => rows[t].active \/ (t > next /\ next' # next)
  OBVIOUS
<1>1. next \in 0 .. MaxTicket /\ MaxTicket \in Nat /\ rows \in [Tickets -> Row]
  BY LedgerAssumption DEF LedgerType
<1>2. CASE Admit
  <2>1. UNCHANGED <<rows, next>> \/ \E r : rows' = [rows EXCEPT ![next + 1] = r] /\ next' = next + 1
    BY <1>2 DEF Admit, Unsupported
  <2>2. poisoned => poisoned'
    BY <1>2 DEF Admit, Unsupported
  <2>3. \A t \in Tickets : rows'[t] = rows[t] \/ (t > next /\ next' # next)
    BY <1>1, <2>1 DEF Tickets
  <2> QED  BY <1>1, <2>1, <2>2, <2>3
<1>3. ASSUME NEW t \in 0 .. MaxTicket, NEW b \in BOOLEAN,
             PostingReturned(t, b) \/ NeverPosted(t) \/ PostingUnwound(t) \/ Enter(t) \/ Returned(t, b)
      PROVE  /\ poisoned => poisoned'
             /\ UNCHANGED next
             /\ \A u \in Tickets : rows'[u].active => rows[u].active
  <2>1. UNCHANGED next /\ (poisoned => poisoned')
    BY <1>3 DEF PostingReturned, NeverPosted, PostingUnwound, Enter, Returned, Unsupported, ledgerVars
  <2>2. UNCHANGED rows \/ (rows[t].active /\ \E r : rows' = [rows EXCEPT ![t] = r])
    BY <1>3 DEF PostingReturned, NeverPosted, PostingUnwound, Enter, Returned, Unsupported,
                ledgerVars, Find, Active
  <2> QED  BY <1>1, <2>1, <2>2
<1>4. CASE Cut
  BY <1>1, <1>4 DEF Cut, Unsupported
<1>5. ASSUME NEW k \in cuts, ReleaseCut(k)
      PROVE  UNCHANGED <<poisoned, next, rows>>
  BY <1>5 DEF ReleaseCut
<1>6. CASE UNCHANGED ledgerVars
  BY <1>1, <1>6 DEF ledgerVars
<1> QED  BY <1>1, <1>2, <1>3, <1>4, <1>5, <1>6 DEF LedgerStep

(* Only Cut adds a cut, at the current sequence.                           *)
LEMMA LedgerCuts ==
  LedgerType /\ LedgerStep =>
    \/ nonce' = nonce /\ cuts' \subseteq cuts
    \/ nonce' = nonce + 1 /\ cuts' = cuts \cup {[nonce |-> nonce + 1, sequence |-> next]}
BY DEF LedgerStep, Admit, PostingReturned, NeverPosted, PostingUnwound, Enter, Returned, Cut,
       ReleaseCut, Unsupported, ledgerVars

(* An accepted command stays accepted and keeps its ticket, and only a     *)
(* barrier changes what is promised.                                       *)
LEMMA AcceptedStay ==
  TypeInv /\ ReaderInv /\ [Next]_vars =>
    /\ \A c \in Commands : stage[c] \notin {"unread", "counted"} =>
         stage'[c] \notin {"unread", "counted"} /\ ticket'[c] = ticket[c]
    /\ UNCHANGED promised \/ \E c \in Commands : RouteBarrier(c)
<1> SUFFICES ASSUME TypeInv, ReaderInv, [Next]_vars
             PROVE  /\ \A c \in Commands : stage[c] \notin {"unread", "counted"} =>
                         stage'[c] \notin {"unread", "counted"} /\ ticket'[c] = ticket[c]
                    /\ UNCHANGED promised \/ \E c \in Commands : RouteBarrier(c)
  OBVIOUS
<1>1. stage \in [Commands -> Stages] /\ ticket \in [Commands -> 0 .. MaxTicket]
  BY DEF TypeInv
<1>2. CASE ~(AwaitCapacity \/ AdmitLine \/ \E c \in Commands : RouteBarrier(c))
  <2>1. UNCHANGED <<ticket, promised>>
    BY <1>2 DEF Next, Reader, UI, Writer, ClientSends, ClientCloses, ReadLine, ReserveCanceled,
         ReserveReply, ReserveEvaluated, SleepForCredit, PostTask, PostReturned, PostThrows,
         PostCloseAll, EnterRoute, Route, RouteReturns, RouteThrows, Complete, EndBarrier,
         RunCloseTask, FatalFailure, CloseAll, StopReader, WakeReaders, JoinReader, WriteReply,
         WriterFails, vars
  <2>2. \/ UNCHANGED stage
        \/ \E c \in 0 .. N, v \in {"refused", "posting", "inqueue", "running", "routed"} :
             stage' = [stage EXCEPT ![c] = v]
    <3>1. cur \in 0 .. N /\ Commands \subseteq 0 .. N
      BY IntakeAssumption DEF TypeInv, Commands
    <3> QED
      BY <1>2, <3>1 DEF Next, Reader, UI, Writer, ClientSends, ClientCloses, ReadLine,
           ReserveCanceled, ReserveReply, ReserveEvaluated, SleepForCredit, PostTask, PostReturned,
           PostThrows, PostCloseAll, EnterRoute, Route, RouteReturns, RouteThrows, Complete,
           EndBarrier, RunCloseTask, FatalFailure, CloseAll, StopReader, WakeReaders, JoinReader,
           WriteReply, WriterFails, vars, readerVars
  <2> QED  BY <1>1, <2>1, <2>2
<1>3. CASE AwaitCapacity
  BY <1>1, <1>3 DEF AwaitCapacity, ReaderInv
<1>4. CASE AdmitLine
  BY <1>1, <1>4 DEF AdmitLine, ReaderInv
<1>5. ASSUME NEW c \in Commands, RouteBarrier(c) PROVE UNCHANGED <<stage, ticket>>
  BY <1>5 DEF RouteBarrier
<1> QED  BY <1>2, <1>3, <1>4, <1>5
(* Every step keeps the promised commands behind the sequence of their cut. *)
LEMMA CutsStep == TypeInv /\ ReaderInv /\ RowsInv /\ CutsInv /\ [Next]_vars => CutsInv'
<1> SUFFICES ASSUME TypeInv, ReaderInv, RowsInv, CutsInv, [Next]_vars PROVE CutsInv'
  OBVIOUS
<1>1. /\ LedgerType /\ nonce \in 0 .. MaxNonce /\ next \in 0 .. MaxTicket
      /\ cuts \subseteq CutOf /\ MaxNonce \in Nat /\ MaxTicket \in Nat
      /\ promised \in [1 .. MaxNonce -> SUBSET Commands]
  BY LedgerAssumption DEF TypeInv, LedgerType
<1>2. (poisoned => poisoned') /\ next' \in Nat /\ next <= next'
  BY <1>1, NextIsLedgerStep, LedgerMonotone
<1>3. \/ nonce' = nonce /\ cuts' \subseteq cuts
      \/ nonce' = nonce + 1 /\ cuts' = cuts \cup {[nonce |-> nonce + 1, sequence |-> next]}
  BY <1>1, NextIsLedgerStep, LedgerCuts
<1>4. \A k \in cuts : /\ k.nonce \in 1 .. MaxNonce /\ k.sequence \in 0 .. MaxTicket
                      /\ k.nonce <= nonce /\ k.sequence <= next
  BY <1>1 DEF CutOf, CutsInv
<1>5. \A k \in cuts' : k.nonce <= nonce' /\ k.sequence <= next'
  BY <1>1, <1>2, <1>3, <1>4
<1>6. ASSUME ~poisoned', NEW k \in cuts', NEW c \in promised'[k.nonce]
      PROVE  stage'[c] \notin {"unread", "counted"} /\ ticket'[c] <= k.sequence
  <2>1. CASE k \in cuts /\ c \in promised[k.nonce]
    <3>1. c \in Commands /\ stage[c] \notin {"unread", "counted"} /\ ticket[c] <= k.sequence
      BY <1>1, <1>2, <1>4, <1>6, <2>1 DEF CutsInv
    <3> QED  BY <3>1, AcceptedStay
  <2>2. CASE ~(\E d \in Commands : RouteBarrier(d))
    <3>1. promised' = promised
      BY <2>2, AcceptedStay, SMTT(40), ZenonT(60)
    <3>2. cuts' \subseteq cuts
      BY <2>2 DEF Next, Reader, UI, Writer, ClientSends, ClientCloses, ReadLine, AwaitCapacity,
         AdmitLine, ReserveCanceled, ReserveReply, ReserveEvaluated, SleepForCredit, PostTask,
         PostReturned, PostThrows, PostCloseAll, EnterRoute, Route, RouteReturns, RouteThrows,
         Complete, EndBarrier, RunCloseTask, FatalFailure, CloseAll, StopReader, WakeReaders,
         JoinReader, WriteReply, WriterFails, vars, Admit, PostingReturned, NeverPosted,
         PostingUnwound, Enter, Returned, ReleaseCut, Unsupported, ledgerVars
    <3> QED  BY <1>6, <2>1, <3>1, <3>2
  <2>3. ASSUME NEW d \in Commands, RouteBarrier(d)
        PROVE  stage'[c] \notin {"unread", "counted"} /\ ticket'[c] <= k.sequence
    <3>1. /\ ~poisoned /\ nonce < MaxNonce /\ UNCHANGED <<stage, ticket>>
          /\ cuts' = cuts \cup {[nonce |-> nonce + 1, sequence |-> next]}
      BY <1>1, <1>2, <1>6, <2>3 DEF RouteBarrier, Cut, CutRefused
    <3>2. promised' = [promised EXCEPT ![nonce + 1] =
                         {e \in Commands : stage[e] \notin {"unread", "counted"}}]
      BY <2>3 DEF RouteBarrier
    <3>3. CASE k \in cuts
      <4>1. promised'[k.nonce] = promised[k.nonce]
        BY <1>1, <1>4, <3>2, <3>3
      <4> QED  BY <1>6, <2>1, <3>3, <4>1
    <3>4. CASE k = [nonce |-> nonce + 1, sequence |-> next]
      <4>1. k.nonce = nonce + 1 /\ k.sequence = next /\ nonce + 1 \in 1 .. MaxNonce
        BY <1>1, <3>1, <3>4
      <4>2. c \in Commands /\ stage[c] \notin {"unread", "counted"}
        BY <1>1, <1>6, <3>2, <4>1
      <4>3. ticket[c] \in 1 .. next
        BY <3>1, <4>2 DEF RowsInv
      <4> QED  BY <1>1, <3>1, <4>1, <4>2, <4>3
    <3> QED  BY <1>6, <3>1, <3>3, <3>4
  <2> QED  BY <2>2, <2>3
<1> QED  BY <1>5, <1>6 DEF CutsInv

(* IInv is inductive. *)
THEOREM IInvHolds == Spec => []IInv
<1>1. Init => IInv
  BY TypeInit, ReaderInit, RowsInit DEF IInv, CutsInv, Init, LedgerInit
<1>2. IInv /\ [Next]_vars => IInv'
  BY TypeStep, ReaderStep, RowsStep, CutsStep DEF IInv
<1> QED  BY <1>1, <1>2, PTL DEF Spec

(***************************************************************************)
(* The theorems.                                                           *)
(***************************************************************************)

(* Type correctness, the ranges of queued_commands_ and used_ included:    *)
(* Release never finds a counter at zero and Reserve never passes the      *)
(* capacity.                                                               *)
THEOREM TypeCorrect == Spec => []TypeOK
<1>1. CountInv => TypeOK
  <2> SUFFICES ASSUME CountInv PROVE TypeOK
    OBVIOUS
  <2>1. IsFiniteSet(Commands)
    BY IntakeAssumption, FS_Interval DEF Commands
  <2>2. Cardinality(Queued) \in Nat /\ Cardinality(Owing) \in Nat
    BY <2>1, FS_Subset, FS_CardinalityType DEF Queued, Owing
  <2>3. queued \in 0 .. QueueCap /\ used \in 0 .. CreditCap
    BY <2>2, IntakeAssumption DEF CountInv, QueueAccounting, CreditConservation, Queued, Owing
  <2> QED  BY <2>3 DEF CountInv, TypeInv, TypeOK
<1> QED  BY <1>1, CountersExact, PTL

(* queued_commands_ counts exactly the commands that wait for the UI       *)
(* thread.                                                                 *)
THEOREM QueueIsCounted == Spec => []QueueAccounting
<1>1. CountInv => QueueAccounting
  BY DEF CountInv
<1> QED  BY <1>1, CountersExact, PTL

(* The credits in use are exactly the replies due.                         *)
THEOREM CreditsAreConserved == Spec => []CreditConservation
<1>1. CountInv => CreditConservation
  BY DEF CountInv
<1> QED  BY <1>1, CountersExact, PTL

(* A cut that AcceptedReaderWork reports as passed is truthful: every      *)
(* command accepted before it has finished, and the reader has left its    *)
(* CefPostTask.                                                            *)
THEOREM CutsAreSound == Spec => []CutSound
<1>1. IInv => CutSound
  <2> SUFFICES ASSUME IInv, NEW k \in cuts, Through(k), NEW c \in promised[k.nonce]
               PROVE  stage[c] \in Settled
                      /\ ~(c = cur /\ rpc \in {"post", "accepted", "declined"})
    BY DEF CutSound
  <2>1. ~poisoned /\ \A t \in Tickets : rows[t].active => t > k.sequence
    BY DEF Through, Active
  <2>2. k.nonce \in 1 .. MaxNonce /\ k.sequence \in 0 .. MaxTicket /\ c \in Commands
    BY DEF IInv, TypeInv, LedgerType, CutOf
  <2>3. stage[c] \notin {"unread", "counted"} /\ ticket[c] <= k.sequence
    BY <2>1 DEF IInv, CutsInv
  <2>4. next \in 0 .. MaxTicket /\ ticket[c] \in 1 .. next /\ MaxTicket \in Nat
    BY <2>1, <2>2, <2>3, LedgerAssumption DEF IInv, RowsInv, TypeInv, LedgerType
  <2>5. ~rows[ticket[c]].active
    BY <2>1, <2>2, <2>3, <2>4 DEF Tickets
  <2>6. ~(stage[c] \in {"held", "posting", "inqueue", "running"} \/ InPost(c))
    BY <2>1, <2>2, <2>5 DEF IInv, RowsInv, RowTells
  <2>7. stage[c] \in Stages
    BY <2>2 DEF IInv, TypeInv
  <2> QED  BY <2>3, <2>6, <2>7 DEF Stages, Settled, InPost
<1> QED  BY <1>1, IInvHolds, PTL

(* A cut that passed stays passed: a later admission does not join it.     *)
THEOREM CutsStayPassed == Spec => PassedCutsStay
<1>1. IInv /\ [Next]_vars =>
        [\A k \in cuts \cap cuts' : Through(k) /\ ~poisoned' => Through(k)']_vars
  <2> SUFFICES ASSUME IInv, [Next]_vars, NEW k \in cuts \cap cuts', Through(k), ~poisoned'
               PROVE  Through(k)'
    OBVIOUS
  <2>1. \A t \in Tickets : rows'[t].active => rows[t].active \/ t > next
    BY NextIsLedgerStep, LedgerMonotone DEF IInv, TypeInv
  <2>2. k.sequence <= next /\ k.sequence \in Nat /\ next \in Nat
    BY LedgerAssumption DEF IInv, CutsInv, TypeInv, LedgerType, CutOf
  <2>3. \A t \in Tickets : rows'[t].active => t > k.sequence
    BY <2>1, <2>2, LedgerAssumption DEF Through, Active, Tickets
  <2> QED  BY <2>3 DEF Through, Active
<1> QED  BY <1>1, IInvHolds, PTL DEF Spec, PassedCutsStay

(***************************************************************************)
(* Load.  A row is active only for a command on its way, so the rows in    *)
(* use at an admission are those of the UI queue and of the route stack.   *)
(***************************************************************************)
OnItsWay(c) == stage[c] \in {"held", "posting", "inqueue", "running"} \/ InPost(c)

OwnersInv ==
  ~poisoned => \A t \in Tickets : rows[t].active => \E c \in Commands : OnItsWay(c) /\ ticket[c] = t

Excused == next = MaxTicket \/ rpc = "crashed" \/ \E c \in Commands : reply[c] = "lost"

LoadInv == /\ IInv /\ CountInv /\ OwnersInv
           /\ Cardinality(Running) <= Depth
           /\ poisoned => Excused

(* A report frees the row when it was the last that the row waited for.    *)
LEMMA ReportFrees ==
  ASSUME LedgerType, NEW t, Find(t), rows[t].post = "no" \/ rows[t].post = "accepted"
  PROVE  /\ NeverPosted(t) /\ rows[t].post = "no" /\ ~rows[t].entered => ~rows'[t].active
         /\ PostingReturned(t, FALSE) /\ rows[t].post = "no" /\ ~rows[t].entered => ~rows'[t].active
         /\ PostingReturned(t, TRUE) /\ rows[t].post = "no" /\ rows[t].returned => ~rows'[t].active
         /\ Returned(t, FALSE) /\ rows[t].post = "accepted" /\ rows[t].entered /\ ~rows[t].returned
              => ~rows'[t].active
<1>1. t \in Tickets /\ rows \in [Tickets -> Row] /\ rows[t] \in Row
  BY DEF Find, Active, LedgerType
<1>2. ASSUME NEW r \in Row, Retired(r), rows' = [rows EXCEPT ![t] = Retire(r)]
      PROVE  ~rows'[t].active
  <2>1. Retire(r).active = ~Retired(r)
    BY <1>2, RetireRow
  <2>2. rows'[t] = Retire(r)
    BY <1>1, <1>2
  <2> QED  BY <1>2, <2>1, <2>2
<1>3. ASSUME NEW p \in {"refused", "accepted"}, p = "refused" => ~rows[t].entered,
             p = "accepted" => rows[t].returned,
             rows' = [rows EXCEPT ![t] = Retire([rows[t] EXCEPT !.post = p])]
      PROVE  ~rows'[t].active
  <2> DEFINE r == [rows[t] EXCEPT !.post = p]
  <2>1. r \in Row /\ r.post = p /\ r.entered = rows[t].entered /\ r.returned = rows[t].returned
    BY <1>1, <1>3 DEF Row, Posts
  <2>2. Retired(r)
    BY <1>3, <2>1 DEF Retired
  <2>3. rows' = [rows EXCEPT ![t] = Retire(r)]
    BY <1>3
  <2> HIDE DEF r
  <2> QED  BY <1>2, <2>1, <2>2, <2>3
<1>4. ASSUME rows[t].post = "accepted",
             rows' = [rows EXCEPT ![t] = Retire([rows[t] EXCEPT !.returned = TRUE])]
      PROVE  ~rows'[t].active
  <2> DEFINE r == [rows[t] EXCEPT !.returned = TRUE]
  <2>1. r \in Row /\ r.post = "accepted" /\ r.returned
    BY <1>1, <1>4 DEF Row
  <2>2. Retired(r)
    BY <2>1 DEF Retired
  <2>3. rows' = [rows EXCEPT ![t] = Retire(r)]
    BY <1>4
  <2> HIDE DEF r
  <2> QED  BY <1>2, <2>1, <2>2, <2>3
<1>5. NeverPosted(t) /\ rows[t].post = "no" /\ ~rows[t].entered => ~rows'[t].active
  BY <1>3 DEF NeverPosted
<1>6. PostingReturned(t, FALSE) /\ rows[t].post = "no" /\ ~rows[t].entered => ~rows'[t].active
  BY <1>3 DEF PostingReturned
<1>7. PostingReturned(t, TRUE) /\ rows[t].post = "no" /\ rows[t].returned => ~rows'[t].active
  BY <1>3 DEF PostingReturned
<1>8. Returned(t, FALSE) /\ rows[t].post = "accepted" /\ rows[t].entered /\ ~rows[t].returned
        => ~rows'[t].active
  BY <1>4 DEF Returned
<1> QED  BY <1>5, <1>6, <1>7, <1>8

(* What the row of a command on its way says, on a sound ledger.           *)
LEMMA RowOfCommand ==
  ASSUME IInv, ~poisoned, NEW c \in Commands, OnItsWay(c)
  PROVE  /\ ticket[c] \in Tickets /\ Find(ticket[c])
         /\ stage[c] \notin {"unread", "counted"} /\ RowTells(c)
<1>1. stage[c] \notin {"unread", "counted"}
  BY DEF OnItsWay, InPost, IInv, ReaderInv
<1>2. RowTells(c) /\ ticket[c] \in 1 .. next
  BY <1>1 DEF IInv, RowsInv, OnItsWay
<1>3. ticket[c] \in Tickets
  BY <1>2, LedgerAssumption DEF IInv, TypeInv, LedgerType, Tickets
<1> QED  BY <1>1, <1>2, <1>3 DEF RowTells, Find, Active

(* Every step keeps each active row with a command on its way.             *)
LEMMA OwnersStep == IInv /\ OwnersInv /\ [Next]_vars => OwnersInv'
<1> SUFFICES ASSUME IInv, OwnersInv, [Next]_vars, ~poisoned',
                    NEW t \in Tickets, rows'[t].active
             PROVE  \E c \in Commands : OnItsWay(c)' /\ ticket'[c] = t
  BY DEF OwnersInv
<1>1. /\ LedgerType /\ cur \in 0 .. N /\ next \in 0 .. MaxTicket /\ MaxTicket \in Nat
      /\ stage \in [Commands -> Stages] /\ ticket \in [Commands -> 0 .. MaxTicket]
      /\ ReaderInv /\ TypeInv
  BY LedgerAssumption DEF IInv, TypeInv, LedgerType
<1>2. ~poisoned /\ (rows[t].active \/ t > next)
  BY <1>1, NextIsLedgerStep, LedgerMonotone
<1>3. CASE AdmitLine
  <2>1. cur \in Commands /\ stage[cur] = "counted" /\ rpc = "admit"
    BY <1>1, <1>3 DEF AdmitLine, ReaderInv
  <2>2. /\ AdmitTicket = next + 1
        /\ \A u \in Tickets \ {next + 1} : rows'[u] = rows[u]
    BY <1>1, <1>3, AdmitEffect DEF AdmitLine
  <2>3. /\ \A c \in Commands : stage'[c] = IF c = cur THEN "held" ELSE stage[c]
        /\ \A c \in Commands : ticket'[c] = IF c = cur THEN next + 1 ELSE ticket[c]
        /\ cur' = cur /\ rpc' = "reserve"
    BY <1>1, <1>3, <2>1, <2>2 DEF AdmitLine
  <2>4. CASE t = next + 1
    BY <2>1, <2>3, <2>4 DEF OnItsWay
  <2>5. CASE t # next + 1
    <3>1. PICK c \in Commands : OnItsWay(c) /\ ticket[c] = t
      BY <1>2, <2>2, <2>5 DEF OwnersInv
    <3>2. c # cur
      BY <2>1, <3>1 DEF OnItsWay, InPost
    <3> QED  BY <2>1, <2>3, <3>1, <3>2 DEF OnItsWay, InPost
  <2> QED  BY <2>4, <2>5
<1>4. CASE ~AdmitLine
  <2>1. next' = next /\ ticket' = ticket
    <3> USE <1>4 DEF Next, Reader, UI, Writer, ClientSends, ClientCloses, ReadLine, AwaitCapacity,
            ReserveCanceled, ReserveReply, ReserveEvaluated, SleepForCredit, PostTask, PostReturned,
            PostThrows, PostCloseAll, EnterRoute, Route, RouteBarrier, RouteReturns, RouteThrows,
            Complete, EndBarrier, RunCloseTask, FatalFailure, CloseAll, StopReader, WakeReaders,
            JoinReader, WriteReply, WriterFails, vars
    <3>1. ticket' = ticket
      OBVIOUS
    <3>2. next' = next
      BY DEF PostingReturned, NeverPosted, PostingUnwound, Enter, Returned, Cut, ReleaseCut,
             Unsupported, ledgerVars
    <3> QED  BY <3>1, <3>2
  <2>2. rows[t].active
    BY <1>1, <2>1, NextIsLedgerStep, LedgerMonotone
  <2>3. PICK c \in Commands : OnItsWay(c) /\ ticket[c] = t
    BY <1>2, <2>2 DEF OwnersInv
  <2>4. Find(t) /\ RowTells(c) /\ stage[c] \notin {"unread", "counted"}
    BY <1>2, <2>3, RowOfCommand
  <2>5. SUFFICES OnItsWay(c)'
    BY <2>1, <2>3
  <2>6. CASE ReserveCanceled
    <3>1. cur \in Commands /\ stage[cur] = "held" /\ rpc = "reserve"
      BY <1>1, <2>6 DEF ReserveCanceled, ReaderInv
    <3>2. c # cur
      <4> SUFFICES ASSUME c = cur PROVE FALSE
        OBVIOUS
      <4>1. NeverPosted(t) /\ rows[t].post = "no" /\ ~rows[t].entered
        BY <2>3, <2>4, <2>6, <3>1 DEF ReserveCanceled, RowTells
      <4> QED  BY <1>1, <2>4, <4>1, ReportFrees
    <3> QED  BY <1>1, <2>3, <2>6, <3>1, <3>2 DEF ReserveCanceled, OnItsWay, InPost
  <2>7. CASE PostReturned
    <3>1. cur \in Commands /\ (rpc = "accepted" => stage[cur] \in {"inqueue", "running", "routed"})
          /\ (rpc = "declined" => stage[cur] = "posting") /\ rpc \in {"accepted", "declined"}
      BY <1>1, <2>7 DEF PostReturned, ReaderInv
    <3>2. CASE c = cur
      <4>1. rows[t].post = "no" /\ (rows[t].entered <=> stage[c] \in {"running", "routed"})
            /\ (rows[t].returned <=> stage[c] = "routed")
        BY <2>3, <2>4, <3>1, <3>2 DEF RowTells, InPost
      <4>2. rpc # "declined"
        <5> SUFFICES ASSUME rpc = "declined" PROVE FALSE
          OBVIOUS
        <5>1. PostingReturned(t, FALSE) /\ ~rows[t].entered
          BY <2>3, <2>7, <3>1, <3>2, <4>1 DEF PostReturned
        <5> QED  BY <1>1, <2>4, <4>1, <5>1, ReportFrees
      <4>3. stage[c] # "routed"
        <5> SUFFICES ASSUME stage[c] = "routed" PROVE FALSE
          OBVIOUS
        <5>1. PostingReturned(t, TRUE) /\ rows[t].returned
          BY <2>3, <2>7, <3>1, <3>2, <4>1, <4>2 DEF PostReturned
        <5> QED  BY <1>1, <2>4, <4>1, <5>1, ReportFrees
      <4> QED  BY <2>7, <3>1, <3>2, <4>2, <4>3 DEF PostReturned, OnItsWay
    <3>3. CASE c # cur
      BY <1>1, <2>3, <2>7, <3>1, <3>3 DEF PostReturned, OnItsWay, InPost
    <3> QED  BY <3>2, <3>3
  <2>8. CASE PostThrows
    <3>1. cur \in Commands /\ InPost(cur)
      BY <1>1, <2>8 DEF PostThrows, ReaderInv, InPost
    <3>2. Find(ticket[cur]) /\ rows[ticket[cur]].post = "no"
      BY <1>2, <3>1, RowOfCommand DEF OnItsWay, RowTells
    <3>3. poisoned'
      BY <2>8, <3>2 DEF PostThrows, PostingUnwound
    <3> QED  BY <3>3
  <2>9. ASSUME NEW d \in Commands, RouteReturns(d) PROVE OnItsWay(c)'
    <3>1. /\ \A e \in Commands : stage'[e] = IF e = d THEN "routed" ELSE stage[e]
          /\ cur' = cur /\ rpc' = rpc /\ stage[d] = "running"
      BY <1>1, <2>9 DEF RouteReturns, readerVars
    <3>2. CASE c # d
      BY <2>3, <3>1, <3>2 DEF OnItsWay, InPost
    <3>3. CASE c = d /\ ~InPost(c)
      <4>1. Returned(t, FALSE) /\ rows[t].post = "accepted" /\ rows[t].entered /\ ~rows[t].returned
        BY <2>3, <2>4, <2>9, <3>1, <3>3 DEF RouteReturns, RowTells
      <4> QED  BY <1>1, <2>4, <4>1, ReportFrees
    <3>4. CASE InPost(c)
      BY <3>1, <3>4 DEF OnItsWay, InPost
    <3> QED  BY <3>2, <3>3, <3>4
  <2>10. ASSUME NEW d \in Commands, RouteThrows(d) PROVE OnItsWay(c)'
    BY <2>10 DEF RouteThrows, Returned, Unsupported
  <2>11. CASE \/ ClientSends \/ ClientCloses \/ ReadLine \/ ReserveEvaluated \/ SleepForCredit
              \/ PostCloseAll \/ RunCloseTask \/ FatalFailure \/ StopReader \/ WakeReaders
              \/ JoinReader \/ WriterFails \/ UNCHANGED vars
    BY <2>3, <2>11 DEF ClientSends, ClientCloses, ReadLine, ReserveEvaluated, SleepForCredit,
         PostCloseAll, RunCloseTask, FatalFailure, CloseAll, StopReader, WakeReaders, Wakened,
         JoinReader, WriterFails, vars, readerVars, OnItsWay, InPost
  <2>12. CASE AwaitCapacity \/ ReserveReply \/ PostTask
    BY <1>1, <2>3, <2>4, <2>12 DEF AwaitCapacity, ReserveReply, PostTask, OnItsWay, InPost, ReaderInv
  <2>13. ASSUME NEW d \in Commands, EnterRoute(d) PROVE OnItsWay(c)'
    BY <1>1, <2>3, <2>13 DEF EnterRoute, OnItsWay, InPost
  <2>14. ASSUME NEW d \in Commands,
                Route(d) \/ RouteBarrier(d) \/ Complete(d) \/ EndBarrier(d) \/ WriteReply(d)
         PROVE  OnItsWay(c)'
    BY <2>3, <2>14 DEF Route, RouteBarrier, Complete, EndBarrier, WriteReply, Wakened, readerVars,
         OnItsWay, InPost
  <2> QED
    BY <1>4, <2>6, <2>7, <2>8, <2>9, <2>10, <2>11, <2>12, <2>13, <2>14 DEF Next, Reader, UI, Writer
<1> QED  BY <1>3, <1>4

(* An admission finds a free row: those in use belong to commands in the   *)
(* UI queue, one less than its capacity without the line that is admitted, *)
(* and to route frames.                                                    *)
LEMMA RowsSuffice ==
  ASSUME QueueCap + Depth <= RowCap, LoadInv, ~poisoned, rpc = "admit"
  PROVE  Cardinality(Active) < RowCap
<1>1. cur \in Commands /\ stage[cur] = "counted"
  BY DEF LoadInv, IInv, ReaderInv
<1>2. IsFiniteSet(Commands)
  BY IntakeAssumption, FS_Interval DEF Commands
<1> DEFINE waiting == Queued \ {cur}
           owners == waiting \cup Running
<1>3. IsFiniteSet(Queued) /\ IsFiniteSet(Running) /\ Cardinality(Running) \in Nat /\ cur \in Queued
  BY <1>1, <1>2, FS_Subset, FS_CardinalityType DEF Queued, Running
<1>4. IsFiniteSet(waiting) /\ Cardinality(waiting) = Cardinality(Queued) - 1
  BY <1>3, FS_RemoveElement
<1>5. waiting \cap Running = {}
  BY DEF Queued, Running
<1>6. IsFiniteSet(owners) /\ Cardinality(owners) = Cardinality(waiting) + Cardinality(Running)
  <2>1. Cardinality(waiting \cap Running) = 0 /\ Cardinality(waiting) \in Nat
    BY <1>4, <1>5, FS_EmptySet, FS_CardinalityType
  <2>2. /\ IsFiniteSet(waiting \cup Running)
        /\ Cardinality(waiting \cup Running) =
             Cardinality(waiting) + Cardinality(Running) - Cardinality(waiting \cap Running)
    <3> HIDE DEF waiting
    <3> QED  BY <1>3, <1>4, FS_Union
  <2> HIDE DEF waiting
  <2> QED  BY <1>3, <2>1, <2>2
<1>7. \A t \in Active : \E c \in owners : ticket[c] = t
  <2> SUFFICES ASSUME NEW t \in Active PROVE \E c \in owners : ticket[c] = t
    OBVIOUS
  <2>1. PICK c \in Commands : OnItsWay(c) /\ ticket[c] = t
    BY DEF LoadInv, OwnersInv, Active
  <2>2. c \in owners
    BY <1>1, <2>1 DEF OnItsWay, InPost, Queued, Running
  <2> QED  BY <2>1, <2>2
<1>8. Cardinality(Active) <= Cardinality(owners) /\ Cardinality(Active) \in Nat
  <2> DEFINE some == {c \in owners : ticket[c] \in Active}
             f == [c \in some |-> ticket[c]]
  <2>1. f \in Surjection(some, Active)
    <3>1. f \in [some -> Active]
      OBVIOUS
    <3>2. \A t \in Active : \E c \in some : f[c] = t
      BY <1>7
    <3> QED  BY <3>1, <3>2 DEF Surjection
  <2>2. IsFiniteSet(some) /\ Cardinality(some) <= Cardinality(owners)
    BY <1>6, FS_Subset
  <2>3. IsFiniteSet(Active) /\ Cardinality(Active) <= Cardinality(some)
    BY <2>1, <2>2, FS_Surjection
  <2>4. Cardinality(some) \in Nat /\ Cardinality(owners) \in Nat /\ Cardinality(Active) \in Nat
    BY <1>6, <2>2, <2>3, FS_CardinalityType
  <2> QED  BY <2>2, <2>3, <2>4
<1>9. Cardinality(Queued) <= QueueCap /\ Cardinality(Running) <= Depth
  BY DEF LoadInv, CountInv, QueueAccounting, Queued
<1>10. Cardinality(Queued) \in Nat
  BY <1>3, FS_CardinalityType
<1> HIDE DEF owners, waiting
<1> QED  BY <1>3, <1>4, <1>6, <1>8, <1>9, <1>10, IntakeAssumption, LedgerAssumption

(* Only EnterRoute adds a frame to the route stack, and only below Depth.  *)
LEMMA StackStep ==
  TypeInv /\ ReaderInv /\ Cardinality(Running) <= Depth /\ [Next]_vars => Cardinality(Running') <= Depth
<1> SUFFICES ASSUME TypeInv, ReaderInv, Cardinality(Running) <= Depth, [Next]_vars
             PROVE  Cardinality(Running') <= Depth
  OBVIOUS
<1>1. stage \in [Commands -> Stages] /\ IsFiniteSet(Running) /\ Cardinality(Running) \in Nat
  <2>1. IsFiniteSet(Commands)
    BY IntakeAssumption, FS_Interval DEF Commands
  <2> QED  BY <2>1, FS_Subset, FS_CardinalityType DEF TypeInv, Running
<1>2. ASSUME NEW c \in Commands, EnterRoute(c) PROVE Cardinality(Running') <= Depth
  <2>1. Running' = Running \cup {c}
    BY <1>1, <1>2 DEF EnterRoute, Running
  <2>2. Cardinality(Running) < Depth
    BY <1>2 DEF EnterRoute, TaskMayRun
  <2>3. c \notin Running
    BY <1>2 DEF EnterRoute, Running
  <2>4. Cardinality(Running \cup {c}) = Cardinality(Running) + 1
    BY <1>1, <2>3, FS_AddElement
  <2> QED  BY <1>1, <2>1, <2>2, <2>4, IntakeAssumption
<1>3. CASE ~\E c \in Commands : EnterRoute(c)
  <2>1. \/ UNCHANGED stage
        \/ \E c \in Commands, v \in {"counted", "held", "refused", "posting", "inqueue", "routed"} :
             stage' = [stage EXCEPT ![c] = v]
    BY <1>3 DEF Next, Reader, UI, Writer, ClientSends, ClientCloses, ReadLine, AwaitCapacity,
         AdmitLine, ReserveCanceled, ReserveReply, ReserveEvaluated, SleepForCredit, PostTask,
         PostReturned, PostThrows, PostCloseAll, Route, RouteBarrier, RouteReturns, RouteThrows,
         Complete, EndBarrier, RunCloseTask, FatalFailure, CloseAll, StopReader, WakeReaders,
         JoinReader, WriteReply, WriterFails, vars, readerVars, ReaderInv
  <2>2. Running' \subseteq Running
    BY <1>1, <2>1 DEF Running
  <2> QED  BY <1>1, <2>2, FS_Subset, FS_CardinalityType, IntakeAssumption
<1> QED  BY <1>2, <1>3

(* What excuses a poisoned ledger stays: the ticket counter does not move  *)
(* back, a thread that died stays dead, and a lost reply stays lost.       *)
LEMMA ExcuseStays == TypeInv /\ ReaderInv /\ Excused /\ [Next]_vars => Excused'
<1> SUFFICES ASSUME TypeInv, ReaderInv, Excused, [Next]_vars PROVE Excused'
  OBVIOUS
<1>1. CASE next = MaxTicket
  <2>1. next' \in Nat /\ next <= next' /\ LedgerType'
    BY NextIsLedgerStep, LedgerMonotone, LedgerStepType DEF TypeInv
  <2> QED  BY <1>1, <2>1, LedgerAssumption DEF Excused, LedgerType
<1>2. CASE rpc = "crashed"
  BY <1>2 DEF Excused, Next, Reader, UI, Writer, ClientSends, ClientCloses, ReadLine, AwaitCapacity,
         AdmitLine, ReserveCanceled, ReserveReply, ReserveEvaluated, SleepForCredit, PostTask,
         PostReturned, PostThrows, PostCloseAll, EnterRoute, Route, RouteBarrier, RouteReturns,
         RouteThrows, Complete, EndBarrier, RunCloseTask, FatalFailure, CloseAll, StopReader,
         WakeReaders, Wakened, JoinReader, WriteReply, WriterFails, vars, readerVars
<1>3. ASSUME NEW c \in Commands, reply[c] = "lost" PROVE Excused'
  <2>1. reply \in [Commands -> Replies]
    BY DEF TypeInv
  <2>2. CASE UNCHANGED reply
    BY <1>3, <2>2 DEF Excused
  <2>3. ASSUME NEW d \in Commands, reply[d] # "lost", NEW v, reply' = [reply EXCEPT ![d] = v]
        PROVE  Excused'
    BY <1>3, <2>1, <2>3 DEF Excused
  <2>4. CASE RunCloseTask \/ FatalFailure
    BY <1>3, <2>1, <2>4 DEF RunCloseTask, FatalFailure, CloseAll, Excused
  <2>5. CASE ReserveReply \/ PostReturned
    BY <2>2, <2>3, <2>5, SMTT(40), ZenonT(60) DEF ReserveReply, PostReturned, creditVars, ReaderInv
  <2>6. ASSUME NEW d \in Commands,
               \/ Route(d) \/ RouteBarrier(d) \/ RouteThrows(d) \/ Complete(d) \/ EndBarrier(d)
               \/ WriteReply(d)
        PROVE  Excused'
    BY <2>3, <2>6 DEF Route, RouteBarrier, RouteThrows, Complete, EndBarrier, WriteReply
  <2>7. CASE ~(RunCloseTask \/ FatalFailure \/ ReserveReply \/ PostReturned \/
               \E d \in Commands : Route(d) \/ RouteBarrier(d) \/ RouteThrows(d) \/ Complete(d)
                                     \/ EndBarrier(d) \/ WriteReply(d))
    BY <2>2, <2>7 DEF Next, Reader, UI, Writer, ClientSends, ClientCloses, ReadLine, AwaitCapacity,
         AdmitLine, ReserveCanceled, ReserveEvaluated, SleepForCredit, PostTask, PostThrows,
         PostCloseAll, EnterRoute, RouteReturns, StopReader, WakeReaders, JoinReader, WriterFails,
         vars, creditVars
  <2> QED  BY <2>4, <2>5, <2>6, <2>7
<1> QED  BY <1>1, <1>2, <1>3 DEF Excused

(* On a sound ledger only an admission that finds no ticket, a post call   *)
(* that throws or a route frame that is unwound poisons.                   *)
LEMMA PoisonHasCause ==
  ASSUME QueueCap + Depth <= RowCap, LoadInv, [Next]_vars, ~poisoned, poisoned'
  PROVE  Excused'
<1>1. /\ LedgerType /\ ReaderInv /\ TypeInv /\ IInv
      /\ stage \in [Commands -> Stages] /\ reply \in [Commands -> Replies]
  BY DEF LoadInv, IInv, TypeInv
<1>2. CASE AdmitLine
  <2>1. Cardinality(Active) < RowCap
    BY <1>2, RowsSuffice DEF AdmitLine
  <2>2. AdmitTicket = 0 /\ next' = next
    BY <1>2 DEF AdmitLine, Admit, Unsupported
  <2>3. next = MaxTicket
    BY <1>1, <2>1, <2>2, LedgerAssumption DEF AdmitTicket, LedgerType
  <2> QED  BY <2>2, <2>3 DEF Excused
<1>3. CASE PostThrows
  BY <1>3 DEF PostThrows, Excused
<1>4. ASSUME NEW c \in Commands, RouteThrows(c) PROVE Excused'
  BY <1>1, <1>4 DEF RouteThrows, Excused
<1>5. CASE ReserveCanceled
  BY <1>5 DEF ReserveCanceled, NeverPosted, ledgerVars
<1>6. CASE PostReturned
  <2>1. cur \in Commands /\ OnItsWay(cur) /\ InPost(cur)
        /\ (rpc = "declined" => stage[cur] = "posting")
    BY <1>1, <1>6 DEF PostReturned, ReaderInv, OnItsWay, InPost
  <2>2. /\ Find(ticket[cur]) /\ rows[ticket[cur]].post = "no"
        /\ rpc = "declined" => ~rows[ticket[cur]].entered
    BY <1>1, <2>1, RowOfCommand DEF RowTells
  <2> QED  BY <1>6, <2>2 DEF PostReturned, PostingReturned
<1>7. ASSUME NEW c \in Commands, EnterRoute(c) PROVE Excused'
  <2>1. stage[c] = "inqueue" /\ OnItsWay(c)
    BY <1>7 DEF EnterRoute, OnItsWay
  <2>2. /\ Find(ticket[c]) /\ ~rows[ticket[c]].entered /\ rows[ticket[c]].post # "refused"
    BY <1>1, <2>1, RowOfCommand DEF RowTells
  <2> QED  BY <1>7, <2>2 DEF EnterRoute, Enter
<1>8. ASSUME NEW c \in Commands, RouteReturns(c) PROVE Excused'
  <2>1. stage[c] = "running" /\ OnItsWay(c)
    BY <1>8 DEF RouteReturns, OnItsWay
  <2>2. /\ Find(ticket[c]) /\ rows[ticket[c]].entered /\ ~rows[ticket[c]].returned
    BY <1>1, <2>1, RowOfCommand DEF RowTells
  <2> QED  BY <1>8, <2>2 DEF RouteReturns, Returned
<1>9. ASSUME NEW c \in Commands, RouteBarrier(c) \/ EndBarrier(c) PROVE Excused'
  BY <1>9 DEF RouteBarrier, EndBarrier, Cut, ReleaseCut, ledgerVars
<1>10. CASE ~(AdmitLine \/ PostThrows \/ ReserveCanceled \/ PostReturned
              \/ \E c \in Commands : RouteThrows(c) \/ EnterRoute(c) \/ RouteReturns(c)
                                       \/ RouteBarrier(c) \/ EndBarrier(c))
  BY <1>10 DEF Next, Reader, UI, Writer, ClientSends, ClientCloses, ReadLine, AwaitCapacity,
       ReserveReply, ReserveEvaluated, SleepForCredit, PostTask, PostCloseAll, Route, Complete,
       RunCloseTask, FatalFailure, CloseAll, StopReader, WakeReaders, JoinReader, WriteReply,
       WriterFails, vars, ledgerVars
<1> QED  BY <1>2, <1>3, <1>4, <1>5, <1>6, <1>7, <1>8, <1>9, <1>10

(* Load alone never poisons the ledger, if it has a row for every command  *)
(* in the UI queue and for every frame of the route stack (128 rows for 64 *)
(* commands and as many frames in the code): what does is the end of the   *)
(* ticket counter or an exception.                                         *)
THEOREM LoadNeverPoisons ==
  ASSUME QueueCap + Depth <= RowCap
  PROVE  Spec => []NeverPoisonedByLoad
<1>1. Init => OwnersInv /\ Cardinality(Running) <= Depth /\ (poisoned => Excused)
  <2> SUFFICES ASSUME Init PROVE OwnersInv /\ Cardinality(Running) <= Depth /\ ~poisoned
    OBVIOUS
  <2>1. \A t \in Tickets : ~rows[t].active
    BY DEF Init, LedgerInit, FreeRow
  <2>2. Running = {}
    BY DEF Init, Running
  <2> QED  BY <2>1, <2>2, FS_EmptySet, IntakeAssumption DEF Init, LedgerInit, OwnersInv
<1>2. LoadInv /\ IInv' /\ CountInv' /\ [Next]_vars => LoadInv'
  <2> SUFFICES ASSUME LoadInv, IInv', CountInv', [Next]_vars PROVE LoadInv'
    OBVIOUS
  <2>1. OwnersInv'
    BY OwnersStep DEF LoadInv
  <2>2. Cardinality(Running') <= Depth
    BY StackStep DEF LoadInv, IInv
  <2>3. poisoned' => Excused'
    BY ExcuseStays, PoisonHasCause DEF LoadInv, IInv
  <2>4. (Cardinality(Running) <= Depth)'
    BY <2>2
  <2> QED  BY <2>1, <2>3, <2>4 DEF LoadInv
<1>3. LoadInv => NeverPoisonedByLoad
  BY DEF LoadInv, NeverPoisonedByLoad, Excused
<1>4. Spec => []LoadInv
  <2>1. Init /\ IInv /\ CountInv => LoadInv
    BY <1>1 DEF LoadInv
  <2> QED  BY <1>2, <2>1, IInvHolds, CountersExact, PTL DEF Spec
<1> QED  BY <1>3, <1>4, PTL
==============================================================================
