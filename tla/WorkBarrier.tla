---------------------------- MODULE WorkBarrier ----------------------------
(***************************************************************************)
(* What a work fence promises, whichever process decides what: a round is  *)
(* granted only when every command the client had written before it asked  *)
(* is settled, that is answered and the answer decoded by the client.  A   *)
(* round is granted at most once, never after it was denied, and the next  *)
(* one is asked for only when the last one was resumed.                    *)
(***************************************************************************)
EXTENDS Naturals

CONSTANTS Commands, Rounds

VARIABLES submitted, \* commands written by the client
          settled,   \* commands whose answer the client has decoded
          asked,     \* rounds the client has asked for
          before,    \* what had been submitted when each round was asked for
          verdict    \* what became of each round

vars == <<submitted, settled, asked, before, verdict>>

Init == /\ submitted = {} /\ settled = {} /\ asked = {}
        /\ before = [r \in Rounds |-> {}]
        /\ verdict = [r \in Rounds |-> "open"]

Submit(c) == /\ c \in Commands \ submitted
             /\ submitted' = submitted \cup {c}
             /\ UNCHANGED <<settled, asked, before, verdict>>

Settle(c) == /\ c \in submitted \ settled
             /\ settled' = settled \cup {c}
             /\ UNCHANGED <<submitted, asked, before, verdict>>

Ask(r) == /\ r \notin asked
          /\ \A q \in Rounds : q < r => verdict[q] = "resumed"
          /\ asked' = asked \cup {r}
          /\ before' = [before EXCEPT ![r] = submitted]
          /\ UNCHANGED <<submitted, settled, verdict>>

Judge(r, from, to) == /\ verdict[r] \in from
                      /\ verdict' = [verdict EXCEPT ![r] = to]
                      /\ UNCHANGED <<submitted, settled, asked, before>>

Grant(r) == r \in asked /\ before[r] \subseteq settled /\ Judge(r, {"open"}, "granted")
Deny(r) == Judge(r, {"open", "granted"}, "denied")
Resume(r) == Judge(r, {"granted"}, "resumed")

Next == \/ \E c \in Commands : Submit(c) \/ Settle(c)
        \/ \E r \in Rounds : Ask(r) \/ Grant(r) \/ Deny(r) \/ Resume(r)

Spec == Init /\ [][Next]_vars
=============================================================================
