--------------------------- MODULE OutboxContract ---------------------------
(***************************************************************************)
(* What a transactional outbox promises, whatever publishes it: a row is   *)
(* handed to the broker only after it was written and before it is         *)
(* settled, it is settled once, and it is settled as sent only if it was   *)
(* handed over.  Delivery is at least once: nothing bounds the copies.     *)
(***************************************************************************)
EXTENDS Naturals

CONSTANT Events

VARIABLES written,  \* rows in the outbox table
          sent,     \* rows settled as published
          dead,     \* rows settled as given up
          handed    \* handed[e]: copies of e given to the broker

vars == <<written, sent, dead, handed>>

Open == written \ (sent \union dead)

Init ==
  /\ written = {} /\ sent = {} /\ dead = {}
  /\ handed = [e \in Events |-> 0]

Write(e) ==
  /\ e \in Events \ written
  /\ written' = written \union {e}
  /\ UNCHANGED <<sent, dead, handed>>

Hand(e) ==
  /\ e \in Open
  /\ handed' = [handed EXCEPT ![e] = @ + 1]
  /\ UNCHANGED <<written, sent, dead>>

\* One transaction settles some rows as sent and gives some up.
Settle(S, D) ==
  /\ S \intersect D = {}
  /\ \A e \in S : handed[e] >= 1
  /\ sent' = sent \union S
  /\ dead' = dead \union D
  /\ UNCHANGED <<written, handed>>

Next ==
  \/ \E e \in Events : Write(e) \/ Hand(e)
  \/ \E S, D \in SUBSET Open : Settle(S, D)

Spec == Init /\ [][Next]_vars

=============================================================================
