--------------------------- MODULE DepositContract ---------------------------
(***************************************************************************)
(* What direct deposits promise: a payroll line has one transfer, every    *)
(* create call for the line that is answered is told that transfer, and    *)
(* its money moves once.  Look-ups, inserts, row locks and lost            *)
(* transactions are left out.  PayrollBank implements this module.         *)
(***************************************************************************)
EXTENDS Naturals

CONSTANTS Creators,  \* create calls; a transfer is named after the call that opened it
          LineOf,    \* LineOf[c]: the payroll line of call c
          Nobody     \* no transfer

VARIABLES opened,  \* transfers
          paid,    \* paid[t]: times the money of t moved
          told     \* told[c]: the transfer call c was answered with

vars == <<opened, paid, told>>

Init ==
  /\ opened = {}
  /\ paid = [t \in Creators |-> 0]
  /\ told = [c \in Creators |-> Nobody]

Open(c) ==
  /\ \A t \in opened : LineOf[t] # LineOf[c]
  /\ opened' = opened \union {c}
  /\ told' = [told EXCEPT ![c] = c]
  /\ UNCHANGED paid

Tell(c, t) ==
  /\ told[c] = Nobody
  /\ t \in opened /\ LineOf[t] = LineOf[c]
  /\ told' = [told EXCEPT ![c] = t]
  /\ UNCHANGED <<opened, paid>>

Pay(t) ==
  /\ t \in opened /\ paid[t] = 0
  /\ paid' = [paid EXCEPT ![t] = 1]
  /\ UNCHANGED <<opened, told>>

Next == \E c \in Creators : Open(c) \/ Pay(c) \/ \E t \in Creators : Tell(c, t)

Spec == Init /\ [][Next]_vars

=============================================================================
