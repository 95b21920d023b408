--------------------------- MODULE PayrollLedger ---------------------------
(***************************************************************************)
(* What the payroll service promises about its transactional runs, with    *)
(* the threads, the database transaction and the connection pool left out: *)
(* an employee-period (a slot of a payroll table) is paid at most once,    *)
(* the payment and its PAYROLL_PROCESSED notice appear in one step, and a  *)
(* run reported as failed never pays.  PayrollRun implements this module.  *)
(***************************************************************************)
CONSTANTS Runs,    \* payroll requests
          SlotOf   \* SlotOf[r]: the unique-index entry request r competes for

VARIABLES paid,    \* runs whose payroll row is committed
          notices  \* outbox rows about runs, committed

vars == <<paid, notices>>

Processed(r) == [type |-> "PAYROLL_PROCESSED", run |-> r, seq |-> 0]
Failed(r)    == [type |-> "PAYROLL_FAILED", run |-> r, seq |-> 0]

Init == paid = {} /\ notices = {}

\* The run pays: row and notice together, and only into a free slot.
Pay(r) ==
  /\ \A q \in paid : SlotOf[q] # SlotOf[r]
  /\ Failed(r) \notin notices
  /\ paid' = paid \union {r}
  /\ notices' = notices \union {Processed(r)}

\* The run is reported as failed.
Report(r) ==
  /\ r \notin paid
  /\ notices' = notices \union {Failed(r)}
  /\ UNCHANGED paid

Next == \E r \in Runs : Pay(r) \/ Report(r)

Spec == Init /\ [][Next]_vars

=============================================================================
