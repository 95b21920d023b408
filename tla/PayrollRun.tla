----------------------------- MODULE PayrollRun -----------------------------
(***************************************************************************)
(* Payroll runs of payroll-java-service as threads over one database.      *)
(*                                                                         *)
(* A run is one request to pay one employee for one period.  Basic runs    *)
(* (PayrollService.runPayroll) and Enterprise runs (PayrollEnterprise-     *)
(* Service.runMultiCountryPayroll) execute inside one transaction and one  *)
(* pooled connection.  Batched runs are the same enterprise method called  *)
(* on "this" by runBatchPayroll: the self-invocation bypasses the Spring   *)
(* proxy, so each repository call commits on its own.                      *)
(*                                                                         *)
(* Amounts are left out: a body may fail at any of its steps (bad input, a *)
(* CHECK constraint, serialisation, a lost connection).                    *)
(***************************************************************************)
EXTENDS Naturals, FiniteSets

CONSTANTS Basic, Enterprise, Batched,  \* the runs, by entry point
          Keys, KeyOf,                 \* KeyOf[r]: (tenant, employee, period)
          Batches, BatchOf, Rank,      \* batch of a batched run, its place in it
          PoolSize                     \* hikari.maximum-pool-size

Transactional == Basic \union Enterprise
Runs == Transactional \union Batched

ASSUME RunsAssumption ==
  /\ IsFiniteSet(Runs)
  /\ Basic \intersect Enterprise = {}
  /\ Transactional \intersect Batched = {}
  /\ KeyOf \in [Runs -> Keys]
  /\ BatchOf \in [Batched -> Batches]
  /\ Rank \in [Batched -> Nat]
  /\ PoolSize \in Nat \ {0}

VARIABLES
  pc,         \* where each run is
  tentative,  \* runs with an inserted but uncommitted payroll row
  rows,       \* runs whose payroll row is committed
  payslips,   \* runs whose payslip is committed
  audits,     \* runs whose RUN_PAYROLL audit row is committed
  events,     \* committed rows of outbox_events
  progress,   \* batches with a BATCH_PROGRESS audit row
  closed      \* batches whose runBatchPayroll call has returned

tables == <<tentative, rows, payslips, audits, events>>
batchVars == <<progress, closed>>
vars == <<pc, tables, batchVars>>

(***************************************************************************)
(* Identities.                                                             *)
(***************************************************************************)
Processed(r) == [type |-> "PAYROLL_PROCESSED", run |-> r, seq |-> 0]
Failed(r)    == [type |-> "PAYROLL_FAILED", run |-> r, seq |-> 0]
RunEvents    == {Processed(r) : r \in Runs} \union {Failed(r) : r \in Runs}

\* Two tables, two unique indexes on (tenant, employee, period).
Slot(r) == <<IF r \in Basic THEN "payroll_records" ELSE "enhanced_payroll_records",
             KeyOf[r]>>

SameSlot(r, q) == r # q /\ Slot(r) = Slot(q)

(***************************************************************************)
(* The connection pool: a transactional run keeps its connection from      *)
(* begin to commit or rollback.                                            *)
(***************************************************************************)
InFlight == {"check", "insert", "payslip", "audit", "outbox", "commit",
             "failing", "rethrow"}
Final == {"done", "failed", "refused", "crashed"}

Holding == {r \in Transactional : pc[r] \in InFlight}

PoolFree == Cardinality(Holding) < PoolSize

\* The employees of a batch are run one after the other, in list order.
MyTurn(r) == \A q \in Batched :
                 BatchOf[q] = BatchOf[r] /\ Rank[q] < Rank[r]
                     => pc[q] \in {"done", "failed"}

(***************************************************************************)
(* Initial state.                                                          *)
(***************************************************************************)
Init ==
  /\ pc = [r \in Runs |-> "idle"]
  /\ tentative = {} /\ rows = {} /\ payslips = {} /\ audits = {} /\ events = {}
  /\ progress = {} /\ closed = {}

Goto(r, l) == pc' = [pc EXCEPT ![r] = l]

(***************************************************************************)
(* Entering the method.                                                    *)
(***************************************************************************)
\* The proxy opens the transaction on a pooled connection, or the batch loop
\* reaches the employee.
Begin(r) ==
  /\ pc[r] = "idle"
  /\ IF r \in Transactional THEN PoolFree ELSE MyTurn(r)
  /\ Goto(r, "check")
  /\ UNCHANGED <<tables, batchVars>>

\* No connection within connection-timeout: the body never runs.
Refuse(r) ==
  /\ pc[r] = "idle"
  /\ r \in Transactional
  /\ ~PoolFree
  /\ Goto(r, "refused")
  /\ UNCHANGED <<tables, batchVars>>

(***************************************************************************)
(* The body.                                                               *)
(***************************************************************************)
\* The advisory pre-check reads committed rows only.
Check(r) ==
  /\ pc[r] = "check"
  /\ IF \E q \in rows : SameSlot(r, q) THEN Goto(r, "failing") ELSE Goto(r, "insert")
  /\ UNCHANGED <<tables, batchVars>>

\* Mutant of IndexFree: no unique index, only the advisory pre-check.
IndexIgnoresUncommitted(r) == TRUE

\* The unique index makes an insert wait for an uncommitted rival.
IndexFree(r) == ~ \E q \in tentative : SameSlot(r, q)

\* saveAndFlush.  A committed rival is a constraint violation.  Inside a
\* transaction the row stays tentative; a batched save commits at once.
Insert(r) ==
  /\ pc[r] = "insert"
  /\ IndexFree(r)
  /\ \/ /\ \E q \in rows : SameSlot(r, q)
        /\ Goto(r, "failing")
        /\ UNCHANGED tables
     \/ /\ ~ \E q \in rows : SameSlot(r, q)
        /\ r \in Transactional
        /\ tentative' = tentative \union {r}
        /\ Goto(r, "commit")
        /\ UNCHANGED <<rows, payslips, audits, events>>
     \/ /\ ~ \E q \in rows : SameSlot(r, q)
        /\ r \in Batched
        /\ rows' = rows \union {r}
        /\ Goto(r, "payslip")
        /\ UNCHANGED <<tentative, payslips, audits, events>>
  /\ UNCHANGED batchVars

\* Batched: generatePayslip's save is a transaction of its own.
SavePayslip(r) ==
  /\ pc[r] = "payslip"
  /\ payslips' = payslips \union {r}
  /\ Goto(r, "audit")
  /\ UNCHANGED <<tentative, rows, audits, events, batchVars>>

\* Batched: so is the audit row; the anomaly rows that follow are left out.
SaveAudit(r) ==
  /\ pc[r] = "audit"
  /\ audits' = audits \union {r}
  /\ Goto(r, "outbox")
  /\ UNCHANGED <<tentative, rows, payslips, events, batchVars>>

\* Batched: and the outbox row, the last write of the body.
SaveEvent(r) ==
  /\ pc[r] = "outbox"
  /\ events' = events \union {Processed(r)}
  /\ Goto(r, "done")
  /\ UNCHANGED <<tentative, rows, payslips, audits, batchVars>>

\* Mutant of CommittedEvents: the outbox row is not part of the transaction.
ForgetsTheEvent(r) == {}

CommittedEvents(r) == {Processed(r)}

\* Transactional: row, payslip, audit and outbox row become visible together.
\* A basic run writes no payslip and no audit row.
Commit(r) ==
  /\ pc[r] = "commit"
  /\ tentative' = tentative \ {r}
  /\ rows' = rows \union {r}
  /\ payslips' = IF r \in Enterprise THEN payslips \union {r} ELSE payslips
  /\ audits' = IF r \in Enterprise THEN audits \union {r} ELSE audits
  /\ events' = events \union CommittedEvents(r)
  /\ Goto(r, "done")
  /\ UNCHANGED batchVars

\* The commit itself fails, outside the method's try: nothing is recorded.
CommitFails(r) ==
  /\ pc[r] = "commit"
  /\ tentative' = tentative \ {r}
  /\ Goto(r, "failed")
  /\ UNCHANGED <<rows, payslips, audits, events, batchVars>>

(***************************************************************************)
(* The catch block.                                                        *)
(***************************************************************************)
\* Any step of the body may throw.
BodyFails(r) ==
  /\ pc[r] \in {"check", "insert", "payslip", "audit", "outbox", "commit"}
  /\ Goto(r, "failing")
  /\ UNCHANGED <<tables, batchVars>>

AfterCatch(r) == IF r \in Transactional THEN "rethrow" ELSE "failed"

FailureEvents(r) == {Failed(r)}

\* recordFailure: REQUIRES_NEW commits the PAYROLL_FAILED row on a second
\* connection while the first one is still held.
RecordFailure(r) ==
  /\ pc[r] = "failing"
  /\ PoolFree
  /\ events' = events \union FailureEvents(r)
  /\ Goto(r, AfterCatch(r))
  /\ UNCHANGED <<tentative, rows, payslips, audits, batchVars>>

\* Mutant of RecordFailureTimesOut: a pool without connection-timeout.
WaitsForever(r) == FALSE

\* No second connection within connection-timeout: recordFailure throws.
RecordFailureTimesOut(r) ==
  /\ pc[r] = "failing"
  /\ ~PoolFree
  /\ Goto(r, AfterCatch(r))
  /\ UNCHANGED <<tables, batchVars>>

\* recordFailure's insert fails for another reason: that exception goes on instead.
RecordFailureFails(r) ==
  /\ pc[r] = "failing"
  /\ PoolFree
  /\ Goto(r, AfterCatch(r))
  /\ UNCHANGED <<tables, batchVars>>

\* The exception leaves the proxy: rollback, and the connection goes back.
Rollback(r) ==
  /\ pc[r] = "rethrow"
  /\ tentative' = tentative \ {r}
  /\ Goto(r, "failed")
  /\ UNCHANGED <<rows, payslips, audits, events, batchVars>>

(***************************************************************************)
(* The end of a batch, and the end of the process.                         *)
(***************************************************************************)
Members(b) == {r \in Batched : BatchOf[r] = b}

CleanRun(b) == \A r \in Members(b) : pc[r] = "done"

\* BATCH_PROGRESS is written for a clean run only.
FinishBatch(b) ==
  /\ b \notin closed
  /\ \A r \in Members(b) : pc[r] \in {"done", "failed"}
  /\ closed' = closed \union {b}
  /\ progress' = IF CleanRun(b) THEN progress \union {b} ELSE progress
  /\ UNCHANGED <<pc, tables>>

\* The process stops: the database rolls every open transaction back.
Crash ==
  /\ \E r \in Runs : pc[r] \in InFlight
  /\ pc' = [r \in Runs |-> IF pc[r] \in InFlight THEN "crashed" ELSE pc[r]]
  /\ tentative' = {}
  /\ UNCHANGED <<rows, payslips, audits, events, batchVars>>

\* What the thread itself does next, a connection-timeout included.
Work(r) ==
  \/ Check(r) \/ Insert(r)
  \/ SavePayslip(r) \/ SaveAudit(r) \/ SaveEvent(r) \/ Commit(r)
  \/ RecordFailure(r) \/ RecordFailureTimesOut(r) \/ Rollback(r)

\* What may go wrong instead.
Fault(r) == BodyFails(r) \/ CommitFails(r) \/ RecordFailureFails(r)

Next ==
  \/ \E r \in Runs : Begin(r) \/ Refuse(r) \/ Work(r) \/ Fault(r)
  \/ \E b \in Batches : FinishBatch(b)
  \/ Crash

Spec == Init /\ [][Next]_vars

\* A thread that entered the method keeps running where it can.  No fault is
\* owed: a run that waits for an index entry is disabled until its rival ends,
\* and nothing in the code ends that wait but the rival.
Fairness == \A r \in Runs : WF_vars(Work(r))

FairSpec == Spec /\ Fairness

-----------------------------------------------------------------------------
TypeOK ==
  /\ pc \in [Runs -> InFlight \union Final \union {"idle"}]
  /\ tentative \subseteq Transactional
  /\ rows \subseteq Runs /\ payslips \subseteq Runs /\ audits \subseteq Runs
  /\ events \subseteq RunEvents
  /\ progress \subseteq closed /\ closed \subseteq Batches

\* An employee-period is never paid twice out of one table, however the
\* advisory pre-checks and the inserts of concurrent runs interleave
\* (PayrollService.saveOrRejectDuplicate, V4__payroll_period_unique.sql).
OnePerPeriod == \A r, q \in rows : ~SameSlot(r, q)

\* A BATCH_PROGRESS row means what it says: every employee of the batch has
\* payroll row, payslip, audit row and event (runBatchPayroll).
ProgressMeansComplete ==
  \A b \in progress : \A r \in Members(b) :
     r \in rows /\ r \in payslips /\ r \in audits /\ Processed(r) \in events

\* The outbox tells the truth.  PAYROLL_PROCESSED of a transactional run is
\* there exactly when its payroll row is, and a run that left a PAYROLL_FAILED
\* row has paid nothing, even if the process died on the way (runPayroll and
\* runMultiCountryPayroll with recordFailure).  Of a batched run, whose writes
\* commit one by one, less is true: PAYROLL_PROCESSED is never ahead of the
\* other rows, never beside a PAYROLL_FAILED, and a progress row stands for
\* complete employees (runBatchPayroll).
OutboxMatchesLedger ==
  /\ \A r \in Transactional :
        /\ Processed(r) \in events <=> r \in rows
        /\ Failed(r) \in events => r \notin rows
  /\ \A r \in Batched :
        Processed(r) \in events
          => r \in rows \intersect payslips \intersect audits /\ Failed(r) \notin events
  /\ ProgressMeansComplete

\* No thread hangs: a run that got its connection ends, although runs wait
\* for each other's index entries and for a second connection of a full pool.
RunsEnd == \A r \in Runs : pc[r] = "check" ~> pc[r] \in Final

\* A run that waits for an index entry waits for one that waits for no entry:
\* the holder commits, rolls back, or is at recordFailure, which ends with or
\* without a second connection (saveOrRejectDuplicate, connection-timeout).
WaitsForAWorker ==
  \A r \in Runs :
     pc[r] = "insert" /\ ~IndexFree(r)
       => \E q \in tentative : SameSlot(r, q) /\ pc[q] \in {"commit", "failing", "rethrow"}

Ledger == INSTANCE PayrollLedger
            WITH Runs <- Transactional,
                 SlotOf <- [r \in Transactional |-> Slot(r)],
                 paid <- rows \intersect Transactional,
                 notices <- {e \in events : e.run \in Transactional}

\* Transactional runs implement the abstract ledger.
ImplementsLedger == Ledger!Spec

=============================================================================
